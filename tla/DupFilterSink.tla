--------------------------- MODULE DupFilterSink ---------------------------
(***************************************************************************)
(* dup_filter_sink (sinks/dup_filter_sink.h), which is a dist_sink         *)
(* (sinks/dist_sink.h), over a tcp_sink and a ringbuffer_sink; other       *)
(* loggers have the tcp_sink too.  The filter's mutex is held while its    *)
(* children are called, the tcp_sink's while it connects and sends         *)
(* (base_sink-inl.h): a thread has a mutex when it is at such a place.     *)
(* What a child throws leaves sink_it_ of the filter, for the logger to    *)
(* catch.                                                                  *)
(***************************************************************************)
EXTENDS TcpSink, RingbufferSink, FiniteSets

CONSTANTS
    Threads,
    Messages,           \* what is logged: [payload, level, time]
    Times,              \* times at which the skipped message is made
    Announcement,       \* the payload "Skipped %u duplicate messages.."
    Info,               \* its level
    ChildLevel,         \* of "tcp" and of "ring": the level they are set to
    max_skip_duration_,
    MaxLogs,            \* bound: messages logged
    MaxChanges          \* bound: changes of the children and their formatter

ASSUME DupFilterAssumption ==
    /\ DOMAIN ChildLevel = {"tcp", "ring"}
    /\ \A t \in Times \cup {m.time : m \in Messages} : t \in Nat /\ t \div PerSecond > 0
    /\ \A now \in Times : [payload |-> Announcement, level |-> Info, time |-> now] \in Items
    /\ Messages \subseteq Items
    /\ Announcement \notin {m.payload : m \in Messages}

Children == DOMAIN ChildLevel

VARIABLES
    last_msg_time_, last_msg_payload_, skip_counter_,
    sinks_,             \* the children, in order
    frame,              \* of each thread: where it is and what it is doing
    logs, changes,      \* how many messages and changes there have been
    missed, told        \* since a child last got a message: how many were
                        \* kept from it, and how many it was told of

filterVars == <<last_msg_time_, last_msg_payload_, skip_counter_>>
history == <<missed, told>>
vars == <<tcpVars, ringVars, filterVars, sinks_, frame, logs, changes, history>>

NoMessage == [payload |-> "", level |-> 0, time |-> 0]
Idle == [at |-> "idle", stage |-> "none", msg |-> NoMessage, next |-> 0, sent |-> 0]
Zeros == [c \in Children |-> 0]

(* The filter is constructed without children; some may be added before    *)
(* anybody logs.                                                           *)
Init ==
    /\ TcpInit /\ RingInit
    /\ last_msg_time_ = 0 /\ last_msg_payload_ = "" /\ skip_counter_ = 0
    /\ sinks_ \in {<<>>, <<"tcp">>, <<"tcp", "ring">>}
    /\ frame = [t \in Threads |-> Idle]
    /\ logs = 0 /\ changes = 0
    /\ missed = Zeros /\ told = Zeros

-----------------------------------------------------------------------------
FilterFree == \A t \in Threads : frame[t].stage \in {"none", "direct"}
TcpFree == \A t \in Threads : frame[t].at \notin {"connect", "send"}

Delivering(t) == frame[t].stage \in {"skipped", "message"}
LevelOf(t) == IF frame[t].stage = "skipped" THEN Info ELSE frame[t].msg.level
ShouldLog(child, level) == level >= ChildLevel[child]

Goto(t, f) == frame' = [frame EXCEPT ![t] = f]
GoOn(t) == Goto(t, [frame[t] EXCEPT !.at = "visit", !.next = @ + 1, !.sent = 0])
Leave(t) == Goto(t, Idle)

Enter(t, stage, m) ==
    /\ frame[t] = Idle
    /\ Goto(t, [Idle EXCEPT !.at = "visit", !.stage = stage, !.msg = m, !.next = 1])

(* filter_: an identical payload within the duration is a duplicate. *)
Passes(m) == m.time - last_msg_time_ > max_skip_duration_ \/ m.payload # last_msg_payload_

(* A duplicate is counted ... *)
Skip(t, m) ==
    /\ frame[t] = Idle /\ FilterFree /\ logs < MaxLogs
    /\ ~ Passes(m)
    /\ skip_counter_' = skip_counter_ + 1
    /\ logs' = logs + 1
    /\ missed' = [c \in Children |-> IF ShouldLog(c, m.level) THEN missed[c] + 1 ELSE missed[c]]
    /\ UNCHANGED <<tcpVars, ringVars, last_msg_time_, last_msg_payload_, sinks_, frame,
                   changes, told>>

(* ... any other message goes to the children, after the number of those   *)
(* that were skipped.  (Fault: the counter is reset too early.)            *)
Pass_resets(t, m) ==
    /\ FilterFree /\ logs < MaxLogs
    /\ Passes(m)
    /\ Enter(t, IF skip_counter_ > 0 THEN "skipped" ELSE "message", m)
    /\ skip_counter_' = 0
    /\ logs' = logs + 1
    /\ UNCHANGED <<tcpVars, ringVars, last_msg_time_, last_msg_payload_, sinks_, changes, history>>

Pass(t, m) ==
    /\ FilterFree /\ logs < MaxLogs
    /\ Passes(m)
    /\ Enter(t, IF skip_counter_ > 0 THEN "skipped" ELSE "message", m)
    /\ logs' = logs + 1
    /\ UNCHANGED <<tcpVars, ringVars, filterVars, sinks_, changes, history>>

-----------------------------------------------------------------------------
(* The loop over the children, in sink_it_, flush_ and set_formatter_. *)
Visiting(t, child) ==
    /\ frame[t].at = "visit" /\ frame[t].next <= Len(sinks_)
    /\ sinks_[frame[t].next] = child

(* A child has got what is being delivered. *)
Delivered(t, child) ==
    IF frame[t].stage = "skipped"
    THEN told' = [told EXCEPT ![child] = @ + skip_counter_] /\ UNCHANGED missed
    ELSE /\ told' = [told EXCEPT ![child] = 0]
         /\ missed' = [missed EXCEPT ![child] = 0]

PassBy(t, child) ==
    /\ Visiting(t, child) /\ Delivering(t) /\ ~ ShouldLog(child, LevelOf(t))
    /\ GoOn(t)
    /\ UNCHANGED <<tcpVars, ringVars, filterVars, sinks_, logs, changes, history>>

(* The "skipped.." message gets the time at which it is made. *)
VisitRing(t) ==
    /\ Visiting(t, "ring") /\ Delivering(t) /\ ShouldLog("ring", LevelOf(t))
    /\ IF frame[t].stage = "message" THEN RingSinkIt(frame[t].msg)
       ELSE \E now \in Times :
              RingSinkIt([payload |-> Announcement, level |-> Info, time |-> now])
    /\ Delivered(t, "ring")
    /\ GoOn(t)
    /\ UNCHANGED <<tcpVars, filterVars, sinks_, logs, changes>>

VisitTcp(t) ==
    /\ Visiting(t, "tcp") /\ Delivering(t) /\ ShouldLog("tcp", LevelOf(t))
    /\ TcpFree
    /\ BeginSend
    /\ Goto(t, [frame[t] EXCEPT !.at = IF IsConnected THEN "send" ELSE "connect"])
    /\ UNCHANGED <<ringVars, filterVars, sinks_, logs, changes, history>>

(* Another logger's message, straight to the tcp_sink. *)
LogToTcp(t) ==
    /\ frame[t] = Idle /\ TcpFree /\ logs < MaxLogs
    /\ BeginSend
    /\ Goto(t, [Idle EXCEPT !.at = IF IsConnected THEN "send" ELSE "connect", !.stage = "direct"])
    /\ logs' = logs + 1
    /\ UNCHANGED <<ringVars, filterVars, sinks_, changes, history>>

TcpConnects(t) ==
    /\ frame[t].at = "connect" /\ Connects
    /\ Goto(t, [frame[t] EXCEPT !.at = "send"])
    /\ UNCHANGED <<ringVars, filterVars, sinks_, logs, changes, history>>

TcpConnectFails(t) ==
    /\ frame[t].at = "connect" /\ ConnectFails
    /\ Leave(t)
    /\ UNCHANGED <<ringVars, filterVars, sinks_, logs, changes, history>>

(* sink_it_ of the tcp_sink returns: on to the next child. *)
TcpReturns(t) ==
    IF frame[t].stage = "direct"
    THEN Leave(t) /\ UNCHANGED history
    ELSE GoOn(t) /\ Delivered(t, "tcp")

TcpSends(t) ==
    /\ frame[t].at = "send"
    /\ \E parts \in 1 .. Units - frame[t].sent :
          /\ SendSome(frame[t].sent, parts)
          /\ IF frame[t].sent + parts = Units
             THEN TcpReturns(t)
             ELSE Goto(t, [frame[t] EXCEPT !.sent = @ + parts]) /\ UNCHANGED history
    /\ UNCHANGED <<ringVars, filterVars, sinks_, logs, changes>>

TcpSendsNothing(t) ==
    /\ frame[t].at = "send" /\ SendNothing
    /\ TcpReturns(t)
    /\ UNCHANGED <<ringVars, filterVars, sinks_, logs, changes>>

TcpSendFails(t) ==
    /\ frame[t].at = "send" /\ SendFails
    /\ Leave(t)
    /\ UNCHANGED <<ringVars, filterVars, sinks_, logs, changes, history>>

(* flush does nothing to these children but take their mutexes; a child's  *)
(* formatter is replaced by a clone.                                       *)
FlushOrFormat(t, child) ==
    /\ Visiting(t, child) /\ frame[t].stage \in {"flush", "formatter"}
    /\ child = "tcp" => TcpFree
    /\ IF child = "ring" /\ frame[t].stage = "formatter"
       THEN RingSetFormatter ELSE UNCHANGED ringVars
    /\ GoOn(t)
    /\ UNCHANGED <<tcpVars, filterVars, sinks_, logs, changes, history>>

EndOfLoop(t) ==
    /\ frame[t].at = "visit" /\ frame[t].next > Len(sinks_)
    /\ UNCHANGED <<tcpVars, ringVars, sinks_, logs, changes, history>>

AfterSkipped(t) ==
    /\ EndOfLoop(t) /\ frame[t].stage = "skipped"
    /\ Goto(t, [frame[t] EXCEPT !.stage = "message", !.next = 1])
    /\ UNCHANGED filterVars

AfterMessage(t) ==
    /\ EndOfLoop(t) /\ frame[t].stage = "message"
    /\ last_msg_time_' = frame[t].msg.time
    /\ last_msg_payload_' = frame[t].msg.payload
    /\ skip_counter_' = 0
    /\ Leave(t)

AfterOther(t) ==
    /\ EndOfLoop(t) /\ frame[t].stage \in {"flush", "formatter"}
    /\ Leave(t) /\ UNCHANGED filterVars

-----------------------------------------------------------------------------
Change(t) ==
    /\ FilterFree /\ changes < MaxChanges
    /\ changes' = changes + 1
    /\ UNCHANGED <<tcpVars, ringVars, filterVars, logs>>

Flush(t) == Change(t) /\ Enter(t, "flush", NoMessage) /\ UNCHANGED <<sinks_, history>>
SetFormatter(t) == Change(t) /\ Enter(t, "formatter", NoMessage) /\ UNCHANGED <<sinks_, history>>

(* add_sink, remove_sink and set_sinks: a child that was not there before  *)
(* has missed nothing.                                                     *)
SetSinks(t, children) ==
    /\ Change(t) /\ frame[t] = Idle
    /\ sinks_' = children
    /\ LET Stay(c) == \E i \in 1 .. Len(sinks_) : sinks_[i] = c
       IN  /\ missed' = [c \in Children |-> IF Stay(c) THEN missed[c] ELSE 0]
           /\ told' = [c \in Children |-> IF Stay(c) THEN told[c] ELSE 0]
    /\ UNCHANGED frame

AddSink(t, child) == Len(sinks_) < 2 /\ SetSinks(t, Append(sinks_, child))
RemoveSink(t, child) ==
    LET others == {i \in 1 .. Len(sinks_) : sinks_[i] # child}
    IN  \E kept \in [1 .. Cardinality(others) -> others] :
            /\ \A i, j \in DOMAIN kept : i < j => kept[i] < kept[j]
            /\ SetSinks(t, [i \in DOMAIN kept |-> sinks_[kept[i]]])

ReadFormatted(lim) ==
    /\ LastFormatted(lim)
    /\ UNCHANGED <<tcpVars, filterVars, sinks_, frame, logs, changes, history>>

(* Nobody is in a call. *)
Stopped == (\A t \in Threads : frame[t] = Idle) /\ UNCHANGED vars

Next ==
    \/ \E t \in Threads, m \in Messages : Skip(t, m) \/ Pass(t, m)
    \/ \E t \in Threads, c \in Children :
          PassBy(t, c) \/ FlushOrFormat(t, c) \/ AddSink(t, c) \/ RemoveSink(t, c)
    \/ \E t \in Threads :
          \/ VisitRing(t) \/ VisitTcp(t) \/ LogToTcp(t)
          \/ TcpConnects(t) \/ TcpConnectFails(t)
          \/ TcpSends(t) \/ TcpSendsNothing(t) \/ TcpSendFails(t)
          \/ AfterSkipped(t) \/ AfterMessage(t) \/ AfterOther(t)
          \/ Flush(t) \/ SetFormatter(t) \/ SetSinks(t, <<"ring", "tcp">>)
    \/ \E lim \in 0 .. RingSize : ReadFormatted(lim)
    \/ Stopped

Spec == Init /\ [][Next]_vars

-----------------------------------------------------------------------------
Frames ==
    [at : {"idle", "visit", "connect", "send"},
     stage : {"none", "skipped", "message", "flush", "formatter", "direct"},
     msg : Messages \cup {NoMessage}, next : 0 .. 3, sent : 0 .. Units - 1]

TypeOK ==
    /\ TcpTypeOK
    /\ RingOK(q_)
    /\ last_msg_payload_ \in {m.payload : m \in Messages \cup {NoMessage}}
    /\ {skip_counter_, last_msg_time_, last_log_secs_} \subseteq Nat
    /\ cached_tm_ \in Nat \cup {Zeroed}
    /\ sinks_ \in Seq(Children) /\ Len(sinks_) <= 2
    /\ frame \in [Threads -> Frames]
    /\ Cardinality({t \in Threads : frame[t].at \in {"connect", "send"}}) <= 1
    /\ \A t \in Threads : frame[t].at = "send" => socket_ # 0
    /\ {missed, told} \subseteq [Children -> Nat]

(* Whether a child will still get the message that is being delivered. *)
Awaits(c) ==
    \E t \in Threads : /\ frame[t].stage = "message"
                       /\ \E i \in frame[t].next .. Len(sinks_) : sinks_[i] = c

(* No message is skipped silently: a child that takes messages of level    *)
(* info has been told, before it gets the next message, of as many skipped *)
(* messages at least as were kept from it since the last, also when a      *)
(* child has thrown in between (dup_filter_sink.h:54-80).                  *)
SkipsAreTold ==
    \A c \in Children :
        Info >= ChildLevel[c] /\ (\E i \in 1 .. Len(sinks_) : sinks_[i] = c) =>
            /\ missed[c] <= told[c] + skip_counter_
            /\ Awaits(c) => missed[c] <= told[c]
=============================================================================
