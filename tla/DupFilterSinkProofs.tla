------------------------ MODULE DupFilterSinkProofs ------------------------
(***************************************************************************)
(* Theorems about the duplicate filter with its TCP sink and its ring      *)
(* buffer, for any threads, messages and levels, any size of the ring and  *)
(* any number of connections, failures and changes of the children.        *)
(***************************************************************************)
EXTENDS DupFilterSink, CircularQProofs, FiniteSetTheorems, WellFoundedInduction

(* Which of the two mutexes a thread has, by its frame. *)
HoldsFilter(f) == f.stage \notin {"none", "direct"}
HoldsTcp(f) == f.at \in {"connect", "send"}

(* Where a thread can be: in the filter it visits the child at next, or the *)
(* end of the list; in the tcp_sink it came from the child at next, or from *)
(* a logger of its own; it has sent something only while it sends.         *)
Fits(f, children) ==
    /\ f.stage = "none" => f = Idle
    /\ f.at = "idle" => f.stage = "none"
    /\ f.stage = "direct" => HoldsTcp(f)
    /\ f.at # "send" => f.sent = 0
    /\ HoldsFilter(f) => f.next \in 1 .. Len(children) + 1
    /\ HoldsFilter(f) /\ HoldsTcp(f) =>
          /\ f.stage \in {"skipped", "message"}
          /\ f.next <= Len(children) /\ children[f.next] = "tcp"

Threading ==
    /\ frame \in [Threads -> Frames]
    /\ sinks_ \in Seq(Children) /\ Len(sinks_) <= 2
    /\ \A t \in Threads : Fits(frame[t], sinks_)
    /\ \A t, u \in Threads : HoldsFilter(frame[t]) /\ HoldsFilter(frame[u]) => t = u
    /\ \A t, u \in Threads : HoldsTcp(frame[t]) /\ HoldsTcp(frame[u]) => t = u

(* The messages in the ring were logged or announce skips.                 *)
Written ==
    Messages \cup {[payload |-> Announcement, level |-> Info, time |-> now] : now \in Times}

Showing == \A i \in 1 .. Size(q_) : Contents(q_)[i] \in Written

(* A cache that is empty or stands for the second it names.                *)
Good(cache) ==
    /\ cache = <<cache[1], cache[2]>> /\ cache[2] \in Nat
    /\ cache[1] = cache[2] \/ (cache[1] = Zeroed /\ cache[2] = 0)

RingInv == RingOK(q_) /\ Showing /\ Good(<<cached_tm_, last_log_secs_>>)

(* The connection is the last that was made.  What is out of a message that *)
(* is being sent ends it; nothing of a message that is still to be sent is *)
(* on any connection; otherwise the connection ends with a whole message.  *)
Sending(t) == frame[t].at = "send" /\ frame[t].sent > 0

TcpInv ==
    /\ TcpTypeOK
    /\ socket_ \in {0, Len(streams)}
    /\ \A t \in Threads :
          /\ HoldsTcp(frame[t]) => sends > 0
          /\ frame[t].at = "connect" => socket_ = 0
          /\ frame[t].at = "send" => socket_ # 0
          /\ HoldsTcp(frame[t]) /\ frame[t].sent = 0 =>
                \A c \in 1 .. Len(streams) : \A i \in 1 .. Len(streams[c]) :
                    streams[c][i].number < sends
          /\ Sending(t) =>
                /\ streams[socket_] # <<>>
                /\ streams[socket_][Len(streams[socket_])] =
                      [number |-> sends, part |-> frame[t].sent]
    /\ /\ socket_ # 0 /\ socket_ \notin gaveUp /\ streams[socket_] # <<>>
       /\ \A t \in Threads : ~Sending(t)
       => streams[socket_][Len(streams[socket_])].part = Units
    /\ StreamsAreFramed

(* What a child that takes messages of level info has missed, it has been  *)
(* told of or will be; those that the loop of the announcement has passed, *)
(* and all of them while the message is delivered, have been told.         *)
Listens(c) == Info >= ChildLevel[c]
Told(c) == missed[c] <= told[c]

FilterInv ==
    /\ last_msg_payload_ \in {m.payload : m \in Messages \cup {NoMessage}}
    /\ skip_counter_ \in Nat /\ last_msg_time_ \in Nat
    /\ missed \in [Children -> Nat] /\ told \in [Children -> Nat]
    /\ \A i \in 1 .. Len(sinks_) :
          Listens(sinks_[i]) => missed[sinks_[i]] <= told[sinks_[i]] + skip_counter_
    /\ \A t \in Threads : \A i \in 1 .. Len(sinks_) :
          Listens(sinks_[i])
          /\ (frame[t].stage = "message" \/ (frame[t].stage = "skipped" /\ i < frame[t].next)) =>
              Told(sinks_[i])
    /\ \A t \in Threads : Delivering(t) => frame[t].msg \in Messages

IInv == Threading /\ RingInv /\ TcpInv /\ FilterInv

-----------------------------------------------------------------------------
(* A thread that is in no call. *)
LEMMA IdleFacts ==
    /\ Idle \in Frames /\ Idle.at = "idle" /\ Idle.stage = "none" /\ Idle.sent = 0
    /\ Idle.next = 0 /\ Idle.msg = NoMessage
    /\ ~HoldsFilter(Idle) /\ ~HoldsTcp(Idle)
    /\ \A children : Fits(Idle, children)
<1>1. /\ Idle \in Frames /\ Idle.at = "idle" /\ Idle.stage = "none" /\ Idle.sent = 0
      /\ Idle.next = 0 /\ Idle.msg = NoMessage
  BY TcpAssumption DEF Idle, Frames
<1> QED BY <1>1 DEF HoldsFilter, HoldsTcp, Fits

(* The fields of a frame. *)
LEMMA FrameFacts ==
    ASSUME Threading, NEW t \in Threads
    PROVE  /\ frame[t] \in Frames /\ Fits(frame[t], sinks_)
           /\ frame[t].at \in {"idle", "visit", "connect", "send"}
           /\ frame[t].stage \in {"none", "skipped", "message", "flush", "formatter", "direct"}
           /\ frame[t].msg \in Messages \cup {NoMessage}
           /\ frame[t].next \in 0 .. 3 /\ frame[t].sent \in 0 .. Units - 1
           /\ Len(sinks_) \in Nat /\ Len(sinks_) <= 2
<1>1. frame[t] \in Frames /\ Fits(frame[t], sinks_)
  BY DEF Threading
<1>3. sinks_ \in Seq(Children) /\ Len(sinks_) <= 2
  BY DEF Threading
<1>2. Len(sinks_) \in Nat
  BY <1>3, LenProperties
<1> QED BY <1>1, <1>2, <1>3 DEF Frames

(* Only the thread that moves has another frame. *)
LEMMA Moved ==
    ASSUME Threading, NEW t \in Threads, NEW f \in Frames, Goto(t, f)
    PROVE  /\ frame' \in [Threads -> Frames] /\ frame'[t] = f
           /\ \A u \in Threads : u # t => frame'[u] = frame[u]
  BY DEF Threading, Goto

(* The mutexes and the places stay right when a thread takes a mutex only  *)
(* if it is free, or had it already.                                       *)
LEMMA MoveThreading ==
    ASSUME Threading, NEW t \in Threads, NEW f \in Frames, Goto(t, f), UNCHANGED sinks_,
           Fits(f, sinks_),
           HoldsFilter(f) => HoldsFilter(frame[t]) \/ FilterFree,
           HoldsTcp(f) => HoldsTcp(frame[t]) \/ TcpFree
    PROVE  Threading'
<1>1. /\ frame' \in [Threads -> Frames] /\ frame'[t] = f
      /\ \A u \in Threads : u # t => frame'[u] = frame[u]
  BY Moved
<1>2. \A u \in Threads : Fits(frame'[u], sinks_')
  BY <1>1 DEF Threading
<1>3. \A u \in Threads : u # t /\ HoldsFilter(f) => ~HoldsFilter(frame[u])
  BY DEF Threading, FilterFree, HoldsFilter
<1>4. \A u \in Threads : u # t /\ HoldsTcp(f) => ~HoldsTcp(frame[u])
  BY DEF Threading, TcpFree, HoldsTcp
<1>5. ASSUME NEW u \in Threads, NEW v \in Threads,
             HoldsFilter(frame'[u]), HoldsFilter(frame'[v])
      PROVE  u = v
  BY <1>1, <1>3, <1>5 DEF Threading
<1>6. ASSUME NEW u \in Threads, NEW v \in Threads, HoldsTcp(frame'[u]), HoldsTcp(frame'[v])
      PROVE  u = v
  BY <1>1, <1>4, <1>6 DEF Threading
<1> QED BY <1>1, <1>2, <1>5, <1>6 DEF Threading

(* On to the next child. *)
LEMMA GoOnFacts ==
    ASSUME Threading, NEW t \in Threads, HoldsFilter(frame[t]),
           frame[t].next <= Len(sinks_), GoOn(t)
    PROVE  \E f \in Frames :
              /\ Goto(t, f) /\ Fits(f, sinks_) /\ HoldsFilter(f) /\ ~HoldsTcp(f)
              /\ f.at = "visit" /\ f.stage = frame[t].stage /\ f.msg = frame[t].msg
              /\ f.next = frame[t].next + 1 /\ f.sent = 0
<1>1. PICK f : f = [frame[t] EXCEPT !.at = "visit", !.next = @ + 1, !.sent = 0]
  OBVIOUS
<1>2. /\ frame[t] \in Frames /\ Fits(frame[t], sinks_) /\ frame[t].next \in 0 .. 3
      /\ Len(sinks_) \in Nat /\ Len(sinks_) <= 2
  BY FrameFacts
<1>8. frame[t].next \in 1 .. Len(sinks_) + 1
  BY <1>2 DEF Fits
<1>9. 0 \in 0 .. Units - 1
  BY TcpAssumption
<1>3. frame[t].next + 1 \in 1 .. Len(sinks_) + 1 /\ frame[t].next + 1 \in 0 .. 3
  <2>1. PICK n \in Nat : n = frame[t].next
    BY <1>2
  <2>2. n >= 1 /\ n <= 2 /\ n <= Len(sinks_)
    BY <1>2, <1>8, <2>1
  <2>3. n + 1 \in 0 .. 3 /\ n + 1 \in 1 .. Len(sinks_) + 1
    BY <1>2, <2>2
  <2> QED BY <2>1, <2>3
<1>4. /\ f \in Frames /\ f.at = "visit" /\ f.stage = frame[t].stage /\ f.msg = frame[t].msg
      /\ f.next = frame[t].next + 1 /\ f.sent = 0
  BY <1>1, <1>2, <1>3, <1>9 DEF Frames
<1>5. Goto(t, f)
  BY <1>1 DEF GoOn
<1>6. HoldsFilter(f) /\ ~HoldsTcp(f)
  BY <1>4 DEF HoldsFilter, HoldsTcp
<1>7. Fits(f, sinks_)
  BY <1>3, <1>4, <1>6 DEF Fits, HoldsFilter
<1> QED BY <1>4, <1>5, <1>6, <1>7

(* A call on the filter begins at its first child. *)
LEMMA EnterFacts ==
    ASSUME Threading, NEW t \in Threads, NEW m \in Messages \cup {NoMessage},
           NEW stage \in {"skipped", "message", "flush", "formatter"}, Enter(t, stage, m)
    PROVE  \E f \in Frames :
              /\ Goto(t, f) /\ Fits(f, sinks_) /\ HoldsFilter(f) /\ ~HoldsTcp(f)
              /\ f.at = "visit" /\ f.stage = stage /\ f.msg = m /\ f.next = 1 /\ f.sent = 0
              /\ frame[t] = Idle
<1>1. PICK f : f = [Idle EXCEPT !.at = "visit", !.stage = stage, !.msg = m, !.next = 1]
  OBVIOUS
<1>2. /\ f \in Frames /\ f.at = "visit" /\ f.stage = stage /\ f.msg = m
      /\ f.next = 1 /\ f.sent = 0
  <2>1. /\ Idle \in Frames /\ Idle.sent = 0 /\ 1 \in 0 .. 3
    BY IdleFacts
  <2> QED BY <1>1, <2>1 DEF Frames
<1>3. HoldsFilter(f) /\ ~HoldsTcp(f) /\ Len(sinks_) \in Nat
  BY <1>2, FrameFacts DEF HoldsFilter, HoldsTcp
<1>4. Fits(f, sinks_)
  BY <1>2, <1>3 DEF Fits
<1> QED BY <1>1, <1>2, <1>3, <1>4 DEF Enter

(* Into the tcp_sink, from the filter or from another logger. *)
LEMMA IntoTcpFacts ==
    ASSUME Threading, NEW t \in Threads, VisitTcp(t) \/ LogToTcp(t)
    PROVE  \E f \in Frames :
              /\ Goto(t, f) /\ Fits(f, sinks_) /\ HoldsTcp(f) /\ TcpFree
              /\ f.at = (IF IsConnected THEN "send" ELSE "connect") /\ f.sent = 0
              /\ f.msg = frame[t].msg
              /\ \/ f.stage = frame[t].stage /\ f.next = frame[t].next /\ HoldsFilter(f)
                 \/ f.stage = "direct" /\ frame[t] = Idle
<1>1. /\ frame[t] \in Frames /\ Fits(frame[t], sinks_) /\ frame[t].next \in 0 .. 3
      /\ Len(sinks_) \in Nat /\ Len(sinks_) <= 2
  BY FrameFacts
<1>2. CASE VisitTcp(t)
  <2>1. PICK f : f = [frame[t] EXCEPT !.at = IF IsConnected THEN "send" ELSE "connect"]
    OBVIOUS
  <2>2. /\ f \in Frames /\ f.at = (IF IsConnected THEN "send" ELSE "connect")
        /\ f.stage = frame[t].stage /\ f.msg = frame[t].msg /\ f.next = frame[t].next
        /\ f.sent = frame[t].sent
    BY <1>1, <2>1 DEF Frames
  <2>3. /\ Goto(t, f) /\ TcpFree /\ f.stage \in {"skipped", "message"}
        /\ frame[t].at = "visit" /\ frame[t].next <= Len(sinks_)
        /\ sinks_[frame[t].next] = "tcp"
    BY <1>2, <2>1, <2>2 DEF VisitTcp, Visiting, Delivering
  <2>4. HoldsFilter(f) /\ HoldsTcp(f) /\ HoldsFilter(frame[t])
    BY <2>2, <2>3 DEF HoldsFilter, HoldsTcp
  <2>5. f.sent = 0
    BY <1>1, <2>2, <2>3 DEF Fits
  <2>6. Fits(f, sinks_)
    BY <1>1, <2>2, <2>3, <2>4, <2>5 DEF Fits
  <2> QED BY <2>2, <2>3, <2>4, <2>5, <2>6
<1>3. CASE LogToTcp(t)
  <2>1. PICK f : f = [Idle EXCEPT !.at = IF IsConnected THEN "send" ELSE "connect",
                                  !.stage = "direct"]
    OBVIOUS
  <2>2. /\ f \in Frames /\ f.at = (IF IsConnected THEN "send" ELSE "connect")
        /\ f.stage = "direct" /\ f.msg = Idle.msg /\ f.sent = 0
    BY <2>1, IdleFacts DEF Frames
  <2>3. Goto(t, f) /\ TcpFree /\ frame[t] = Idle
    BY <1>3, <2>1 DEF LogToTcp
  <2>4. ~HoldsFilter(f) /\ HoldsTcp(f)
    BY <2>2 DEF HoldsFilter, HoldsTcp
  <2>5. Fits(f, sinks_)
    BY <2>2, <2>4 DEF Fits, HoldsTcp
  <2> QED BY <2>2, <2>3, <2>4, <2>5
<1> QED BY <1>2, <1>3

(* Where a thread is that is in the tcp_sink. *)
LEMMA InTcpFacts ==
    ASSUME Threading, NEW t \in Threads, HoldsTcp(frame[t])
    PROVE  \/ frame[t].stage = "direct" /\ ~HoldsFilter(frame[t])
           \/ /\ HoldsFilter(frame[t]) /\ Delivering(t) /\ frame[t].stage # "direct"
              /\ frame[t].next \in 1 .. Len(sinks_) /\ frame[t].next <= Len(sinks_)
              /\ sinks_[frame[t].next] = "tcp"
<1>1. Fits(frame[t], sinks_)
  BY FrameFacts
<1>2. frame[t].stage # "none"
  BY <1>1, IdleFacts DEF Fits
<1>3. CASE frame[t].stage = "direct"
  BY <1>3 DEF HoldsFilter
<1>4. CASE frame[t].stage # "direct"
  <2>1. HoldsFilter(frame[t])
    BY <1>2, <1>4 DEF HoldsFilter
  <2>2. /\ frame[t].next \in 1 .. Len(sinks_) + 1 /\ frame[t].next <= Len(sinks_)
        /\ frame[t].stage \in {"skipped", "message"} /\ sinks_[frame[t].next] = "tcp"
        /\ Len(sinks_) \in Nat
    BY <1>1, <2>1, FrameFacts DEF Fits
  <2> QED BY <1>4, <2>1, <2>2 DEF Delivering
<1> QED BY <1>3, <1>4

(* A part of a message is out, and more is to be sent. *)
LEMMA PartFacts ==
    ASSUME Threading, NEW t \in Threads, frame[t].at = "send",
           NEW parts \in 1 .. Units - frame[t].sent, frame[t].sent + parts # Units,
           Goto(t, [frame[t] EXCEPT !.sent = @ + parts])
    PROVE  \E f \in Frames :
              /\ Goto(t, f) /\ Fits(f, sinks_) /\ f.at = "send" /\ f.sent = frame[t].sent + parts
              /\ f.stage = frame[t].stage /\ f.msg = frame[t].msg /\ f.next = frame[t].next
<1>1. PICK f : f = [frame[t] EXCEPT !.sent = @ + parts]
  OBVIOUS
<1>2. /\ frame[t] \in Frames /\ Fits(frame[t], sinks_) /\ frame[t].sent \in 0 .. Units - 1
      /\ Units \in Nat
  BY FrameFacts, TcpAssumption
<1>3. frame[t].sent + parts \in 0 .. Units - 1
  BY <1>2
<1>4. /\ f \in Frames /\ f.at = "send" /\ f.sent = frame[t].sent + parts
      /\ f.stage = frame[t].stage /\ f.msg = frame[t].msg /\ f.next = frame[t].next
  BY <1>1, <1>2, <1>3 DEF Frames
<1>5. HoldsTcp(f) /\ HoldsTcp(frame[t])
  BY <1>4 DEF HoldsTcp
<1>6. frame[t].stage # "none"
  BY <1>2, IdleFacts DEF Fits
<1>7. Fits(f, sinks_)
  BY <1>2, <1>4, <1>5, <1>6 DEF Fits, HoldsFilter
<1> QED BY <1>1, <1>4, <1>7

(* What a step of a thread does to its frame.                              *)
Enters(t, f) == frame[t] = Idle /\ FilterFree /\ f.at = "visit" /\ HoldsFilter(f) /\ f.next = 1

Proceeds(t, f) ==
    /\ HoldsFilter(frame[t]) /\ frame[t].next <= Len(sinks_)
    /\ f.at = "visit" /\ f.stage = frame[t].stage /\ f.msg = frame[t].msg
    /\ f.next = frame[t].next + 1

EntersTcp(t, f) ==
    /\ HoldsTcp(f) /\ TcpFree /\ f.sent = 0 /\ f.msg = frame[t].msg
    /\ \/ f.stage = frame[t].stage /\ f.next = frame[t].next /\ HoldsFilter(frame[t])
       \/ f.stage = "direct" /\ frame[t] = Idle

StaysInTcp(t, f) ==
    /\ HoldsTcp(f) /\ HoldsTcp(frame[t])
    /\ f.stage = frame[t].stage /\ f.msg = frame[t].msg /\ f.next = frame[t].next

Steps(t, f) ==
    \/ f = Idle \/ Enters(t, f) \/ Proceeds(t, f) \/ EntersTcp(t, f) \/ StaysInTcp(t, f)
    \/ f.stage = "message" /\ frame[t].stage = "skipped" /\ f.at = "visit"

(* Any such step keeps the threads apart. *)
LEMMA StepsThreading ==
    ASSUME Threading, NEW t \in Threads, NEW f \in Frames, Goto(t, f), Fits(f, sinks_),
           Steps(t, f), UNCHANGED sinks_
    PROVE  Threading'
<1>1. Fits(frame[t], sinks_)
  BY FrameFacts
<1>2. HoldsFilter(f) => HoldsFilter(frame[t]) \/ FilterFree
  BY IdleFacts DEF Steps, Enters, Proceeds, EntersTcp, StaysInTcp, HoldsFilter
<1>3. HoldsTcp(f) => HoldsTcp(frame[t]) \/ TcpFree
  BY IdleFacts DEF Steps, Enters, Proceeds, EntersTcp, StaysInTcp, HoldsTcp
<1> QED BY <1>2, <1>3, MoveThreading

(* A call is over. *)
LEMMA LeaveThreading ==
    ASSUME Threading, NEW t \in Threads, Leave(t), UNCHANGED sinks_
    PROVE  Threading'
<1>1. Idle \in Frames /\ Fits(Idle, sinks_) /\ Goto(t, Idle)
  BY IdleFacts DEF Leave
<1>2. Steps(t, Idle)
  BY DEF Steps
<1> QED BY <1>1, <1>2, StepsThreading

(* On to the next child, in the loop. *)
LEMMA GoOnThreading ==
    ASSUME Threading, NEW t \in Threads, HoldsFilter(frame[t]),
           frame[t].next <= Len(sinks_), GoOn(t), UNCHANGED sinks_
    PROVE  Threading'
<1>1. PICK f \in Frames :
              /\ Goto(t, f) /\ Fits(f, sinks_)
              /\ f.at = "visit" /\ f.stage = frame[t].stage /\ f.msg = frame[t].msg
              /\ f.next = frame[t].next + 1
  BY GoOnFacts
<1>2. Steps(t, f)
  BY <1>1 DEF Steps, Proceeds
<1> QED BY <1>1, <1>2, StepsThreading

(* A call on the filter begins. *)
LEMMA EnterThreading ==
    ASSUME Threading, NEW t \in Threads, NEW m \in Messages \cup {NoMessage},
           NEW stage \in {"skipped", "message", "flush", "formatter"}, Enter(t, stage, m),
           FilterFree, UNCHANGED sinks_
    PROVE  Threading'
<1>1. PICK f \in Frames :
              /\ Goto(t, f) /\ Fits(f, sinks_) /\ HoldsFilter(f)
              /\ f.at = "visit" /\ f.next = 1 /\ frame[t] = Idle
  BY EnterFacts
<1>2. Steps(t, f)
  BY <1>1 DEF Steps, Enters
<1> QED BY <1>1, <1>2, StepsThreading

(* While a child is visited, its position is one of the list. *)
LEMMA VisitFacts ==
    ASSUME Threading, NEW t \in Threads, NEW child, Visiting(t, child)
    PROVE  /\ HoldsFilter(frame[t]) /\ ~HoldsTcp(frame[t]) /\ frame[t].sent = 0
           /\ frame[t].next <= Len(sinks_) /\ frame[t].next \in 1 .. Len(sinks_)
           /\ sinks_[frame[t].next] = child
<1>1. Fits(frame[t], sinks_) /\ frame[t].at = "visit" /\ frame[t].next <= Len(sinks_)
  BY FrameFacts DEF Visiting
<1>2. ~HoldsTcp(frame[t]) /\ frame[t].sent = 0
  BY <1>1 DEF HoldsTcp, Fits
<1>3. HoldsFilter(frame[t])
  BY <1>1, <1>2, IdleFacts DEF HoldsFilter, Fits
<1>4. frame[t].next \in 1 .. Len(sinks_) + 1 /\ Len(sinks_) \in Nat
  BY <1>1, <1>3, FrameFacts DEF Fits
<1> QED BY <1>1, <1>2, <1>3, <1>4 DEF Visiting

(* At the end of the list. *)
LEMMA EndFacts ==
    ASSUME Threading, NEW t \in Threads, EndOfLoop(t)
    PROVE  HoldsFilter(frame[t]) /\ ~HoldsTcp(frame[t]) /\ frame[t].sent = 0
<1>1. Fits(frame[t], sinks_) /\ frame[t].at = "visit"
  BY FrameFacts DEF EndOfLoop
<1>2. ~HoldsTcp(frame[t]) /\ frame[t].sent = 0
  BY <1>1 DEF HoldsTcp, Fits
<1> QED BY <1>1, <1>2, IdleFacts DEF HoldsFilter, Fits

(* The loop over the children begins anew, with the message. *)
LEMMA AfterSkippedFacts ==
    ASSUME Threading, NEW t \in Threads, AfterSkipped(t)
    PROVE  \E f \in Frames :
              /\ Goto(t, f) /\ Fits(f, sinks_) /\ ~HoldsTcp(f)
              /\ f.at = "visit" /\ f.stage = "message" /\ f.msg = frame[t].msg
              /\ f.next = 1 /\ f.sent = 0
<1>1. PICK f : f = [frame[t] EXCEPT !.stage = "message", !.next = 1]
  OBVIOUS
<1>2. /\ frame[t] \in Frames /\ frame[t].at = "visit" /\ frame[t].sent = 0
      /\ 1 \in 0 .. 3
  BY FrameFacts, EndFacts DEF AfterSkipped, EndOfLoop
<1>3. /\ f \in Frames /\ f.at = "visit" /\ f.stage = "message" /\ f.msg = frame[t].msg
      /\ f.next = 1 /\ f.sent = 0
  BY <1>1, <1>2 DEF Frames
<1>4. ~HoldsTcp(f) /\ Len(sinks_) \in Nat
  BY <1>3, FrameFacts DEF HoldsTcp
<1>5. Fits(f, sinks_)
  BY <1>3, <1>4 DEF Fits
<1> QED BY <1>1, <1>3, <1>4, <1>5 DEF AfterSkipped

(* The list of children stays short whatever is added or removed.          *)
LEMMA ListFacts ==
    ASSUME Threading, NEW t \in Threads,
           \/ \E c \in Children : AddSink(t, c) \/ RemoveSink(t, c)
           \/ SetSinks(t, <<"ring", "tcp">>)
    PROVE  /\ Change(t) /\ UNCHANGED frame
           /\ sinks_' \in Seq(Children) /\ Len(sinks_') <= 2
           /\ SetSinks(t, sinks_')
<1>1. Children = {"tcp", "ring"}
  BY DupFilterAssumption DEF Children
<1>2. sinks_ \in Seq(Children) /\ Len(sinks_) <= 2 /\ Len(sinks_) \in Nat
  BY FrameFacts DEF Threading
<1>3. ASSUME NEW children \in Seq(Children), Len(children) <= 2, SetSinks(t, children)
      PROVE  /\ Change(t) /\ UNCHANGED frame
             /\ sinks_' \in Seq(Children) /\ Len(sinks_') <= 2
             /\ SetSinks(t, sinks_')
  <2>1. sinks_' = children
    BY <1>3 DEF SetSinks
  <2> QED BY <1>3, <2>1 DEF SetSinks
<1>4. ASSUME NEW c \in Children, AddSink(t, c)
      PROVE  \E children \in Seq(Children) : Len(children) <= 2 /\ SetSinks(t, children)
  <2>1. Append(sinks_, c) \in Seq(Children) /\ Len(Append(sinks_, c)) = Len(sinks_) + 1
    BY <1>2, AppendProperties
  <2>2. Len(Append(sinks_, c)) <= 2
    BY <1>2, <1>4, <2>1 DEF AddSink
  <2> QED BY <1>4, <2>1, <2>2 DEF AddSink
<1>5. ASSUME NEW c \in Children, RemoveSink(t, c)
      PROVE  \E children \in Seq(Children) : Len(children) <= 2 /\ SetSinks(t, children)
  <2> DEFINE others == {i \in 1 .. Len(sinks_) : sinks_[i] # c}
  <2>1. PICK kept \in [1 .. Cardinality(others) -> others] :
           SetSinks(t, [i \in DOMAIN kept |-> sinks_[kept[i]]])
    BY <1>5 DEF RemoveSink
  <2>2. Cardinality(others) \in Nat /\ Cardinality(others) <= Len(sinks_)
    <3>1. IsFiniteSet(1 .. Len(sinks_)) /\ Cardinality(1 .. Len(sinks_)) = Len(sinks_)
      <4>1. PICK n \in Nat : n = Len(sinks_)
        BY <1>2
      <4>2. /\ IsFiniteSet(1 .. n)
            /\ Cardinality(1 .. n) = IF 1 > n THEN 0 ELSE n - 1 + 1
        BY FS_Interval
      <4>3. (IF 1 > n THEN 0 ELSE n - 1 + 1) = n
        OBVIOUS
      <4> QED BY <4>1, <4>2, <4>3
    <3> QED BY <1>2, <3>1, FS_Subset, FS_CardinalityType
  <2>3. PICK n \in Nat : n = Cardinality(others)
    BY <2>2
  <2>4. DOMAIN kept = 1 .. n
    BY <2>3
  <2> DEFINE children == [i \in 1 .. n |-> sinks_[kept[i]]]
  <2>5. ASSUME NEW i \in 1 .. n PROVE sinks_[kept[i]] \in Children
    <3>1. kept[i] \in 1 .. Len(sinks_)
      BY <2>3
    <3> QED BY <1>2, <3>1, ElementOfSeq
  <2>6. children \in Seq(Children) /\ Len(children) = n
    <3> HIDE DEF others
    <3>1. children \in [1 .. n -> Children]
      BY <2>5
    <3> QED BY <3>1, SeqDef
  <2>7. Len(children) <= 2
    BY <1>2, <2>2, <2>3, <2>6
  <2>8. SetSinks(t, children)
    BY <2>1, <2>4
  <2> HIDE DEF children
  <2> QED BY <2>6, <2>7, <2>8
<1>6. <<"ring", "tcp">> \in Seq(Children) /\ Len(<<"ring", "tcp">>) <= 2
  BY <1>1
<1>7. \E children \in Seq(Children) : Len(children) <= 2 /\ SetSinks(t, children)
  BY <1>4, <1>5, <1>6
<1> QED BY <1>3, <1>7

-----------------------------------------------------------------------------
(* What the children of the filter, and the list of them, have to do with  *)
(* each step: the cases that the invariants are shown to survive.          *)
(* Returning from the tcp_sink, a thread is through or goes to the next    *)
(* child.                                                                  *)
LEMMA ReturnFacts ==
    ASSUME Threading, NEW t \in Threads, frame[t].at = "send", TcpReturns(t)
    PROVE  \/ Leave(t) /\ UNCHANGED history /\ ~HoldsFilter(frame[t])
           \/ /\ HoldsFilter(frame[t]) /\ Delivering(t)
              /\ frame[t].next \in 1 .. Len(sinks_) /\ frame[t].next <= Len(sinks_)
              /\ sinks_[frame[t].next] = "tcp"
              /\ GoOn(t) /\ Delivered(t, "tcp")
<1>1. HoldsTcp(frame[t])
  BY DEF HoldsTcp
<1> QED BY <1>1, InTcpFacts DEF TcpReturns

(* A send that returns, or takes a part only.                              *)
LEMMA SendsFacts ==
    ASSUME Threading, NEW t \in Threads, TcpSends(t)
    PROVE  \E parts \in 1 .. Units - frame[t].sent :
              /\ SendSome(frame[t].sent, parts)
              /\ \/ frame[t].sent + parts = Units /\ TcpReturns(t)
                 \/ /\ frame[t].sent + parts # Units /\ UNCHANGED history
                    /\ Goto(t, [frame[t] EXCEPT !.sent = @ + parts])
  BY DEF TcpSends

(* Every step keeps each mutex with at most one thread, and every thread   *)
(* that visits a child at a child of the list.                             *)
LEMMA NextThreading == Threading /\ [Next]_vars => Threading'
<1> SUFFICES ASSUME Threading, [Next]_vars PROVE Threading'
  OBVIOUS
<1>1. ASSUME UNCHANGED <<frame, sinks_>> PROVE Threading'
  BY <1>1 DEF Threading
<1>2. ASSUME NEW t \in Threads, NEW m \in Messages, Skip(t, m) \/ Pass(t, m) PROVE Threading'
  <2>1. CASE Skip(t, m)
    BY <1>1, <2>1 DEF Skip
  <2>2. CASE Pass(t, m)
    <3>1. PICK stage \in {"skipped", "message"} : Enter(t, stage, m)
      BY <2>2 DEF Pass
    <3> QED BY <2>2, <3>1, EnterThreading DEF Pass
  <2> QED BY <1>2, <2>1, <2>2
<1>3. ASSUME NEW t \in Threads, NEW c \in Children, PassBy(t, c) \/ FlushOrFormat(t, c)
      PROVE  Threading'
  BY <1>3, VisitFacts, GoOnThreading DEF PassBy, FlushOrFormat
<1>4. ASSUME NEW t \in Threads,
             \/ \E c \in Children : AddSink(t, c) \/ RemoveSink(t, c)
             \/ SetSinks(t, <<"ring", "tcp">>)
      PROVE  Threading'
  <2>1. /\ FilterFree /\ UNCHANGED frame
        /\ sinks_' \in Seq(Children) /\ Len(sinks_') <= 2
    BY <1>4, ListFacts DEF Change
  <2>2. ASSUME NEW u \in Threads PROVE Fits(frame[u], sinks_')
    <3>1. ~HoldsFilter(frame[u])
      BY <2>1 DEF FilterFree, HoldsFilter
    <3> QED BY <3>1, FrameFacts DEF Fits
  <2> QED BY <2>1, <2>2 DEF Threading
<1>5. ASSUME NEW t \in Threads, VisitRing(t) PROVE Threading'
  BY <1>5, VisitFacts, GoOnThreading DEF VisitRing
<1>6. ASSUME NEW t \in Threads, VisitTcp(t) \/ LogToTcp(t) PROVE Threading'
  <2>1. PICK f \in Frames :
              /\ Goto(t, f) /\ Fits(f, sinks_) /\ HoldsTcp(f) /\ TcpFree /\ f.sent = 0
              /\ f.msg = frame[t].msg
              /\ \/ f.stage = frame[t].stage /\ f.next = frame[t].next /\ HoldsFilter(f)
                 \/ f.stage = "direct" /\ frame[t] = Idle
    BY <1>6, IntoTcpFacts
  <2>2. Steps(t, f)
    BY <2>1 DEF Steps, EntersTcp, HoldsFilter
  <2>3. UNCHANGED sinks_
    BY <1>6 DEF VisitTcp, LogToTcp
  <2> QED BY <2>1, <2>2, <2>3, StepsThreading
<1>7. ASSUME NEW t \in Threads, TcpConnects(t) PROVE Threading'
  <2>1. PICK f \in Frames :
              /\ Goto(t, f) /\ Fits(f, sinks_) /\ f.at = "send"
              /\ f.stage = frame[t].stage /\ f.msg = frame[t].msg /\ f.next = frame[t].next
    <3>1. PICK f : f = [frame[t] EXCEPT !.at = "send"]
      OBVIOUS
    <3>2. frame[t] \in Frames /\ Fits(frame[t], sinks_) /\ frame[t].at = "connect"
      BY <1>7, FrameFacts DEF TcpConnects
    <3>3. /\ f \in Frames /\ f.at = "send" /\ f.stage = frame[t].stage /\ f.msg = frame[t].msg
          /\ f.next = frame[t].next
      BY <3>1, <3>2 DEF Frames
    <3>4. HoldsTcp(f) /\ HoldsTcp(frame[t]) /\ frame[t].stage # "none"
      BY <3>2, <3>3, IdleFacts DEF HoldsTcp, Fits
    <3>5. Fits(f, sinks_)
      BY <3>2, <3>3, <3>4 DEF Fits, HoldsFilter
    <3> QED BY <1>7, <3>1, <3>3, <3>5 DEF TcpConnects
  <2>2. Steps(t, f) /\ UNCHANGED sinks_
    BY <1>7, <2>1 DEF Steps, StaysInTcp, HoldsTcp, TcpConnects
  <2> QED BY <2>1, <2>2, StepsThreading
<1>8. ASSUME NEW t \in Threads, frame[t].at = "send", TcpReturns(t), UNCHANGED sinks_
      PROVE  Threading'
  BY <1>8, ReturnFacts, LeaveThreading, GoOnThreading
<1>9. ASSUME NEW t \in Threads, TcpSends(t) PROVE Threading'
  <2>1. frame[t].at = "send" /\ UNCHANGED sinks_
    BY <1>9 DEF TcpSends
  <2>2. PICK parts \in 1 .. Units - frame[t].sent :
              \/ TcpReturns(t)
              \/ /\ frame[t].sent + parts # Units
                 /\ Goto(t, [frame[t] EXCEPT !.sent = @ + parts])
    BY <1>9, SendsFacts
  <2>3. CASE TcpReturns(t)
    BY <1>8, <2>1, <2>3
  <2>4. CASE ~TcpReturns(t)
    <3>1. PICK f \in Frames :
              /\ Goto(t, f) /\ Fits(f, sinks_) /\ f.at = "send"
              /\ f.stage = frame[t].stage /\ f.msg = frame[t].msg /\ f.next = frame[t].next
      BY <2>1, <2>2, <2>4, PartFacts
    <3>2. Steps(t, f)
      BY <2>1, <3>1 DEF Steps, StaysInTcp, HoldsTcp
    <3> QED BY <2>1, <3>1, <3>2, StepsThreading
  <2> QED BY <2>3, <2>4
<1>10. ASSUME NEW t \in Threads, TcpSendsNothing(t) PROVE Threading'
  BY <1>8, <1>10 DEF TcpSendsNothing
<1>11. ASSUME NEW t \in Threads,
              TcpConnectFails(t) \/ TcpSendFails(t) \/ AfterMessage(t) \/ AfterOther(t)
       PROVE  Threading'
  <2>1. Leave(t) /\ UNCHANGED sinks_
    BY <1>11 DEF TcpConnectFails, TcpSendFails, AfterMessage, AfterOther, EndOfLoop
  <2> QED BY <2>1, LeaveThreading
<1>12. ASSUME NEW t \in Threads, AfterSkipped(t) PROVE Threading'
  <2>1. PICK f \in Frames :
              /\ Goto(t, f) /\ Fits(f, sinks_) /\ f.at = "visit" /\ f.stage = "message"
    BY <1>12, AfterSkippedFacts
  <2>2. Steps(t, f) /\ UNCHANGED sinks_
    BY <1>12, <2>1 DEF Steps, AfterSkipped, EndOfLoop
  <2> QED BY <2>1, <2>2, StepsThreading
<1>13. ASSUME NEW t \in Threads, Flush(t) \/ SetFormatter(t) PROVE Threading'
  <2>1. PICK stage \in {"flush", "formatter"} : Enter(t, stage, NoMessage)
    BY <1>13 DEF Flush, SetFormatter
  <2>2. FilterFree /\ UNCHANGED sinks_
    BY <1>13 DEF Flush, SetFormatter, Change
  <2> QED BY <2>1, <2>2, EnterThreading
<1>14. ASSUME (\E lim \in 0 .. RingSize : ReadFormatted(lim)) \/ Stopped \/ UNCHANGED vars
       PROVE  Threading'
  BY <1>1, <1>14 DEF ReadFormatted, Stopped, vars
<1> QED
  BY <1>2, <1>3, <1>4, <1>5, <1>6, <1>7, <1>9, <1>10, <1>11, <1>12, <1>13, <1>14 DEF Next

(* Nobody is in a call when the sinks are made. *)
LEMMA InitThreading == Init => Threading
<1> SUFFICES ASSUME Init PROVE Threading
  OBVIOUS
<1>1. Children = {"tcp", "ring"}
  BY DupFilterAssumption DEF Children
<1>2. sinks_ \in Seq(Children) /\ Len(sinks_) <= 2
  <2>1. CASE sinks_ = <<>>
    BY <2>1
  <2>2. CASE sinks_ = <<"tcp">>
    BY <1>1, <2>2
  <2>3. CASE sinks_ = <<"tcp", "ring">>
    BY <1>1, <2>3
  <2> QED BY <2>1, <2>2, <2>3 DEF Init
<1>3. frame = [t \in Threads |-> Idle]
  BY DEF Init
<1> QED BY <1>2, <1>3, IdleFacts DEF Threading

-----------------------------------------------------------------------------
(* What is pushed is an item, of a second that is not 0.                   *)
LEMMA WrittenFacts ==
    /\ Written \subseteq Items
    /\ \A m \in Written : m.time \in Nat /\ Second(m) \in Nat /\ Second(m) > 0
<1>1. ASSUME NEW m \in Written PROVE m \in Items /\ m.time \in Nat /\ m.time \div PerSecond > 0
  <2>1. CASE m \in Messages
    BY <2>1, DupFilterAssumption
  <2>2. CASE \E now \in Times :
               m = [payload |-> Announcement, level |-> Info, time |-> now]
    BY <2>2, DupFilterAssumption
  <2> QED BY <1>1, <2>1, <2>2 DEF Written
<1>2. ASSUME NEW m \in Written PROVE Second(m) \in Nat
  BY <1>1, RingbufferAssumption DEF Second
<1> QED BY <1>1, <1>2 DEF Second

(* Pushing keeps the ring well formed, with written messages only.         *)
LEMMA RingPush ==
    ASSUME RingOK(q_), Showing, NEW m \in Written, RingSinkIt(m)
    PROVE  RingOK(q_') /\ Showing' /\ UNCHANGED <<cached_tm_, last_log_secs_>>
<1>1. m \in Items /\ q_' = PushBack(q_, m) /\ UNCHANGED <<cached_tm_, last_log_secs_>>
  BY WrittenFacts DEF RingSinkIt
<1>2. RingOK(q_')
  BY <1>1, PushBackOK
<1>3. Contents(q_) \in Seq(Slot) /\ Len(Contents(q_)) = Size(q_) /\ Size(q_) \in Nat
  BY ContentsFacts, SizeFacts
<1>4. Len(Contents(q_')) = Size(q_') /\ Size(q_') \in Nat
  BY <1>2, ContentsFacts, SizeFacts
<1>5. /\ Append(Contents(q_), m) \in Seq(Slot) /\ Append(Contents(q_), m) # <<>>
      /\ Len(Append(Contents(q_), m)) = Size(q_) + 1
      /\ \A i \in 1 .. Size(q_) : Append(Contents(q_), m)[i] = Contents(q_)[i]
      /\ Append(Contents(q_), m)[Size(q_) + 1] = m
  <2>1. PICK s \in Seq(Slot) : s = Contents(q_)
    BY <1>3
  <2>2. m \in Slot /\ Len(s) = Size(q_)
    BY <1>1, <1>3, <2>1 DEF Slot
  <2>3. /\ Append(s, m) \in Seq(Slot) /\ Append(s, m) # <<>>
        /\ Len(Append(s, m)) = Len(s) + 1
        /\ \A i \in 1 .. Len(s) : Append(s, m)[i] = s[i]
        /\ Append(s, m)[Len(s) + 1] = m
    BY <2>2, AppendProperties
  <2> QED BY <2>1, <2>2, <2>3
<1>10. \A i \in 1 .. Size(q_) + 1 : Append(Contents(q_), m)[i] \in Written
  <2>1. ASSUME NEW i \in 1 .. Size(q_) + 1 PROVE i \in 1 .. Size(q_) \/ i = Size(q_) + 1
    BY <1>3
  <2> QED BY <1>5, <2>1 DEF Showing
<1>6. CASE ~Enabled(q_)
  BY <1>1, <1>6 DEF PushBack, Showing
<1>7. CASE Enabled(q_) /\ Size(q_) < q_.max_items_ - 1
  <2>1. Contents(q_') = Append(Contents(q_), m)
    BY <1>1, <1>7, PushWithRoom
  <2> QED BY <1>1, <1>2, <1>4, <1>5, <1>10, <2>1 DEF Showing
<1>8. CASE Enabled(q_) /\ Size(q_) = q_.max_items_ - 1
  <2>1. Contents(q_') = Tail(Append(Contents(q_), m))
    BY <1>1, <1>8, PushWhenFull
  <2>2. /\ Len(Tail(Append(Contents(q_), m))) = Size(q_)
        /\ \A i \in 1 .. Size(q_) : Tail(Append(Contents(q_), m))[i] \in Written
    BY <1>3, <1>5, <1>10, HeadTailProperties
  <2>3. Size(q_') = Size(q_)
    BY <1>4, <2>1, <2>2
  <2> QED BY <1>1, <1>2, <2>1, <2>2, <2>3 DEF Showing
<1>9. Enabled(q_) => Size(q_) \in 0 .. q_.max_items_ - 1 /\ q_.max_items_ \in Nat
  BY SizeFacts, EnabledFacts
<1> QED BY <1>6, <1>7, <1>8, <1>9

(* The messages that last_raw returns were written.                        *)
LEMMA LastRawFacts ==
    ASSUME RingOK(q_), Showing, NEW lim \in Nat
    PROVE  /\ Len(LastRaw(lim)) \in Nat
           /\ \A i \in 1 .. Len(LastRaw(lim)) : LastRaw(lim)[i] \in Written
<1> DEFINE n == IF lim > 0 /\ lim < Size(q_) THEN lim ELSE Size(q_)
<1>1. Size(q_) \in Nat /\ n \in Nat /\ n <= Size(q_)
  BY SizeFacts
<1>2. LastRaw(lim) = [i \in 1 .. n |-> At(q_, Size(q_) - n + i - 1)]
  BY DEF LastRaw
<1> HIDE DEF n
<1>3. Len(LastRaw(lim)) = n
  BY <1>1, <1>2
<1>4. ASSUME NEW i \in 1 .. n PROVE LastRaw(lim)[i] \in Written
  <2>1. LastRaw(lim)[i] = At(q_, Size(q_) - n + i - 1)
    BY <1>2
  <2>2. PICK k : k = Size(q_) - n + i
    OBVIOUS
  <2>3. k \in 1 .. Size(q_) /\ k - 1 = Size(q_) - n + i - 1
    BY <1>1, <2>2
  <2>4. Contents(q_)[k] = At(q_, k - 1)
    BY <2>3, ContentsFacts
  <2> QED BY <2>1, <2>3, <2>4 DEF Showing
<1> QED BY <1>1, <1>3, <1>4

(* Formatting a written message leaves its second in the cache.            *)
LEMMA FormatFacts ==
    ASSUME NEW cache, Good(cache), NEW m \in Written
    PROVE  Format(cache, m) = <<Second(m), Second(m)>>
<1>1. Second(m) \in Nat /\ Second(m) > 0
  BY WrittenFacts
<1>2. CASE Second(m) # cache[2]
  BY <1>2 DEF Format
<1>3. CASE Second(m) = cache[2]
  BY <1>1, <1>3 DEF Format, Good
<1> QED BY <1>2, <1>3

(* The cache before the first message and after each, as a function that   *)
(* satisfies an equation; there is one, and in every one each message has  *)
(* left its own second: the first that did not would follow one that did.  *)
LEMMA CachesFacts ==
    ASSUME RingOK(q_), Showing, Good(<<cached_tm_, last_log_secs_>>), NEW lim \in Nat
    PROVE  /\ \A i \in 1 .. Len(LastRaw(lim)) :
                 Caches(lim)[i] = <<Second(LastRaw(lim)[i]), Second(LastRaw(lim)[i])>>
           /\ Caches(lim)[0] = <<cached_tm_, last_log_secs_>>
<1> DEFINE last == LastRaw(lim)
           first == <<cached_tm_, last_log_secs_>>
           Own(i) == <<Second(last[i]), Second(last[i])>>
           IsCache(c) == c = [i \in 0 .. Len(last) |->
                                 IF i = 0 THEN first ELSE Format(c[i - 1], last[i])]
<1>1. Len(last) \in Nat /\ \A i \in 1 .. Len(last) : last[i] \in Written
  BY LastRawFacts
<1>2. ASSUME NEW i \in 1 .. Len(last) PROVE Good(Own(i))
  BY <1>1, WrittenFacts DEF Good
<1> HIDE DEF last, first
<1>3. \E c : IsCache(c)
  <2> DEFINE own == [i \in 0 .. Len(last) |-> IF i = 0 THEN first ELSE Own(i)]
  <2>1. ASSUME NEW i \in 0 .. Len(last), i # 0
        PROVE  Own(i) = Format(own[i - 1], last[i])
    <3>1. i \in 1 .. Len(last) /\ i - 1 \in 0 .. Len(last)
      BY <1>1, <2>1
    <3>2. own[i - 1] = IF i - 1 = 0 THEN first ELSE Own(i - 1)
      BY <3>1
    <3>3. Good(own[i - 1])
      <4>1. CASE i - 1 = 0
        BY <3>2, <4>1 DEF first
      <4>2. CASE i - 1 # 0
        <5>1. i - 1 \in 1 .. Len(last)
          BY <1>1, <3>1, <4>2
        <5> QED BY <1>2, <3>2, <4>2, <5>1
      <4> QED BY <4>1, <4>2
    <3> HIDE DEF own
    <3> QED BY <1>1, <3>1, <3>3, FormatFacts
  <2>2. own = [i \in 0 .. Len(last) |->
                  IF i = 0 THEN first ELSE Format(own[i - 1], last[i])]
    <3>1. own = [i \in 0 .. Len(last) |-> IF i = 0 THEN first ELSE Own(i)]
      OBVIOUS
    <3> HIDE DEF own
    <3> QED BY <2>1, <3>1
  <2> QED BY <2>2
<1>4. IsCache(Caches(lim))
  <2>1. Caches(lim) = CHOOSE c : IsCache(c)
    BY DEF Caches, last, first
  <2> HIDE DEF IsCache
  <2> QED BY <1>3, <2>1
<1>5. PICK c : c = Caches(lim)
  OBVIOUS
<1>6. /\ c[0] = first
      /\ \A i \in 1 .. Len(last) : c[i] = Format(c[i - 1], last[i])
  <2>1. c = [i \in 0 .. Len(last) |-> IF i = 0 THEN first ELSE Format(c[i - 1], last[i])]
    BY <1>4, <1>5
  <2>2. 0 \in 0 .. Len(last) /\ \A i \in 1 .. Len(last) : i \in 0 .. Len(last) /\ i # 0
    BY <1>1
  <2> QED BY <2>1, <2>2
<1>7. ASSUME NEW i \in 1 .. Len(last), Good(c[i - 1]) PROVE c[i] = Own(i)
  BY <1>1, <1>6, <1>7, FormatFacts
<1>8. \A i \in 1 .. Len(last) : c[i] = Own(i)
  <2> DEFINE Bad == {i \in 1 .. Len(last) : c[i] # Own(i)}
  <2> SUFFICES ASSUME Bad # {} PROVE FALSE
    OBVIOUS
  <2>1. Bad \subseteq Nat
    BY <1>1
  <2>2. \E i \in Bad : \A j \in Bad : ~ (<<j, i>> \in OpToRel(<, Nat))
    <3> HIDE DEF Bad
    <3> QED BY <2>1, NatLessThanWellFounded, WFMin
  <2>3. PICK i \in Bad : \A j \in Bad : ~ (<<j, i>> \in OpToRel(<, Nat))
    BY <2>2
  <2>4. \A j \in Bad : ~ (j < i)
    BY <2>1, <2>3 DEF OpToRel
  <2>5. CASE i = 1
    <3>1. Good(c[0])
      BY <1>6 DEF first
    <3>2. i - 1 = 0
      BY <2>5
    <3> QED BY <1>7, <3>1, <3>2
  <2>6. CASE i # 1
    <3>1. i - 1 \in 1 .. Len(last) /\ i - 1 < i
      BY <1>1, <2>6
    <3>2. c[i - 1] = Own(i - 1)
      BY <2>4, <3>1
    <3>3. Good(c[i - 1])
      BY <1>2, <3>1, <3>2
    <3> QED BY <1>7, <3>3
  <2> QED BY <2>5, <2>6
<1> QED BY <1>5, <1>6, <1>8 DEF last, first

(* Whatever is formatted leaves the cache good. *)
LEMMA FormatsGood ==
    ASSUME RingOK(q_), Showing, Good(<<cached_tm_, last_log_secs_>>), NEW lim \in Nat,
           LastFormatted(lim)
    PROVE  UNCHANGED q_ /\ Good(<<cached_tm_', last_log_secs_'>>)
<1> DEFINE n == Len(LastRaw(lim))
<1>1. n \in Nat /\ \A i \in 1 .. n : LastRaw(lim)[i] \in Written
  BY LastRawFacts
<1>2. /\ UNCHANGED q_
      /\ cached_tm_' = Caches(lim)[n][1] /\ last_log_secs_' = Caches(lim)[n][2]
  BY DEF LastFormatted
<1>3. Good(Caches(lim)[n])
  <2>1. CASE n = 0
    BY <2>1, CachesFacts
  <2>2. CASE n # 0
    <3>1. n \in 1 .. n
      BY <1>1, <2>2
    <3>2. PICK s : s = Second(LastRaw(lim)[n])
      OBVIOUS
    <3>3. s \in Nat /\ Caches(lim)[n] = <<s, s>>
      BY <1>1, <3>1, <3>2, CachesFacts, WrittenFacts
    <3> QED BY <3>3 DEF Good
  <2> QED BY <2>1, <2>2
<1>4. PICK c : c = Caches(lim)[n]
  OBVIOUS
<1>5. cached_tm_' = c[1] /\ last_log_secs_' = c[2] /\ Good(c)
  BY <1>2, <1>3, <1>4
<1> QED BY <1>2, <1>5 DEF Good

(* Every step keeps the ring and the cache. *)
LEMMA NextRing == Threading /\ FilterInv /\ RingInv /\ [Next]_vars => RingInv'
<1> SUFFICES ASSUME Threading, FilterInv, RingInv, [Next]_vars PROVE RingInv'
  OBVIOUS
<1>1. ASSUME UNCHANGED ringVars PROVE RingInv'
  BY <1>1 DEF ringVars, RingInv, Showing
<1>2. ASSUME NEW t \in Threads, VisitRing(t) PROVE RingInv'
  <2>1. PICK m \in Written : RingSinkIt(m)
    <3>1. CASE frame[t].stage = "message"
      <4>1. frame[t].msg \in Messages
        BY <3>1 DEF FilterInv, Delivering
      <4> QED BY <1>2, <3>1, <4>1 DEF VisitRing, Written
    <3>2. CASE frame[t].stage # "message"
      BY <1>2, <3>2 DEF VisitRing, Written
    <3> QED BY <3>1, <3>2
  <2> QED BY <2>1, RingPush DEF RingInv
<1>3. ASSUME NEW t \in Threads, NEW c \in Children, FlushOrFormat(t, c) PROVE RingInv'
  <2>1. CASE RingSetFormatter
    <3>1. UNCHANGED q_ /\ cached_tm_' = Zeroed /\ last_log_secs_' = 0
      BY <2>1 DEF RingSetFormatter
    <3>2. Good(<<cached_tm_', last_log_secs_'>>)
      BY <3>1 DEF Good
    <3> QED BY <3>1, <3>2 DEF RingInv, Showing
  <2>2. CASE UNCHANGED ringVars
    BY <1>1, <2>2
  <2> QED BY <1>3, <2>1, <2>2 DEF FlushOrFormat
<1>4. ASSUME NEW lim \in 0 .. RingSize, ReadFormatted(lim) PROVE RingInv'
  <2>1. lim \in Nat
    BY RingbufferAssumption, SizeModAssumption DEF SizeT
  <2>2. UNCHANGED q_ /\ Good(<<cached_tm_', last_log_secs_'>>)
    BY <1>4, <2>1, FormatsGood DEF RingInv, ReadFormatted
  <2> QED BY <2>2 DEF RingInv, Showing
<1>5. ASSUME NEW t \in Threads, NEW m \in Messages, Skip(t, m) \/ Pass(t, m)
      PROVE  UNCHANGED ringVars
  BY <1>5 DEF Skip, Pass
<1>6. ASSUME NEW t \in Threads, NEW c \in Children,
             PassBy(t, c) \/ AddSink(t, c) \/ RemoveSink(t, c)
      PROVE  UNCHANGED ringVars
  BY <1>6, ListFacts DEF PassBy, Change
<1>7. ASSUME NEW t \in Threads,
             \/ VisitTcp(t) \/ LogToTcp(t) \/ TcpConnects(t) \/ TcpConnectFails(t)
             \/ TcpSends(t) \/ TcpSendsNothing(t) \/ TcpSendFails(t)
             \/ AfterSkipped(t) \/ AfterMessage(t) \/ AfterOther(t)
             \/ Flush(t) \/ SetFormatter(t) \/ SetSinks(t, <<"ring", "tcp">>)
      PROVE  UNCHANGED ringVars
  BY <1>7 DEF VisitTcp, LogToTcp, TcpConnects, TcpConnectFails, TcpSends, TcpSendsNothing,
              TcpSendFails, AfterSkipped, AfterMessage, AfterOther, EndOfLoop, Flush,
              SetFormatter, SetSinks, Change
<1>8. ASSUME Stopped \/ UNCHANGED vars PROVE UNCHANGED ringVars
  BY <1>8 DEF Stopped, vars
<1> QED BY <1>1, <1>2, <1>3, <1>4, <1>5, <1>6, <1>7, <1>8 DEF Next

(* A new ring is empty, and so is the cache. *)
LEMMA InitRing == Init => RingInv
<1> SUFFICES ASSUME Init PROVE RingInv
  OBVIOUS
<1>1. q_ = New(RingSize) /\ cached_tm_ = Zeroed /\ last_log_secs_ = 0
  BY DEF Init, RingInit
<1>2. RingOK(q_) /\ q_.head_ = q_.tail_
  BY <1>1, NewOK, RingbufferAssumption
<1>3. Size(q_) = 0
  BY <1>2, SizeFacts DEF Empty
<1>4. Good(<<cached_tm_, last_log_secs_>>)
  BY <1>1 DEF Good
<1> QED BY <1>2, <1>3, <1>4 DEF RingInv, Showing
-----------------------------------------------------------------------------
(* Steps outside the tcp_sink, and those that leave it with nothing sent,  *)
(* have nothing to do with its connections.                                *)
Apart ==
    /\ UNCHANGED tcpVars
    /\ \A u \in Threads :
          \/ frame'[u].at = frame[u].at /\ frame'[u].sent = frame[u].sent
          \/ frame[u].at # "send" /\ ~HoldsTcp(frame'[u])

(* Nothing changes for the connections then.                               *)
LEMMA ApartTcp == ASSUME TcpInv, Apart PROVE TcpInv'
<1>1. \A u \in Threads :
         /\ HoldsTcp(frame'[u]) => HoldsTcp(frame[u])
         /\ HoldsTcp(frame'[u]) => frame'[u].at = frame[u].at /\ frame'[u].sent = frame[u].sent
         /\ Sending(u)' <=> Sending(u)
  BY DEF Apart, HoldsTcp, Sending
<1>2. /\ UNCHANGED <<socket_, streams, sends, gaveUp>>
  BY DEF Apart, tcpVars
<1>3. TcpTypeOK' /\ StreamsAreFramed' /\ socket_' \in {0, Len(streams')}
  BY <1>2 DEF TcpInv, TcpTypeOK, StreamsAreFramed
<1> QED BY <1>1, <1>2, <1>3 DEF TcpInv, HoldsTcp, Sending

(* A step of one thread is apart if it neither enters the tcp_sink nor ends *)
(* or goes on with a message there.                                        *)
LEMMA MoveApart ==
    ASSUME Threading, NEW t \in Threads, NEW f \in Frames, Goto(t, f), UNCHANGED tcpVars,
           frame[t].at # "send", ~HoldsTcp(f)
    PROVE  Apart
  BY Moved DEF Apart

(* The types of the connections. *)
Part == [number : 1 .. sends, part : 1 .. Units]

(* A connection is a sequence of parts.                                    *)
LEMMA StreamFacts ==
    ASSUME TcpTypeOK
    PROVE  /\ streams \in Seq(Seq(Part)) /\ Len(streams) \in Nat
           /\ \A c \in 1 .. Len(streams) :
                 /\ streams[c] \in Seq(Part) /\ Len(streams[c]) \in Nat
                 /\ \A i \in 1 .. Len(streams[c]) :
                       /\ streams[c][i] \in Part
                       /\ streams[c][i].number \in Nat /\ streams[c][i].number <= sends
                       /\ streams[c][i].part \in Nat
           /\ sends \in Nat /\ Units \in Nat /\ socket_ \in Nat /\ Units > 0
<1>1. streams \in Seq(Seq(Part)) /\ Len(streams) \in Nat /\ sends \in Nat
  BY LenProperties DEF TcpTypeOK, Part
<1>2. ASSUME NEW c \in 1 .. Len(streams)
      PROVE  streams[c] \in Seq(Part) /\ Len(streams[c]) \in Nat
  BY <1>1, ElementOfSeq, LenProperties
<1>3. ASSUME NEW c \in 1 .. Len(streams), NEW i \in 1 .. Len(streams[c])
      PROVE  streams[c][i] \in Part
  BY <1>2, ElementOfSeq
<1>4. \A x \in Part : x.number \in Nat /\ x.number <= sends /\ x.part \in Nat
  BY <1>1, TcpAssumption DEF Part
<1>5. socket_ \in Nat /\ Units \in Nat /\ Units > 0
  BY <1>1, TcpAssumption DEF TcpTypeOK
<1> QED BY <1>1, <1>2, <1>3, <1>4, <1>5

(* Sequences of sequences over a larger set.                               *)
LEMMA SeqOfSeqs ==
    ASSUME NEW S, NEW T, S \subseteq T, NEW x \in Seq(Seq(S))
    PROVE  x \in Seq(Seq(T))
<1>1. ASSUME NEW y \in Seq(S) PROVE y \in Seq(T)
  BY <1>1
<1> QED BY <1>1

(* A thread begins to send: everything that is out is of earlier messages. *)
LEMMA BeginTcp ==
    ASSUME Threading, TcpInv, NEW t \in Threads, VisitTcp(t) \/ LogToTcp(t)
    PROVE  TcpInv'
<1>1. PICK f \in Frames :
              /\ Goto(t, f) /\ TcpFree
              /\ f.at = (IF IsConnected THEN "send" ELSE "connect") /\ f.sent = 0
  BY IntoTcpFacts
<1>2. frame'[t] = f /\ \A u \in Threads : u # t => frame'[u] = frame[u]
  BY <1>1, Moved
<1>3. UNCHANGED <<socket_, streams, gaveUp>> /\ sends' = sends + 1
  BY DEF VisitTcp, LogToTcp, BeginSend
<1>4. TcpTypeOK /\ StreamsAreFramed /\ socket_ \in {0, Len(streams)}
  BY DEF TcpInv
<1>5. /\ sends \in Nat
      /\ \A c \in 1 .. Len(streams) : \A i \in 1 .. Len(streams[c]) :
            streams[c][i].number \in Nat /\ streams[c][i].number <= sends
  BY <1>4, StreamFacts
<1>6. \A u \in Threads : ~HoldsTcp(frame[u]) /\ ~Sending(u) /\ ~Sending(u)'
  BY <1>1, <1>2 DEF TcpFree, HoldsTcp, Sending
<1>7. TcpTypeOK'
  <2>1. [number : 1 .. sends, part : 1 .. Units] \subseteq
            [number : 1 .. sends', part : 1 .. Units]
    BY <1>3, <1>5
  <2>2. streams \in Seq(Seq([number : 1 .. sends, part : 1 .. Units]))
    BY <1>4 DEF TcpTypeOK
  <2>3. streams \in Seq(Seq([number : 1 .. sends', part : 1 .. Units]))
    BY <2>1, <2>2, SeqOfSeqs, Zenon
  <2> QED BY <1>3, <1>4, <1>5, <2>3 DEF TcpTypeOK
<1>8. StreamsAreFramed'
  BY <1>3, <1>4 DEF StreamsAreFramed
<1>9. ASSUME NEW u \in Threads
      PROVE  /\ HoldsTcp(frame'[u]) => sends' > 0
             /\ frame'[u].at = "connect" => socket_' = 0
             /\ frame'[u].at = "send" => socket_' # 0
  <2>1. CASE u = t
    BY <1>1, <1>2, <1>3, <1>5, <2>1 DEF IsConnected
  <2>2. CASE u # t
    BY <1>2, <1>6, <2>2 DEF HoldsTcp
  <2> QED BY <2>1, <2>2
<1>10. \A c \in 1 .. Len(streams') : \A i \in 1 .. Len(streams'[c]) :
          streams'[c][i].number < sends'
  BY <1>3, <1>5
<1>11. /\ socket_ # 0 /\ socket_ \notin gaveUp /\ streams[socket_] # <<>>
       => streams[socket_][Len(streams[socket_])].part = Units
  BY <1>6 DEF TcpInv
<1> QED BY <1>3, <1>4, <1>6, <1>7, <1>8, <1>9, <1>10, <1>11 DEF TcpInv

(* A new connection carries nothing yet.                                   *)
LEMMA ConnectTcp ==
    ASSUME Threading, TcpInv, NEW t \in Threads, TcpConnects(t)
    PROVE  TcpInv'
<1> DEFINE g == [frame[t] EXCEPT !.at = "send"]
<1>1. /\ frame[t] \in Frames /\ frame[t].at = "connect" /\ frame[t].sent = 0
      /\ HoldsTcp(frame[t])
  BY FrameFacts DEF TcpConnects, Fits, HoldsTcp
<1>2. PICK f \in Frames : Goto(t, f) /\ f.at = "send" /\ f.sent = 0
  <2>1. g \in Frames /\ g.at = "send" /\ g.sent = 0
    BY <1>1 DEF Frames
  <2> QED BY <2>1 DEF TcpConnects
<1>3. frame'[t] = f /\ \A u \in Threads : u # t => frame'[u] = frame[u]
  BY <1>2, Moved
<1>4. \A u \in Threads : u # t => ~HoldsTcp(frame[u])
  BY <1>1 DEF Threading
<1>5. /\ TcpTypeOK /\ StreamsAreFramed /\ sends > 0
      /\ \A c \in 1 .. Len(streams) : \A i \in 1 .. Len(streams[c]) : streams[c][i].number < sends
  BY <1>1 DEF TcpInv
<1>6. PICK n \in Nat : n = Len(streams)
  BY <1>5, StreamFacts
<1>7. /\ streams' = Append(streams, <<>>) /\ socket_' = Len(streams') /\ n < MaxConnections
      /\ UNCHANGED <<sends, gaveUp>>
  BY <1>6 DEF TcpConnects, Connects
<1>8. /\ streams' \in Seq(Seq(Part)) /\ Len(streams') = n + 1
      /\ \A c \in 1 .. n : streams'[c] = streams[c]
      /\ streams'[n + 1] = <<>> /\ socket_' = n + 1
  <2>1. streams \in Seq(Seq(Part)) /\ <<>> \in Seq(Part)
    BY <1>5, StreamFacts
  <2> QED BY <1>6, <1>7, <2>1, AppendProperties
<1>9. TcpTypeOK'
  <2>1. gaveUp \subseteq 1 .. n + 1
    BY <1>5, <1>6 DEF TcpTypeOK
  <2>2. n + 1 <= MaxConnections
    BY <1>7, TcpAssumption
  <2> QED BY <1>5, <1>7, <1>8, <2>1, <2>2 DEF TcpTypeOK, Part
<1>10. ASSUME NEW c \in 1 .. Len(streams'), c \notin gaveUp'
       PROVE  /\ \A i \in 1 .. Len(streams'[c]) - 1 :
                    Follows(streams'[c][i], streams'[c][i + 1])
              /\ streams'[c] # <<>> =>
                  /\ streams'[c][1].part = 1
                  /\ \A d \in 1 .. c - 1 : \A i \in 1 .. Len(streams'[d]) :
                        streams'[d][i].number < streams'[c][1].number
  <2>1. CASE c = n + 1
    BY <1>8, <2>1
  <2>2. CASE c # n + 1
    <3>1. c \in 1 .. n /\ c \notin gaveUp /\ \A d \in 1 .. c - 1 : d \in 1 .. n
      BY <1>7, <1>8, <1>10, <2>2
    <3> QED BY <1>5, <1>6, <1>8, <3>1 DEF StreamsAreFramed
  <2> QED BY <2>1, <2>2
<1>11. StreamsAreFramed'
  BY <1>10 DEF StreamsAreFramed, Follows
<1>12. ASSUME NEW u \in Threads
       PROVE  /\ HoldsTcp(frame'[u]) => sends' > 0
              /\ frame'[u].at = "connect" => socket_' = 0
              /\ frame'[u].at = "send" => socket_' # 0
              /\ ~Sending(u)'
  <2>1. CASE u = t
    BY <1>2, <1>3, <1>5, <1>7, <1>8, <2>1 DEF Sending
  <2>2. CASE u # t
    BY <1>3, <1>4, <2>2 DEF HoldsTcp, Sending
  <2> QED BY <2>1, <2>2
<1>13. \A c \in 1 .. Len(streams') : \A i \in 1 .. Len(streams'[c]) :
          streams'[c][i].number < sends'
  <2> SUFFICES ASSUME NEW c \in 1 .. n + 1, NEW i \in 1 .. Len(streams'[c])
               PROVE  streams'[c][i].number < sends'
    BY <1>8
  <2>1. c \in 1 .. n
    BY <1>8
  <2> QED BY <1>5, <1>6, <1>7, <1>8, <2>1
<1> QED BY <1>8, <1>9, <1>11, <1>12, <1>13 DEF TcpInv

(* When the thread in the tcp_sink has left it, nobody is there.           *)
LEMMA NobodyInTcp ==
    ASSUME Threading, NEW t \in Threads, frame[t].at = "send", Leave(t) \/ TcpReturns(t)
    PROVE  \A u \in Threads : ~HoldsTcp(frame'[u]) /\ ~Sending(u)'
<1>1. HoldsTcp(frame[t])
  BY DEF HoldsTcp
<1>2. PICK f \in Frames : Goto(t, f) /\ ~HoldsTcp(f)
  <2>1. CASE Leave(t)
    BY <2>1, IdleFacts DEF Leave
  <2>2. CASE HoldsFilter(frame[t]) /\ frame[t].next <= Len(sinks_) /\ GoOn(t)
    BY <2>2, GoOnFacts
  <2> QED BY <2>1, <2>2, ReturnFacts
<1>3. \A u \in Threads : u # t => ~HoldsTcp(frame[u])
  BY <1>1 DEF Threading
<1>4. \A u \in Threads : ~HoldsTcp(frame'[u])
  BY <1>2, <1>3, Moved
<1> QED BY <1>4 DEF Sending, HoldsTcp

(* A connection that fails is given up; one on which a send returned 0 is  *)
(* kept, but no longer relied on.                                          *)
LEMMA StopTcp ==
    ASSUME Threading, TcpInv, NEW t \in Threads, TcpSendFails(t) \/ TcpSendsNothing(t)
    PROVE  TcpInv'
<1>1. frame[t].at = "send" /\ (Leave(t) \/ TcpReturns(t))
  BY DEF TcpSendFails, TcpSendsNothing
<1>2. \A u \in Threads : ~HoldsTcp(frame'[u]) /\ ~Sending(u)'
  BY <1>1, NobodyInTcp
<1>3. \A u \in Threads : frame'[u].at # "connect" /\ frame'[u].at # "send"
  BY <1>2 DEF HoldsTcp
<1>4. /\ UNCHANGED <<streams, sends>>
      /\ \/ socket_' = 0 /\ gaveUp' = gaveUp
         \/ socket_' = socket_ /\ gaveUp' = gaveUp \cup {socket_}
  BY DEF TcpSendFails, TcpSendsNothing, SendFails, SendNothing
<1>5. TcpTypeOK /\ StreamsAreFramed /\ socket_ \in {0, Len(streams)} /\ socket_ # 0
  BY <1>1 DEF TcpInv
<1>6. TcpTypeOK'
  <2>1. Len(streams) \in Nat /\ socket_ \in 1 .. Len(streams) /\ 0 \in 0 .. Len(streams)
    BY <1>5, StreamFacts DEF TcpTypeOK
  <2>2. socket_' \in 0 .. Len(streams) /\ gaveUp' \subseteq 1 .. Len(streams)
    BY <1>4, <1>5, <2>1 DEF TcpTypeOK
  <2> QED BY <1>4, <1>5, <2>2 DEF TcpTypeOK
<1>7. StreamsAreFramed'
  <2>1. gaveUp \subseteq gaveUp'
    BY <1>4
  <2> QED BY <1>4, <1>5, <2>1 DEF StreamsAreFramed
<1> QED BY <1>2, <1>3, <1>4, <1>5, <1>6, <1>7 DEF TcpInv

(* What a send puts at the end of the connection.                          *)
LEMMA SentFacts ==
    ASSUME TcpTypeOK, socket_ # 0, sends > 0, NEW sent \in 0 .. Units - 1,
           NEW parts \in 1 .. Units - sent, SendSome(sent, parts)
    PROVE  /\ streams' \in Seq(Seq(Part)) /\ Len(streams') = Len(streams)
           /\ \A c \in 1 .. Len(streams) : c # socket_ => streams'[c] = streams[c]
           /\ Len(streams'[socket_]) = Len(streams[socket_]) + parts
           /\ \A i \in 1 .. Len(streams[socket_]) : streams'[socket_][i] = streams[socket_][i]
           /\ \A j \in 1 .. parts :
                streams'[socket_][Len(streams[socket_]) + j] = [number |-> sends, part |-> sent + j]
           /\ UNCHANGED <<socket_, sends, gaveUp>>
<1>1. PICK s : s = streams[socket_]
  OBVIOUS
<1>2. PICK new : new = [i \in 1 .. parts |-> [number |-> sends, part |-> sent + i]]
  OBVIOUS
<1>3. /\ socket_ \in 1 .. Len(streams) /\ streams \in Seq(Seq(Part)) /\ s \in Seq(Part)
      /\ Len(s) \in Nat /\ sends \in Nat /\ Units \in Nat /\ Len(streams) \in Nat
  <2>1. socket_ \in 1 .. Len(streams)
    BY StreamFacts DEF TcpTypeOK
  <2> QED BY <1>1, <2>1, StreamFacts
<1>4. parts \in Nat /\ parts <= Units - sent /\ sent \in Nat
  BY <1>3
<1>5. new \in Seq(Part) /\ Len(new) = parts
  <2>1. ASSUME NEW i \in 1 .. parts PROVE [number |-> sends, part |-> sent + i] \in Part
    <3>1. sends \in 1 .. sends /\ sent + i \in 1 .. Units
      BY <1>3, <1>4
    <3> QED BY <3>1 DEF Part
  <2>2. new \in [1 .. parts -> Part]
    BY <1>2, <2>1
  <2> QED BY <1>4, <2>2, SeqDef
<1>6. /\ s \o new \in Seq(Part) /\ Len(s \o new) = Len(s) + parts
      /\ \A i \in 1 .. Len(s) : (s \o new)[i] = s[i]
      /\ \A j \in 1 .. parts : (s \o new)[Len(s) + j] = [number |-> sends, part |-> sent + j]
  <2>1. /\ s \o new \in Seq(Part) /\ Len(s \o new) = Len(s) + parts
        /\ \A i \in 1 .. Len(s) + parts :
              (s \o new)[i] = IF i <= Len(s) THEN s[i] ELSE new[i - Len(s)]
    BY <1>3, <1>5, ConcatProperties
  <2>2. ASSUME NEW i \in 1 .. Len(s) PROVE (s \o new)[i] = s[i]
    BY <1>3, <1>4, <2>1
  <2>3. ASSUME NEW j \in 1 .. parts
        PROVE  (s \o new)[Len(s) + j] = [number |-> sends, part |-> sent + j]
    <3>1. Len(s) + j \in 1 .. Len(s) + parts /\ ~(Len(s) + j <= Len(s)) /\ Len(s) + j - Len(s) = j
      BY <1>3, <1>4
    <3>2. (s \o new)[Len(s) + j] = new[j]
      BY <2>1, <3>1
    <3> QED BY <1>2, <3>2
  <2> QED BY <2>1, <2>2, <2>3
<1>7. PICK whole : whole = s \o new
  OBVIOUS
<1>8. streams' = [streams EXCEPT ![socket_] = whole] /\ UNCHANGED <<socket_, sends, gaveUp>>
  BY <1>1, <1>2, <1>7 DEF SendSome
<1>9. /\ streams' \in Seq(Seq(Part)) /\ Len(streams') = Len(streams)
      /\ \A c \in 1 .. Len(streams) :
            streams'[c] = IF c = socket_ THEN whole ELSE streams[c]
  BY <1>3, <1>6, <1>7, <1>8, ExceptSeq
<1>10. streams'[socket_] = whole
  BY <1>3, <1>9
<1> QED BY <1>1, <1>6, <1>7, <1>8, <1>9, <1>10

(* A send continues what is at the end of the connection, or follows on    *)
(* whole messages.                                                         *)
LEMMA SentIsFramed ==
    ASSUME Threading, TcpInv, NEW t \in Threads, frame[t].at = "send",
           NEW parts \in 1 .. Units - frame[t].sent, SendSome(frame[t].sent, parts)
    PROVE  /\ TcpTypeOK' /\ StreamsAreFramed'
           /\ streams'[socket_] # <<>> /\ Len(streams') = Len(streams)
           /\ streams'[socket_][Len(streams'[socket_])] =
                 [number |-> sends, part |-> frame[t].sent + parts]
           /\ UNCHANGED <<socket_, sends, gaveUp>>
<1>1. /\ frame[t].sent \in 0 .. Units - 1 /\ HoldsTcp(frame[t]) /\ Units \in Nat
      /\ parts \in Nat /\ parts > 0
  BY FrameFacts, TcpAssumption DEF HoldsTcp
<1>2. PICK sent \in 0 .. Units - 1 : sent = frame[t].sent
  BY <1>1
<1>3. TcpTypeOK /\ StreamsAreFramed /\ socket_ \in {0, Len(streams)} /\ socket_ # 0 /\ sends > 0
  BY <1>1 DEF TcpInv
<1>4. PICK s : s = streams[socket_]
  OBVIOUS
<1>5. PICK new : new = streams'[socket_]
  OBVIOUS
<1>6. /\ socket_ \in 1 .. Len(streams) /\ Len(streams) \in Nat /\ s \in Seq(Part) /\ Len(s) \in Nat
      /\ sends \in Nat /\ socket_ = Len(streams)
      /\ \A i \in 1 .. Len(s) : s[i].number \in Nat /\ s[i].number <= sends
  <2>1. socket_ \in 1 .. Len(streams)
    BY <1>3, StreamFacts DEF TcpTypeOK
  <2> QED BY <1>3, <1>4, <2>1, StreamFacts
<1>7. /\ streams' \in Seq(Seq(Part)) /\ Len(streams') = Len(streams)
      /\ \A c \in 1 .. Len(streams) : c # socket_ => streams'[c] = streams[c]
      /\ Len(new) = Len(s) + parts
      /\ \A i \in 1 .. Len(s) : new[i] = s[i]
      /\ \A j \in 1 .. parts : new[Len(s) + j] = [number |-> sends, part |-> sent + j]
      /\ UNCHANGED <<socket_, sends, gaveUp>>
  BY <1>2, <1>3, <1>4, <1>5, SentFacts
<1>8. new # <<>> /\ new[Len(new)] = [number |-> sends, part |-> sent + parts]
  <2>1. parts \in 1 .. parts /\ Len(new) > 0
    BY <1>1, <1>6, <1>7
  <2> QED BY <1>7, <2>1
<1>9. TcpTypeOK'
  <2>1. Part' = Part
    BY <1>7 DEF Part
  <2> QED BY <1>3, <1>7, <2>1 DEF TcpTypeOK, Part
<1>10. sent > 0 => s # <<>> /\ s[Len(s)] = [number |-> sends, part |-> sent]
  BY <1>2, <1>4 DEF TcpInv, Sending
<1>11. sent = 0 => \A c \in 1 .. Len(streams) : \A i \in 1 .. Len(streams[c]) :
                       streams[c][i].number < sends
  BY <1>1, <1>2 DEF TcpInv
<1>12. sent = 0 /\ socket_ \notin gaveUp /\ s # <<>> => s[Len(s)].part = Units
  <2> SUFFICES ASSUME sent = 0, socket_ \notin gaveUp, s # <<>> PROVE s[Len(s)].part = Units
    OBVIOUS
  <2>1. ASSUME NEW u \in Threads PROVE ~Sending(u)
    <3>1. CASE u = t
      BY <1>2, <3>1 DEF Sending
    <3>2. CASE u # t
      BY <1>1, <3>2 DEF Threading, Sending, HoldsTcp
    <3> QED BY <3>1, <3>2
  <2> QED BY <1>3, <1>4, <2>1 DEF TcpInv
<1>13. s # <<>> => Len(s) \in 1 .. Len(s)
  BY <1>6, EmptySeq
<1>14. ASSUME socket_ \notin gaveUp, NEW i \in 1 .. Len(new) - 1
       PROVE  Follows(new[i], new[i + 1])
  <2>1. i \in Nat /\ i >= 1 /\ i + 1 <= Len(s) + parts
    BY <1>6, <1>7
  <2>2. CASE i + 1 <= Len(s)
    <3>1. i \in 1 .. Len(s) /\ i + 1 \in 1 .. Len(s) /\ i \in 1 .. Len(s) - 1
      BY <1>6, <2>1, <2>2
    <3>2. Follows(s[i], s[i + 1])
      BY <1>3, <1>4, <1>6, <1>14, <3>1 DEF StreamsAreFramed
    <3> QED BY <1>7, <3>1, <3>2
  <2>3. CASE i = Len(s)
    <3>1. i \in 1 .. Len(s) /\ s # <<>> /\ 1 \in 1 .. parts
      BY <1>1, <2>1, <2>3
    <3>2. new[i] = s[Len(s)] /\ new[i + 1] = [number |-> sends, part |-> sent + 1]
      BY <1>7, <2>3, <3>1
    <3>3. CASE sent > 0
      BY <1>10, <3>2, <3>3 DEF Follows
    <3>4. CASE sent = 0
      <4>1. s[Len(s)].part = Units
        BY <1>12, <1>14, <3>1, <3>4
      <4>2. s[Len(s)].number < sends
        BY <1>4, <1>6, <1>11, <2>3, <3>1, <3>4
      <4> QED BY <3>2, <3>4, <4>1, <4>2 DEF Follows
    <3> QED BY <3>3, <3>4
  <2>4. CASE i > Len(s)
    <3>1. PICK j \in 1 .. parts : i = Len(s) + j /\ j + 1 \in 1 .. parts
      <4>1. i - Len(s) \in 1 .. parts /\ i = Len(s) + (i - Len(s))
            /\ (i - Len(s)) + 1 \in 1 .. parts
        BY <1>1, <1>6, <2>1, <2>4
      <4> QED BY <4>1
    <3>2. i + 1 = Len(s) + (j + 1)
      BY <1>6, <2>1, <3>1
    <3>3. /\ new[i] = [number |-> sends, part |-> sent + j]
          /\ new[i + 1] = [number |-> sends, part |-> sent + (j + 1)]
      BY <1>7, <3>1, <3>2
    <3> QED BY <3>3 DEF Follows
  <2> QED BY <1>6, <2>1, <2>2, <2>3, <2>4
<1>15. ASSUME socket_ \notin gaveUp
       PROVE  /\ new[1].part = 1
              /\ \A d \in 1 .. socket_ - 1 : \A i \in 1 .. Len(streams[d]) :
                    streams[d][i].number < new[1].number
  <2>1. CASE s # <<>>
    <3>1. 1 \in 1 .. Len(s)
      BY <1>6, <1>13, <2>1
    <3>2. new[1] = s[1]
      BY <1>7, <3>1
    <3> QED BY <1>3, <1>4, <1>6, <1>15, <2>1, <3>2 DEF StreamsAreFramed
  <2>2. CASE s = <<>>
    <3>1. sent = 0 /\ Len(s) = 0 /\ 1 \in 1 .. parts /\ Len(s) + 1 = 1
      BY <1>1, <1>10, <2>2
    <3>2. new[1] = [number |-> sends, part |-> sent + 1]
      BY <1>7, <3>1
    <3>3. \A d \in 1 .. socket_ - 1 : d \in 1 .. Len(streams)
      BY <1>6
    <3> QED BY <1>11, <3>1, <3>2, <3>3
  <2> QED BY <2>1, <2>2
<1>16. ASSUME NEW c \in 1 .. Len(streams'), c \notin gaveUp'
       PROVE  /\ \A i \in 1 .. Len(streams'[c]) - 1 :
                    Follows(streams'[c][i], streams'[c][i + 1])
              /\ streams'[c] # <<>> =>
                  /\ streams'[c][1].part = 1
                  /\ \A d \in 1 .. c - 1 : \A i \in 1 .. Len(streams'[d]) :
                        streams'[d][i].number < streams'[c][1].number
  <2>1. \A d \in 1 .. c - 1 : streams'[d] = streams[d]
    <3>1. \A d \in 1 .. c - 1 : d \in 1 .. Len(streams) /\ d # socket_
      BY <1>6, <1>7
    <3> QED BY <1>7, <3>1
  <2>2. CASE c = socket_
    BY <1>5, <1>7, <1>14, <1>15, <1>16, <2>1, <2>2
  <2>3. CASE c # socket_
    <3>1. streams'[c] = streams[c] /\ c \in 1 .. Len(streams) /\ c \notin gaveUp
      BY <1>7, <1>16, <2>3
    <3> QED BY <1>3, <2>1, <3>1 DEF StreamsAreFramed
  <2> QED BY <2>2, <2>3
<1>17. StreamsAreFramed'
  BY <1>16 DEF StreamsAreFramed, Follows
<1> QED BY <1>2, <1>5, <1>7, <1>8, <1>9, <1>17

(* A send of the tcp_sink keeps its connections framed. *)
LEMMA SendsTcp ==
    ASSUME Threading, TcpInv, NEW t \in Threads, TcpSends(t)
    PROVE  TcpInv'
<1>1. /\ frame[t].at = "send" /\ HoldsTcp(frame[t]) /\ frame[t].sent \in 0 .. Units - 1
      /\ Units \in Nat
  BY FrameFacts, TcpAssumption DEF TcpSends, HoldsTcp
<1>2. PICK parts \in 1 .. Units - frame[t].sent :
         /\ SendSome(frame[t].sent, parts)
         /\ \/ frame[t].sent + parts = Units /\ TcpReturns(t)
            \/ /\ frame[t].sent + parts # Units
               /\ Goto(t, [frame[t] EXCEPT !.sent = @ + parts])
  BY SendsFacts
<1>3. /\ TcpTypeOK' /\ StreamsAreFramed'
      /\ streams'[socket_] # <<>> /\ Len(streams') = Len(streams)
      /\ streams'[socket_][Len(streams'[socket_])] =
            [number |-> sends, part |-> frame[t].sent + parts]
      /\ UNCHANGED <<socket_, sends, gaveUp>>
  BY <1>1, <1>2, SentIsFramed
<1>4. socket_ \in {0, Len(streams)} /\ socket_ # 0 /\ sends > 0
  BY <1>1 DEF TcpInv
<1>5. CASE frame[t].sent + parts = Units /\ TcpReturns(t)
  <2>1. \A u \in Threads : ~HoldsTcp(frame'[u]) /\ ~Sending(u)'
    BY <1>1, <1>5, NobodyInTcp
  <2>2. \A u \in Threads : frame'[u].at # "connect" /\ frame'[u].at # "send"
    BY <2>1 DEF HoldsTcp
  <2>3. streams'[socket_][Len(streams'[socket_])].part = Units
    BY <1>3, <1>5
  <2> QED BY <1>3, <1>4, <2>1, <2>2, <2>3 DEF TcpInv
<1>6. CASE /\ frame[t].sent + parts # Units
           /\ Goto(t, [frame[t] EXCEPT !.sent = @ + parts])
  <2>1. PICK f \in Frames : Goto(t, f) /\ f.at = "send" /\ f.sent = frame[t].sent + parts
    BY <1>1, <1>6, PartFacts
  <2>2. frame'[t] = f /\ \A u \in Threads : u # t => frame'[u] = frame[u]
    BY <2>1, Moved
  <2>3. f.sent > 0
    BY <1>1, <2>1
  <2>4. \A u \in Threads : u # t => ~HoldsTcp(frame[u])
    BY <1>1 DEF Threading
  <2>5. Sending(t)'
    BY <2>1, <2>2, <2>3 DEF Sending
  <2>6. ASSUME NEW u \in Threads
        PROVE  /\ HoldsTcp(frame'[u]) => sends' > 0
               /\ frame'[u].at = "connect" => socket_' = 0
               /\ frame'[u].at = "send" => socket_' # 0
               /\ HoldsTcp(frame'[u]) => frame'[u].sent # 0
               /\ Sending(u)' =>
                    /\ streams'[socket_'] # <<>>
                    /\ streams'[socket_'][Len(streams'[socket_'])] =
                          [number |-> sends', part |-> frame'[u].sent]
    <3>1. CASE u = t
      BY <1>3, <1>4, <2>1, <2>2, <2>3, <3>1
    <3>2. CASE u # t
      BY <2>2, <2>4, <3>2 DEF HoldsTcp, Sending
    <3> QED BY <3>1, <3>2
  <2> QED BY <1>3, <1>4, <2>5, <2>6 DEF TcpInv
<1> QED BY <1>2, <1>5, <1>6

(* Every step keeps the connections framed. *)
LEMMA NextTcp == Threading /\ TcpInv /\ [Next]_vars => TcpInv'
<1> SUFFICES ASSUME Threading, TcpInv, [Next]_vars PROVE TcpInv'
  OBVIOUS
<1>1. ASSUME UNCHANGED <<tcpVars, frame>> PROVE TcpInv'
  BY <1>1, ApartTcp DEF Apart
<1>2. ASSUME NEW t \in Threads, NEW m \in Messages, Skip(t, m) \/ Pass(t, m) PROVE TcpInv'
  <2>1. CASE Skip(t, m)
    BY <1>1, <2>1 DEF Skip
  <2>2. CASE Pass(t, m)
    <3>1. PICK stage \in {"skipped", "message"} : Enter(t, stage, m)
      BY <2>2 DEF Pass
    <3>2. PICK f \in Frames : Goto(t, f) /\ ~HoldsTcp(f) /\ frame[t] = Idle
      BY <3>1, EnterFacts
    <3> QED BY <2>2, <3>2, IdleFacts, MoveApart, ApartTcp DEF Pass
  <2> QED BY <1>2, <2>1, <2>2
<1>3. ASSUME NEW t \in Threads, HoldsFilter(frame[t]), ~HoldsTcp(frame[t]),
             frame[t].next <= Len(sinks_), GoOn(t), UNCHANGED tcpVars
      PROVE  TcpInv'
  <2>1. PICK f \in Frames : Goto(t, f) /\ ~HoldsTcp(f)
    BY <1>3, GoOnFacts
  <2>2. frame[t].at # "send"
    BY <1>3 DEF HoldsTcp
  <2> QED BY <1>3, <2>1, <2>2, MoveApart, ApartTcp
<1>4. ASSUME NEW t \in Threads, NEW c \in Children, PassBy(t, c) \/ FlushOrFormat(t, c)
      PROVE  TcpInv'
  BY <1>3, <1>4, VisitFacts DEF PassBy, FlushOrFormat
<1>5. ASSUME NEW t \in Threads, VisitRing(t) PROVE TcpInv'
  BY <1>3, <1>5, VisitFacts DEF VisitRing
<1>6. ASSUME NEW t \in Threads,
             \/ \E c \in Children : AddSink(t, c) \/ RemoveSink(t, c)
             \/ SetSinks(t, <<"ring", "tcp">>)
      PROVE  TcpInv'
  BY <1>1, <1>6, ListFacts DEF Change
<1>7. ASSUME NEW t \in Threads, frame[t].at # "send", Leave(t), UNCHANGED tcpVars
      PROVE  TcpInv'
  <2>1. Goto(t, Idle) /\ Idle \in Frames /\ ~HoldsTcp(Idle)
    BY <1>7, IdleFacts DEF Leave
  <2> QED BY <1>7, <2>1, MoveApart, ApartTcp
<1>8. ASSUME NEW t \in Threads, TcpConnectFails(t) \/ AfterMessage(t) \/ AfterOther(t)
      PROVE  TcpInv'
  <2>1. frame[t].at # "send" /\ Leave(t) /\ UNCHANGED tcpVars
    BY <1>8 DEF TcpConnectFails, ConnectFails, AfterMessage, AfterOther, EndOfLoop
  <2> QED BY <1>7, <2>1
<1>9. ASSUME NEW t \in Threads, AfterSkipped(t) PROVE TcpInv'
  <2>1. PICK f \in Frames : Goto(t, f) /\ ~HoldsTcp(f)
    BY <1>9, AfterSkippedFacts
  <2>2. frame[t].at # "send" /\ UNCHANGED tcpVars
    BY <1>9 DEF AfterSkipped, EndOfLoop
  <2> QED BY <2>1, <2>2, MoveApart, ApartTcp
<1>10. ASSUME NEW t \in Threads, Flush(t) \/ SetFormatter(t) PROVE TcpInv'
  <2>1. PICK stage \in {"flush", "formatter"} : Enter(t, stage, NoMessage)
    BY <1>10 DEF Flush, SetFormatter
  <2>2. PICK f \in Frames : Goto(t, f) /\ ~HoldsTcp(f) /\ frame[t] = Idle
    BY <2>1, EnterFacts
  <2>3. UNCHANGED tcpVars
    BY <1>10 DEF Flush, SetFormatter, Change
  <2> QED BY <2>2, <2>3, IdleFacts, MoveApart, ApartTcp
<1>11. ASSUME (\E lim \in 0 .. RingSize : ReadFormatted(lim)) \/ Stopped \/ UNCHANGED vars
       PROVE  TcpInv'
  BY <1>1, <1>11 DEF ReadFormatted, Stopped, vars
<1> QED
  BY <1>2, <1>4, <1>5, <1>6, <1>8, <1>9, <1>10, <1>11, BeginTcp, ConnectTcp, StopTcp, SendsTcp
     DEF Next

(* A sink that has connected has sent nothing yet. *)
LEMMA InitTcp == Init => TcpInv
<1> SUFFICES ASSUME Init PROVE TcpInv
  OBVIOUS
<1>1. /\ frame = [t \in Threads |-> Idle] /\ sends = 0 /\ gaveUp = {}
      /\ \/ socket_ = 0 /\ streams = <<>>
         \/ socket_ = 1 /\ streams = << <<>> >>
  BY DEF Init, TcpInit
<1>2. \A t \in Threads : /\ ~HoldsTcp(frame[t]) /\ ~Sending(t)
                         /\ frame[t].at # "connect" /\ frame[t].at # "send"
  BY <1>1, IdleFacts DEF Sending
<1>3. CASE socket_ = 0 /\ streams = <<>>
  <2>1. TcpTypeOK
    BY <1>1, <1>3, TcpAssumption DEF TcpTypeOK
  <2>2. StreamsAreFramed
    BY <1>3 DEF StreamsAreFramed
  <2> QED BY <1>2, <1>3, <2>1, <2>2 DEF TcpInv
<1>4. CASE socket_ = 1 /\ streams = << <<>> >>
  <2>1. Len(streams) = 1 /\ streams[1] = <<>>
    BY <1>4
  <2>2. TcpTypeOK
    BY <1>1, <1>4, TcpAssumption DEF TcpTypeOK
  <2>3. StreamsAreFramed
    BY <2>1 DEF StreamsAreFramed
  <2> QED BY <1>2, <1>4, <2>1, <2>2, <2>3 DEF TcpInv
<1> QED BY <1>1, <1>3, <1>4

-----------------------------------------------------------------------------
(* The children that a thread has got past in what it delivers: those that *)
(* it has told of the skipped messages, and all once it has told them.     *)
Past(f, i) == f.stage = "message" \/ (f.stage = "skipped" /\ i < f.next)

(* What a thread delivers was logged.                                      *)
Carries(f) == f.stage \in {"skipped", "message"} => f.msg \in Messages

(* What is known before a step, without the types of the frames.           *)
LEMMA FilterFacts ==
    ASSUME Threading, FilterInv
    PROVE  /\ \A c \in Children : missed[c] \in Nat /\ told[c] \in Nat
           /\ Len(sinks_) \in Nat
           /\ \A i \in 1 .. Len(sinks_) : sinks_[i] \in Children
           /\ \A t \in Threads : Carries(frame[t])
           /\ \A t \in Threads : \A i \in 1 .. Len(sinks_) :
                 Listens(sinks_[i]) /\ Past(frame[t], i) => missed[sinks_[i]] <= told[sinks_[i]]
<1>1. sinks_ \in Seq(Children)
  BY DEF Threading
<1>2. Len(sinks_) \in Nat /\ \A i \in 1 .. Len(sinks_) : sinks_[i] \in Children
  BY <1>1, LenProperties, ElementOfSeq
<1>3. \A t \in Threads : Carries(frame[t])
  BY DEF FilterInv, Carries, Delivering
<1>4. ASSUME NEW t \in Threads, NEW i \in 1 .. Len(sinks_), Listens(sinks_[i]),
             Past(frame[t], i)
      PROVE  missed[sinks_[i]] <= told[sinks_[i]]
  BY <1>4 DEF FilterInv, Past, Told
<1>5. \A c \in Children : missed[c] \in Nat /\ told[c] \in Nat
  BY DEF FilterInv
<1> QED BY <1>2, <1>3, <1>4, <1>5

(* A step of one thread keeps the counts right if it lowers no count of    *)
(* what a child was told below what was kept from it, and the thread gets  *)
(* past no child that it has not told.                                     *)
LEMMA StepFilter ==
    ASSUME Threading, FilterInv, NEW t \in Threads, NEW f \in Frames, Goto(t, f),
           UNCHANGED <<filterVars, sinks_>>, Carries(f),
           missed' \in [Children -> Nat], told' \in [Children -> Nat],
           \A i \in 1 .. Len(sinks_) :
              Listens(sinks_[i]) => missed'[sinks_[i]] <= told'[sinks_[i]] + skip_counter_,
           \A c \in Children : missed[c] <= told[c] => missed'[c] <= told'[c],
           \A i \in 1 .. Len(sinks_) :
              Listens(sinks_[i]) /\ Past(f, i) => missed'[sinks_[i]] <= told'[sinks_[i]]
    PROVE  FilterInv'
<1>1. /\ frame'[t] = f
      /\ \A u \in Threads : u # t => frame'[u] = frame[u]
  BY Moved
<1>2. /\ UNCHANGED <<last_msg_time_, last_msg_payload_, skip_counter_, sinks_>>
  BY DEF filterVars
<1>3. \A u \in Threads : Carries(frame'[u])
  BY <1>1, FilterFacts
<1>4. ASSUME NEW u \in Threads, NEW i \in 1 .. Len(sinks_), Listens(sinks_[i]),
             Past(frame'[u], i)
      PROVE  missed'[sinks_[i]] <= told'[sinks_[i]]
  <2>1. CASE u = t
    BY <1>1, <1>4, <2>1
  <2>2. CASE u # t
    <3>1. frame'[u] = frame[u] /\ sinks_[i] \in Children
      BY <1>1, <2>2, FilterFacts
    <3>2. missed[sinks_[i]] <= told[sinks_[i]]
      BY <1>4, <3>1, FilterFacts
    <3> QED BY <3>1, <3>2
  <2> QED BY <2>1, <2>2
<1>5. \A u \in Threads : Delivering(u)' => frame'[u].msg \in Messages
  BY <1>3 DEF Carries, Delivering
<1>6. \A u \in Threads : \A i \in 1 .. Len(sinks_') :
         Listens(sinks_'[i])
         /\ (frame'[u].stage = "message"
             \/ (frame'[u].stage = "skipped" /\ i < frame'[u].next)) =>
             missed'[sinks_'[i]] <= told'[sinks_'[i]]
  BY <1>2, <1>4 DEF Past
<1> QED BY <1>2, <1>5, <1>6 DEF FilterInv, Told, Listens

(* So if it tells nobody anything, and gets past no child that listens.    *)
LEMMA QuietFilter ==
    ASSUME Threading, FilterInv, NEW t \in Threads, NEW f \in Frames, Goto(t, f),
           UNCHANGED <<filterVars, sinks_, history>>, Carries(f),
           \A i \in 1 .. Len(sinks_) :
              Listens(sinks_[i]) /\ Past(f, i) => missed[sinks_[i]] <= told[sinks_[i]]
    PROVE  FilterInv'
<1>1. missed' = missed /\ told' = told
  BY DEF history
<1>2. missed \in [Children -> Nat] /\ told \in [Children -> Nat]
  BY DEF FilterInv
<1>3. \A i \in 1 .. Len(sinks_) :
         Listens(sinks_[i]) => missed[sinks_[i]] <= told[sinks_[i]] + skip_counter_
  BY DEF FilterInv
<1> QED BY <1>1, <1>2, <1>3, StepFilter

(* A thread that goes somewhere else without getting past a child, or ends *)
(* what it does.                                                           *)
LEMMA KeepsFilter ==
    ASSUME Threading, FilterInv, NEW t \in Threads, NEW f \in Frames, Goto(t, f),
           UNCHANGED <<filterVars, sinks_, history>>,
           \/ f.stage \notin {"skipped", "message"}
           \/ f.stage = frame[t].stage /\ f.msg = frame[t].msg /\ f.next = frame[t].next
    PROVE  FilterInv'
<1>1. \A i \in 1 .. Len(sinks_) : Past(f, i) => Past(frame[t], i)
  BY DEF Past
<1>2. Carries(f)
  BY FilterFacts DEF Carries
<1>3. \A i \in 1 .. Len(sinks_) :
         Listens(sinks_[i]) /\ Past(f, i) => missed[sinks_[i]] <= told[sinks_[i]]
  BY <1>1, FilterFacts
<1> QED BY <1>2, <1>3, QuietFilter

(* A child that has got what is delivered.                                 *)
LEMMA DeliveredFacts ==
    ASSUME Threading, FilterInv, NEW t \in Threads, NEW child \in Children, Delivering(t),
           Delivered(t, child)
    PROVE  /\ missed' \in [Children -> Nat] /\ told' \in [Children -> Nat]
           /\ \A c \in Children :
                 /\ missed[c] <= told[c] => missed'[c] <= told'[c]
                 /\ missed[c] <= told[c] + skip_counter_ =>
                       /\ missed'[c] <= told'[c] + skip_counter_
                       /\ c = child => missed'[c] <= told'[c]
<1>1. missed \in [Children -> Nat] /\ told \in [Children -> Nat] /\ skip_counter_ \in Nat
  BY DEF FilterInv
<1>2. CASE frame[t].stage = "skipped"
  <2>1. told' = [told EXCEPT ![child] = told[child] + skip_counter_] /\ missed' = missed
    BY <1>2 DEF Delivered
  <2>2. told' \in [Children -> Nat]
    BY <1>1, <2>1
  <2>3. ASSUME NEW c \in Children
        PROVE  told'[c] = IF c = child THEN told[c] + skip_counter_ ELSE told[c]
    BY <1>1, <2>1
  <2> QED BY <1>1, <2>1, <2>2, <2>3
<1>3. CASE frame[t].stage = "message"
  <2>1. told' = [told EXCEPT ![child] = 0] /\ missed' = [missed EXCEPT ![child] = 0]
    BY <1>3 DEF Delivered
  <2>2. told' \in [Children -> Nat] /\ missed' \in [Children -> Nat]
    BY <1>1, <2>1
  <2>3. ASSUME NEW c \in Children
        PROVE  /\ told'[c] = IF c = child THEN 0 ELSE told[c]
               /\ missed'[c] = IF c = child THEN 0 ELSE missed[c]
    BY <1>1, <2>1
  <2> QED BY <1>1, <2>2, <2>3
<1> QED BY <1>2, <1>3 DEF Delivering

(* On to the next child, when this one has got what is delivered.          *)
LEMMA DeliverFilter ==
    ASSUME Threading, FilterInv, NEW t \in Threads, NEW child \in Children, Delivering(t),
           HoldsFilter(frame[t]), frame[t].next \in 1 .. Len(sinks_),
           frame[t].next <= Len(sinks_), sinks_[frame[t].next] = child,
           Delivered(t, child), GoOn(t), UNCHANGED <<filterVars, sinks_>>
    PROVE  FilterInv'
<1>1. PICK f \in Frames :
              /\ Goto(t, f) /\ f.stage = frame[t].stage /\ f.msg = frame[t].msg
              /\ f.next = frame[t].next + 1
  BY GoOnFacts
<1>2. Carries(f)
  BY <1>1, FilterFacts DEF Carries
<1>3. \A i \in 1 .. Len(sinks_) :
         Listens(sinks_[i]) => /\ sinks_[i] \in Children
                               /\ missed[sinks_[i]] <= told[sinks_[i]] + skip_counter_
  BY FilterFacts DEF FilterInv
<1>4. ASSUME NEW i \in 1 .. Len(sinks_), Listens(sinks_[i]), Past(f, i)
      PROVE  missed'[sinks_[i]] <= told'[sinks_[i]]
  <2>1. Past(frame[t], i) \/ i = frame[t].next
    BY <1>1, <1>4, FilterFacts DEF Past
  <2>2. CASE Past(frame[t], i)
    BY <1>3, <1>4, <2>2, FilterFacts, DeliveredFacts
  <2>3. CASE i = frame[t].next
    BY <1>3, <1>4, <2>3, DeliveredFacts
  <2> QED BY <2>1, <2>2, <2>3
<1>5. /\ missed' \in [Children -> Nat] /\ told' \in [Children -> Nat]
      /\ \A c \in Children : missed[c] <= told[c] => missed'[c] <= told'[c]
  BY DeliveredFacts
<1>6. \A i \in 1 .. Len(sinks_) :
         Listens(sinks_[i]) => missed'[sinks_[i]] <= told'[sinks_[i]] + skip_counter_
  BY <1>3, DeliveredFacts
<1> QED BY <1>1, <1>2, <1>4, <1>5, <1>6, StepFilter


(* A duplicate: what the children that take it miss, the counter counts.   *)
LEMMA SkipFilter ==
    ASSUME Threading, FilterInv, NEW t \in Threads, NEW m \in Messages, Skip(t, m)
    PROVE  FilterInv'
<1>1. /\ FilterFree /\ skip_counter_' = skip_counter_ + 1
      /\ UNCHANGED <<last_msg_time_, last_msg_payload_, sinks_, frame, told>>
      /\ missed' = [c \in Children |->
                       IF ShouldLog(c, m.level) THEN missed[c] + 1 ELSE missed[c]]
  BY DEF Skip
<1>2. \A u \in Threads : frame[u].stage \notin {"skipped", "message"}
  BY <1>1 DEF FilterFree
<1>3. /\ skip_counter_ \in Nat /\ skip_counter_' \in Nat /\ last_msg_time_ \in Nat
      /\ last_msg_payload_ \in {n.payload : n \in Messages \cup {NoMessage}}
      /\ told \in [Children -> Nat]
  BY <1>1 DEF FilterInv
<1>4. missed' \in [Children -> Nat]
  BY <1>1, FilterFacts
<1>5. ASSUME NEW i \in 1 .. Len(sinks_), Listens(sinks_[i])
      PROVE  missed'[sinks_[i]] <= told[sinks_[i]] + skip_counter_'
  <2>1. PICK c \in Children : c = sinks_[i]
    BY FilterFacts
  <2>2. missed[c] <= told[c] + skip_counter_ /\ missed[c] \in Nat /\ told[c] \in Nat
    BY <1>5, <2>1, FilterFacts DEF FilterInv
  <2>3. missed'[c] = IF ShouldLog(c, m.level) THEN missed[c] + 1 ELSE missed[c]
    BY <1>1
  <2> QED BY <1>1, <1>3, <2>1, <2>2, <2>3
<1>6. \A u \in Threads : ~Delivering(u)'
  BY <1>1, <1>2 DEF Delivering
<1>7. \A u \in Threads : frame'[u].stage \notin {"skipped", "message"}
  BY <1>1, <1>2
<1> QED BY <1>1, <1>3, <1>4, <1>5, <1>6, <1>7 DEF FilterInv, Listens, Told

(* Any other message: without skipped ones no child that listens has       *)
(* missed more than it was told of.                                        *)
LEMMA PassFilter ==
    ASSUME Threading, FilterInv, NEW t \in Threads, NEW m \in Messages, Pass(t, m)
    PROVE  FilterInv'
<1>1. PICK stage : stage = IF skip_counter_ > 0 THEN "skipped" ELSE "message"
  OBVIOUS
<1>2. /\ Enter(t, stage, m) /\ stage \in {"skipped", "message"}
      /\ UNCHANGED <<filterVars, sinks_, history>>
  BY <1>1 DEF Pass
<1>3. PICK f \in Frames : Goto(t, f) /\ f.stage = stage /\ f.msg = m /\ f.next = 1
  BY <1>2, EnterFacts
<1>4. Carries(f)
  BY <1>3 DEF Carries
<1>5. ASSUME NEW i \in 1 .. Len(sinks_), Listens(sinks_[i]), Past(f, i)
      PROVE  missed[sinks_[i]] <= told[sinks_[i]]
  <2>1. stage = "message"
    BY <1>2, <1>3, <1>5, FilterFacts DEF Past
  <2>2. skip_counter_ = 0
    BY <1>1, <2>1 DEF FilterInv
  <2>3. missed[sinks_[i]] <= told[sinks_[i]] + skip_counter_ /\ sinks_[i] \in Children
    BY <1>5, FilterFacts DEF FilterInv
  <2> QED BY <2>2, <2>3, FilterFacts
<1> QED BY <1>2, <1>3, <1>4, <1>5, QuietFilter

(* The list of children changes: those that stay keep their counts.        *)
LEMMA ListFilter ==
    ASSUME Threading, FilterInv, NEW t \in Threads,
           \/ \E c \in Children : AddSink(t, c) \/ RemoveSink(t, c)
           \/ SetSinks(t, <<"ring", "tcp">>)
    PROVE  FilterInv'
<1> DEFINE Stay(c) == \E i \in 1 .. Len(sinks_) : sinks_[i] = c
<1>1. /\ FilterFree /\ UNCHANGED <<filterVars, frame>>
      /\ sinks_' \in Seq(Children)
      /\ missed' = [c \in Children |-> IF Stay(c) THEN missed[c] ELSE 0]
      /\ told' = [c \in Children |-> IF Stay(c) THEN told[c] ELSE 0]
  BY ListFacts DEF Change, SetSinks
<1>2. ASSUME NEW c \in Children
      PROVE  /\ missed'[c] = IF Stay(c) THEN missed[c] ELSE 0
             /\ told'[c] = IF Stay(c) THEN told[c] ELSE 0
  BY <1>1
<1>3. missed' \in [Children -> Nat] /\ told' \in [Children -> Nat]
  BY <1>1, FilterFacts
<1>4. ASSUME NEW c \in Children, Listens(c)
      PROVE  missed'[c] <= told'[c] + skip_counter_
  <2>1. CASE Stay(c)
    <3>1. missed[c] <= told[c] + skip_counter_
      BY <1>4, <2>1 DEF FilterInv
    <3> QED BY <1>2, <2>1, <3>1
  <2>2. CASE ~Stay(c)
    BY <1>2, <2>2 DEF FilterInv
  <2> QED BY <2>1, <2>2
<1> HIDE DEF Stay
<1>5. \A i \in 1 .. Len(sinks_') : sinks_'[i] \in Children
  BY <1>1, ElementOfSeq
<1>6. \A i \in 1 .. Len(sinks_') :
         Listens(sinks_'[i]) => missed'[sinks_'[i]] <= told'[sinks_'[i]] + skip_counter_
  BY <1>4, <1>5
<1>7. \A u \in Threads : frame'[u].stage \notin {"skipped", "message"}
  BY <1>1 DEF FilterFree
<1>8. UNCHANGED <<last_msg_time_, last_msg_payload_, skip_counter_>>
  BY <1>1 DEF filterVars
<1> QED BY <1>3, <1>6, <1>7, <1>8 DEF FilterInv, Listens, Told, Delivering

(* The children have all got the message; it is the last now, and the      *)
(* counter starts anew.                                                    *)
LEMMA AfterMessageFilter ==
    ASSUME Threading, FilterInv, NEW t \in Threads, AfterMessage(t)
    PROVE  FilterInv'
<1>1. /\ frame[t].stage = "message" /\ UNCHANGED <<sinks_, missed, told>>
      /\ last_msg_time_' = frame[t].msg.time /\ last_msg_payload_' = frame[t].msg.payload
      /\ skip_counter_' = 0 /\ Goto(t, Idle)
  BY DEF AfterMessage, EndOfLoop, Leave, history
<1>2. frame[t].msg \in Messages
  BY <1>1, FilterFacts DEF Carries
<1>3. frame[t].msg.time \in Nat
  BY <1>2, DupFilterAssumption
<1>4. /\ frame'[t] = Idle
      /\ \A u \in Threads : u # t => frame'[u] = frame[u]
  BY <1>1, Moved, IdleFacts
<1>5. \A u \in Threads : u # t => frame[u].stage \notin {"skipped", "message"}
  BY <1>1 DEF Threading, HoldsFilter
<1>6. \A u \in Threads : frame'[u].stage \notin {"skipped", "message"}
  BY <1>4, <1>5, IdleFacts
<1>7. ASSUME NEW i \in 1 .. Len(sinks_), Listens(sinks_[i])
      PROVE  missed[sinks_[i]] <= told[sinks_[i]] + 0
  <2>1. Past(frame[t], i)
    BY <1>1 DEF Past
  <2> QED BY <1>7, <2>1, FilterFacts
<1>8. missed \in [Children -> Nat] /\ told \in [Children -> Nat]
  BY DEF FilterInv
<1>9. frame[t].msg.payload \in {n.payload : n \in Messages \cup {NoMessage}}
  BY <1>2
<1> QED BY <1>1, <1>3, <1>6, <1>7, <1>8, <1>9 DEF FilterInv, Listens, Told, Delivering

(* Every step keeps the counts of what each child missed and was told of.  *)
LEMMA NextFilter == Threading /\ FilterInv /\ [Next]_vars => FilterInv'
<1> SUFFICES ASSUME Threading, FilterInv, [Next]_vars PROVE FilterInv'
  OBVIOUS
<1>1. ASSUME UNCHANGED <<filterVars, sinks_, frame, history>> PROVE FilterInv'
  BY <1>1 DEF FilterInv, filterVars, history, Told, Delivering
<1>2. ASSUME NEW t \in Threads, NEW c \in Children, PassBy(t, c) PROVE FilterInv'
  <2>1. /\ Visiting(t, c) /\ ~ShouldLog(c, LevelOf(t)) /\ GoOn(t)
        /\ UNCHANGED <<filterVars, sinks_, history>>
    BY <1>2 DEF PassBy
  <2>2. PICK f \in Frames :
              /\ Goto(t, f) /\ f.stage = frame[t].stage /\ f.msg = frame[t].msg
              /\ f.next = frame[t].next + 1
    BY <2>1, VisitFacts, GoOnFacts
  <2>3. Carries(f)
    BY <2>2, FilterFacts DEF Carries
  <2>4. ASSUME NEW i \in 1 .. Len(sinks_), Listens(sinks_[i]), Past(f, i)
        PROVE  missed[sinks_[i]] <= told[sinks_[i]]
    <3>1. Past(frame[t], i) \/ (frame[t].stage = "skipped" /\ i = frame[t].next)
      BY <2>1, <2>2, <2>4, VisitFacts DEF Past
    <3>2. ~(frame[t].stage = "skipped" /\ i = frame[t].next)
      <4> SUFFICES ASSUME frame[t].stage = "skipped", i = frame[t].next PROVE FALSE
        OBVIOUS
      <4>1. sinks_[i] = c
        BY <2>1, VisitFacts
      <4>2. LevelOf(t) = Info
        BY DEF LevelOf
      <4> QED BY <2>1, <2>4, <4>1, <4>2 DEF ShouldLog, Listens
    <3> QED BY <2>4, <3>1, <3>2, FilterFacts
  <2> QED BY <2>1, <2>2, <2>3, <2>4, QuietFilter
<1>3. ASSUME NEW t \in Threads, NEW c \in Children, FlushOrFormat(t, c) PROVE FilterInv'
  <2>1. /\ Visiting(t, c) /\ frame[t].stage \in {"flush", "formatter"} /\ GoOn(t)
        /\ UNCHANGED <<filterVars, sinks_, history>>
    BY <1>3 DEF FlushOrFormat
  <2>2. PICK f \in Frames : Goto(t, f) /\ f.stage = frame[t].stage
    BY <2>1, VisitFacts, GoOnFacts
  <2> QED BY <2>1, <2>2, KeepsFilter
<1>4. ASSUME NEW t \in Threads, VisitRing(t) PROVE FilterInv'
  <2>1. /\ Visiting(t, "ring") /\ Delivering(t) /\ Delivered(t, "ring") /\ GoOn(t)
        /\ UNCHANGED <<filterVars, sinks_>> /\ "ring" \in Children
    BY <1>4, DupFilterAssumption DEF VisitRing, Children
  <2> QED BY <2>1, VisitFacts, DeliverFilter
<1>5. ASSUME NEW t \in Threads, VisitTcp(t) \/ LogToTcp(t) PROVE FilterInv'
  <2>1. PICK f \in Frames :
              /\ Goto(t, f) /\ f.msg = frame[t].msg
              /\ \/ f.stage = frame[t].stage /\ f.next = frame[t].next
                 \/ f.stage = "direct"
    BY <1>5, IntoTcpFacts
  <2>2. UNCHANGED <<filterVars, sinks_, history>>
    BY <1>5 DEF VisitTcp, LogToTcp
  <2> QED BY <2>1, <2>2, KeepsFilter
<1>6. ASSUME NEW t \in Threads, TcpConnects(t) PROVE FilterInv'
  <2>1. PICK f : f = [frame[t] EXCEPT !.at = "send"]
    OBVIOUS
  <2>2. /\ f \in Frames /\ f.stage = frame[t].stage /\ f.msg = frame[t].msg
        /\ f.next = frame[t].next
    BY <2>1, FrameFacts DEF Frames
  <2>3. Goto(t, f) /\ UNCHANGED <<filterVars, sinks_, history>>
    BY <1>6, <2>1 DEF TcpConnects
  <2> QED BY <2>2, <2>3, KeepsFilter
<1>7. ASSUME NEW t \in Threads, Leave(t), UNCHANGED <<filterVars, sinks_, history>>
      PROVE  FilterInv'
  <2>1. Goto(t, Idle) /\ Idle \in Frames /\ Idle.stage \notin {"skipped", "message"}
    BY <1>7, IdleFacts DEF Leave
  <2> QED BY <1>7, <2>1, KeepsFilter
<1>8. ASSUME NEW t \in Threads, TcpConnectFails(t) \/ TcpSendFails(t) \/ AfterOther(t)
      PROVE  FilterInv'
  BY <1>7, <1>8 DEF TcpConnectFails, TcpSendFails, AfterOther, EndOfLoop
<1>9. ASSUME NEW t \in Threads, frame[t].at = "send", TcpReturns(t),
             UNCHANGED <<filterVars, sinks_>>
      PROVE  FilterInv'
  <2>1. "tcp" \in Children
    BY DupFilterAssumption DEF Children
  <2> QED BY <1>7, <1>9, <2>1, ReturnFacts, DeliverFilter
<1>10. ASSUME NEW t \in Threads, TcpSends(t) \/ TcpSendsNothing(t) PROVE FilterInv'
  <2>1. frame[t].at = "send" /\ UNCHANGED <<filterVars, sinks_>>
    BY <1>10 DEF TcpSends, TcpSendsNothing
  <2>2. CASE TcpReturns(t)
    BY <1>9, <2>1, <2>2
  <2>3. CASE ~TcpReturns(t)
    <3>1. PICK parts \in 1 .. Units - frame[t].sent :
              /\ frame[t].sent + parts # Units /\ UNCHANGED history
              /\ Goto(t, [frame[t] EXCEPT !.sent = @ + parts])
      BY <1>10, <2>3, SendsFacts DEF TcpSendsNothing
    <3>2. PICK f \in Frames :
              /\ Goto(t, f) /\ f.stage = frame[t].stage /\ f.msg = frame[t].msg
              /\ f.next = frame[t].next
      BY <2>1, <3>1, PartFacts
    <3> QED BY <2>1, <3>1, <3>2, KeepsFilter
  <2> QED BY <2>2, <2>3
<1>11. ASSUME NEW t \in Threads, AfterSkipped(t) PROVE FilterInv'
  <2>1. PICK f \in Frames :
              Goto(t, f) /\ f.stage = "message" /\ f.msg = frame[t].msg
    BY <1>11, AfterSkippedFacts
  <2>2. /\ frame[t].stage = "skipped" /\ frame[t].next > Len(sinks_)
        /\ UNCHANGED <<filterVars, sinks_, history>>
    BY <1>11 DEF AfterSkipped, EndOfLoop
  <2>3. Carries(f)
    BY <2>1, <2>2, FilterFacts DEF Carries
  <2>4. ASSUME NEW i \in 1 .. Len(sinks_) PROVE Past(frame[t], i)
    BY <2>2, FrameFacts DEF Past
  <2>5. \A i \in 1 .. Len(sinks_) :
           Listens(sinks_[i]) /\ Past(f, i) => missed[sinks_[i]] <= told[sinks_[i]]
    BY <2>4, FilterFacts
  <2> QED BY <2>1, <2>2, <2>3, <2>5, QuietFilter
<1>12. ASSUME NEW t \in Threads, Flush(t) \/ SetFormatter(t) PROVE FilterInv'
  <2>1. PICK stage \in {"flush", "formatter"} : Enter(t, stage, NoMessage)
    BY <1>12 DEF Flush, SetFormatter
  <2>2. PICK f \in Frames : Goto(t, f) /\ f.stage = stage
    BY <2>1, EnterFacts
  <2>3. UNCHANGED <<filterVars, sinks_, history>>
    BY <1>12 DEF Flush, SetFormatter, Change
  <2> QED BY <2>1, <2>2, <2>3, KeepsFilter
<1>13. ASSUME (\E lim \in 0 .. RingSize : ReadFormatted(lim)) \/ Stopped \/ UNCHANGED vars
       PROVE  FilterInv'
  BY <1>1, <1>13 DEF ReadFormatted, Stopped, vars
<1> QED
  BY <1>2, <1>3, <1>4, <1>5, <1>6, <1>8, <1>10, <1>11, <1>12, <1>13,
     SkipFilter, PassFilter, ListFilter, AfterMessageFilter DEF Next

(* No child has missed anything when the filter is made. *)
LEMMA InitFilter == Init => FilterInv
<1> SUFFICES ASSUME Init PROVE FilterInv
  OBVIOUS
<1>1. /\ frame = [t \in Threads |-> Idle] /\ missed = Zeros /\ told = Zeros
      /\ last_msg_time_ = 0 /\ last_msg_payload_ = "" /\ skip_counter_ = 0
  BY DEF Init
<1>2. missed \in [Children -> Nat] /\ told \in [Children -> Nat]
  BY <1>1 DEF Zeros
<1>3. NoMessage.payload = ""
  BY DEF NoMessage
<1>4. last_msg_payload_ \in {m.payload : m \in Messages \cup {NoMessage}}
  BY <1>1, <1>3
<1>5. \A t \in Threads : frame[t].stage \notin {"skipped", "message"}
  BY <1>1, IdleFacts
<1>6. \A i \in 1 .. Len(sinks_) : missed[sinks_[i]] <= told[sinks_[i]] + skip_counter_
  <2>1. Threading
    BY InitThreading
  <2>2. \A i \in 1 .. Len(sinks_) : sinks_[i] \in Children
    BY <2>1, FrameFacts, ElementOfSeq DEF Threading
  <2>3. \A c \in Children : missed[c] = 0 /\ told[c] = 0
    BY <1>1 DEF Zeros
  <2>4. ASSUME NEW i \in 1 .. Len(sinks_)
        PROVE  missed[sinks_[i]] <= told[sinks_[i]] + skip_counter_
    <3>1. missed[sinks_[i]] = 0 /\ told[sinks_[i]] = 0 /\ skip_counter_ = 0
      BY <1>1, <2>2, <2>3
    <3> QED BY <3>1
  <2> QED BY <2>4
<1> QED BY <1>1, <1>2, <1>4, <1>5, <1>6 DEF FilterInv, Delivering


-----------------------------------------------------------------------------
(* All four invariants hold when the sinks are made. *)
LEMMA InitIInv == Init => IInv
  BY InitThreading, InitRing, InitTcp, InitFilter DEF IInv

(* Every step keeps all four. *)
LEMMA NextIInv == IInv /\ [Next]_vars => IInv'
  BY NextThreading, NextRing, NextTcp, NextFilter DEF IInv

(* They hold in every state that is reached.                               *)
LEMMA Inductive == Spec => []IInv
  BY InitIInv, NextIInv, PTL DEF Spec

(* Where nobody has the mutex of the tcp_sink, or one thread has it, at    *)
(* most one has it.                                                        *)
LEMMA OneInTcp ==
    ASSUME Threading
    PROVE  Cardinality({t \in Threads : HoldsTcp(frame[t])}) <= 1
<1> DEFINE in == {t \in Threads : HoldsTcp(frame[t])}
<1>1. CASE in = {}
  BY <1>1, FS_EmptySet
<1>2. CASE in # {}
  <2>1. PICK t \in Threads : HoldsTcp(frame[t])
    BY <1>2
  <2>2. \A u \in Threads : HoldsTcp(frame[u]) => u = t
    BY <2>1 DEF Threading
  <2>3. in = {t}
    BY <2>1, <2>2
  <2>4. Cardinality({t}) = 1
    BY FS_Singleton
  <2> QED BY <2>3, <2>4
<1> QED BY <1>1, <1>2

(* The variables have their types, one thread at most is in the tcp_sink,  *)
(* and it sends only on a connection (base_sink-inl.h, tcp_client.h).      *)
THEOREM TypesHold == Spec => []TypeOK
<1>1. IInv => TypeOK
  <2> SUFFICES ASSUME IInv PROVE TypeOK
    OBVIOUS
  <2>1. TcpTypeOK /\ \A t \in Threads : frame[t].at = "send" => socket_ # 0
    BY DEF IInv, TcpInv
  <2>2. RingOK(q_) /\ last_log_secs_ \in Nat /\ cached_tm_ \in Nat \cup {Zeroed}
    BY DEF IInv, RingInv, Good
  <2>3. /\ last_msg_payload_ \in {m.payload : m \in Messages \cup {NoMessage}}
        /\ skip_counter_ \in Nat /\ last_msg_time_ \in Nat
        /\ {missed, told} \subseteq [Children -> Nat]
    BY DEF IInv, FilterInv
  <2>4. /\ sinks_ \in Seq(Children) /\ Len(sinks_) <= 2 /\ frame \in [Threads -> Frames]
    BY DEF IInv, Threading
  <2>5. Cardinality({t \in Threads : frame[t].at \in {"connect", "send"}}) <= 1
    BY OneInTcp DEF IInv, HoldsTcp
  <2>6. {skip_counter_, last_msg_time_, last_log_secs_} \subseteq Nat
    BY <2>2, <2>3
  <2> QED BY <2>1, <2>2, <2>3, <2>4, <2>5, <2>6 DEF TypeOK
<1> QED BY <1>1, Inductive, PTL

(* What is on a connection is whole messages in order, but for the last,   *)
(* whichever sends and connections fail (tcp_client.h:119-139).            *)
THEOREM StreamsFramed == Spec => []StreamsAreFramed
<1>1. IInv => StreamsAreFramed
  BY DEF IInv, TcpInv
<1> QED BY <1>1, Inductive, PTL

(* No message is skipped silently, also when a child throws between the    *)
(* announcement and the message (dup_filter_sink.h:54-80).                 *)
THEOREM SkipsTold == Spec => []SkipsAreTold
<1>1. IInv => SkipsAreTold
  <2> SUFFICES ASSUME IInv, NEW c \in Children, Listens(c),
                      NEW i \in 1 .. Len(sinks_), sinks_[i] = c
               PROVE  /\ missed[c] <= told[c] + skip_counter_
                      /\ Awaits(c) => missed[c] <= told[c]
    BY DEF SkipsAreTold, Listens
  <2>1. missed[c] <= told[c] + skip_counter_
    BY DEF IInv, FilterInv
  <2>2. ASSUME Awaits(c) PROVE missed[c] <= told[c]
    <3>1. PICK t \in Threads : frame[t].stage = "message"
      BY <2>2 DEF Awaits
    <3>2. Past(frame[t], i)
      BY <3>1 DEF Past
    <3> QED BY <3>2, FilterFacts DEF IInv
  <2> QED BY <2>1, <2>2
<1> QED BY <1>1, Inductive, PTL

(* last_formatted writes each message with its own time, in whatever order *)
(* they came (pattern_formatter-inl.h:1052-1057, ringbuffer_sink.h:42-56). *)
THEOREM OwnTimeFormatted == Spec => []FormatsOwnTime
<1>1. IInv => FormatsOwnTime
  <2> SUFFICES ASSUME IInv, NEW lim \in 0 .. RingSize, NEW i \in 1 .. Len(LastRaw(lim))
               PROVE  Caches(lim)[i][1] = Second(LastRaw(lim)[i])
    BY DEF FormatsOwnTime
  <2>1. lim \in Nat
    BY RingbufferAssumption, SizeModAssumption DEF SizeT
  <2>2. Caches(lim)[i] = <<Second(LastRaw(lim)[i]), Second(LastRaw(lim)[i])>>
    BY <2>1, CachesFacts DEF IInv, RingInv
  <2>3. PICK s : s = Second(LastRaw(lim)[i])
    OBVIOUS
  <2>4. PICK d : d = Caches(lim)[i]
    OBVIOUS
  <2>5. d = <<s, s>>
    BY <2>2, <2>3, <2>4
  <2>6. d[1] = s
    BY <2>5
  <2> QED BY <2>3, <2>4, <2>6
<1> QED BY <1>1, Inductive, PTL
=============================================================================
