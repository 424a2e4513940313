-------------------------- MODULE ThreadPoolProofs -------------------------
(***************************************************************************)
(* Theorems about the asynchronous pipeline, for any number of clients,    *)
(* workers, loggers and sinks, any mix of policies and any capacity.       *)
(***************************************************************************)
EXTENDS ThreadPool, SequenceTheorems, FiniteSetTheorems, TLAPS

Busy(w) == wpc[w] \in {"log", "flush"}

-----------------------------------------------------------------------------
(* What the calls on the queue do to it. *)
LEMMA EnqueueFacts ==
    ASSUME items \in Seq(Messages), QMaxItems \in Nat, NEW m \in Messages, Enqueue(m)
    PROVE  /\ items' \in Seq(Messages) /\ Len(items') = Len(items) + 1
           /\ Len(items') <= QMaxItems
           /\ \A i \in 1 .. Len(items) : items'[i] = items[i]
           /\ items'[Len(items')] = m
           /\ leftover' = NoItem /\ overruns' = overruns
<1>1. /\ items' = Append(items, m) /\ leftover' = NoItem /\ overruns' = overruns
      /\ Len(items) < QMaxItems
  BY DEF Enqueue, HasRoom, Put
<1>2. Len(items) \in Nat
  BY LenProperties
<1>3. items' \in Seq(Messages) /\ Len(items') = Len(items) + 1
      /\ (\A i \in 1 .. Len(items) : items'[i] = items[i])
      /\ items'[Len(items) + 1] = m
  BY <1>1, AppendProperties
<1> QED BY <1>1, <1>2, <1>3

(* An overrun gives up the oldest message, or the new one if the queue can *)
(* hold none.                                                              *)
LEMMA OverrunFacts ==
    ASSUME items \in Seq(Messages), NEW m \in Messages, Overrun(m)
    PROVE  /\ items' \in Seq(Messages) /\ Len(items') = Len(items)
           /\ overruns' = (overruns + 1) % SizeMod
           /\ leftover' \in Messages
           /\ Len(items) = 0 => leftover' = m
           /\ Len(items) > 0 =>
                  /\ leftover' = items[1] /\ items'[Len(items')] = m
                  /\ \A i \in 1 .. (Len(items) - 1) : items'[i] = items[i + 1]
<1> DEFINE a == Append(items, m)
<1>1. items' = Tail(a) /\ leftover' = Head(a) /\ overruns' = (overruns + 1) % SizeMod
  BY DEF Overrun
<1>2. Len(items) \in Nat
  BY LenProperties
<1>3. /\ a \in Seq(Messages) /\ Len(a) = Len(items) + 1
      /\ \A i \in 1 .. Len(items) : a[i] = items[i]
      /\ a[Len(items) + 1] = m
  BY AppendProperties
<1> HIDE DEF a
<1>4. a # <<>>
  BY <1>2, <1>3, EmptySeq
<1>5. /\ Head(a) = a[1] /\ Head(a) \in Messages
      /\ Tail(a) \in Seq(Messages) /\ Len(Tail(a)) = Len(a) - 1
      /\ \A i \in 1 .. Len(Tail(a)) : Tail(a)[i] = a[i + 1]
  BY <1>3, <1>4, HeadTailProperties
<1>6. Len(items') = Len(items)
  BY <1>1, <1>2, <1>3, <1>5
<1>7. CASE Len(items) = 0
  BY <1>1, <1>3, <1>5, <1>6, <1>7
<1>8. CASE Len(items) > 0
  <2>1. 1 \in 1 .. Len(items)
    BY <1>2, <1>8
  <2>2. leftover' = items[1]
    BY <1>1, <1>3, <1>5, <2>1
  <2>3. \A i \in 1 .. Len(items) : items'[i] = a[i + 1]
    BY <1>1, <1>5, <1>6
  <2>4. items'[Len(items')] = m
    BY <1>2, <1>3, <1>6, <1>8, <2>3
  <2>5. \A i \in 1 .. (Len(items) - 1) : items'[i] = items[i + 1]
    BY <1>2, <1>3, <2>3
  <2> QED BY <1>1, <1>5, <1>6, <1>8, <2>2, <2>4, <2>5
<1> QED BY <1>2, <1>7, <1>8

(* A dequeue removes the oldest message. *)
LEMMA DequeueFacts ==
    ASSUME items \in Seq(Messages), Dequeue
    PROVE  /\ items' \in Seq(Messages) /\ Len(items') = Len(items) - 1
           /\ Len(items) \in Nat \ {0}
           /\ Head(items) = items[1] /\ Head(items) \in Messages
           /\ \A i \in 1 .. Len(items') : items'[i] = items[i + 1]
           /\ UNCHANGED <<overruns, leftover>>
<1>1. items' = Tail(items) /\ items # <<>> /\ UNCHANGED <<overruns, leftover>>
  BY DEF Dequeue
<1>2. Len(items) \in Nat \ {0}
  BY <1>1, LenProperties, EmptySeq
<1> QED BY <1>1, <1>2, HeadTailProperties

(* The numbers. *)
LEMMA NumberFacts ==
    /\ SizeMod \in Nat /\ SizeMod > 1 /\ QMaxItems \in Nat
    /\ IsFiniteSet(Workers) /\ Cardinality(Workers) \in Nat \ {0}
<1>1. IsFiniteSet(Workers) /\ Cardinality(Workers) \in 1 .. 1000
  BY ThreadPoolAssumption, Zenon
<1> HIDE ThreadPoolAssumption
<1> QED BY <1>1, QMaxItemsAssumption

(* The remainder of a number below the divisor is the number ... *)
LEMMA SmallMod ==
    ASSUME NEW m \in Nat, NEW i \in 0 .. (m - 1)
    PROVE  i % m = i
  BY SMTT(20)

(* ... quotient and remainder ... *)
LEMMA Division ==
    ASSUME NEW m \in Nat, m > 0, NEW k \in Nat
    PROVE  k = m * (k \div m) + (k % m) /\ k % m \in 0 .. (m - 1) /\ k \div m \in Nat
  BY SMTT(20)

(* ... which are unique ... *)
LEMMA Remainder ==
    ASSUME NEW m \in Nat, m > 0, NEW q \in Nat, NEW s \in 0 .. (m - 1)
    PROVE  (m * q + s) % m = s
  BY SMTT(20)

(* ... so counting modulo m counts one at a time. *)
LEMMA NextMod ==
    ASSUME NEW m \in Nat, m > 1, NEW k \in Nat
    PROVE  ((k % m) + 1) % m = (k + 1) % m
<1> DEFINE q == k \div m
           r == k % m
<1>1. k = m * q + r /\ r \in 0 .. (m - 1) /\ q \in Nat
  BY Division
<1> HIDE DEF q, r
<1>2. CASE r + 1 < m
  <2>1. (m * q + (r + 1)) % m = r + 1
    BY <1>1, <1>2, Remainder
  <2>2. k + 1 = m * q + (r + 1)
    BY <1>1
  <2>3. (r + 1) % m = r + 1
    BY <1>1, <1>2, SmallMod
  <2> QED BY <2>1, <2>2, <2>3 DEF r
<1>3. CASE r + 1 = m
  <2>1. (m * (q + 1) + 0) % m = 0
    BY <1>1, <1>3, Remainder
  <2>2. k + 1 = m * (q + 1) + 0
    BY <1>1, <1>3, SMTT(20)
  <2>3. (r + 1) % m = 0
    BY <1>1, <1>3, SMTT(20)
  <2> QED BY <2>1, <2>2, <2>3 DEF r
<1> QED BY <1>1, <1>2, <1>3

(* The counter shows an overrun: SizeMod is at least two. *)
LEMMA CounterMoves ==
    ASSUME NEW n \in 0 .. (SizeMod - 1)
    PROVE  (n + 1) % SizeMod \in 0 .. (SizeMod - 1) /\ (n + 1) % SizeMod # n
<1>1. SizeMod \in Nat /\ SizeMod > 1
  BY NumberFacts
<1>2. CASE n + 1 < SizeMod
  BY <1>1, <1>2, SmallMod
<1>3. CASE n + 1 = SizeMod
  BY <1>1, <1>3, SMTT(20)
<1> QED BY <1>1, <1>2, <1>3

-----------------------------------------------------------------------------
(* Requests are messages, and stay so when they enter the queue. *)
LEMMA TicketedFacts ==
    ASSUME NEW m \in Requests({0}), accepted \in Nat
    PROVE  /\ Ticketed(m) \in Requests(Nat) /\ Ticketed(m).ticket = accepted + 1
           /\ Ticketed(m) # NoMessage
  BY DEF Requests, Ticketed, NoMessage

(* What distinguishes a request from a terminate message. *)
LEMMA RequestFacts ==
    /\ Requests(Nat) \subseteq Messages
    /\ \A m \in Messages : m \in Requests(Nat) <=> m.type # "terminate"
    /\ \A m \in Messages : m.ticket \in Nat
    /\ \A m \in Requests(Nat) : m.worker_ptr \in Loggers /\ m # NoMessage
    /\ \A m \in Requests(Nat) : m.type \in {"log", "flush"}
  BY DEF Requests, Messages, NoMessage

(* The message that the destructor posts. *)
Terminate == [type |-> "terminate", worker_ptr |-> NoLogger, level |-> 0,
              ticket |-> accepted + 1]

(* ... is a message of its own kind. *)
LEMMA TerminateFacts ==
    ASSUME accepted \in Nat
    PROVE  /\ Terminate \in Messages /\ Terminate.ticket = accepted + 1
           /\ Terminate.type = "terminate"
  BY DEF Terminate, Messages

(* What a post does: the message is appended, or the queue overruns. *)
LEMMA PostFacts ==
    ASSUME TypeOK, NEW c \in Clients, Post(c)
    PROVE  LET m == Ticketed(call[c])
           IN  /\ m \in Requests(Nat)
               /\ m.ticket = accepted + 1
               /\ \/ Enqueue(m) /\ dropped' = dropped
                  \/ /\ Overrun(m) /\ dropped' = dropped \cup {leftover'}
                     /\ Policy[m.worker_ptr] # "block"
                     /\ Len(items) = QMaxItems
<1> DEFINE m == Ticketed(call[c])
<1>1. call[c] \in Requests({0}) /\ accepted \in Nat
  BY DEF TypeOK, Post
<1>2. m \in Requests(Nat) /\ m.ticket = accepted + 1 /\ m \in Messages
  BY <1>1, TicketedFacts, RequestFacts
<1>3. /\ IF Policy[m.worker_ptr] = "block" THEN Enqueue(m) ELSE EnqueueNowait(m)
      /\ RecordDrop
  BY DEF Post
<1> HIDE DEF m
<1>4. CASE Enqueue(m)
  BY <1>2, <1>4, <1>3, EnqueueFacts, NumberFacts DEF TypeOK, RecordDrop, m
<1>5. CASE ~ Enqueue(m)
  <2>1. ~ HasRoom /\ Overrun(m) /\ Policy[m.worker_ptr] # "block"
    BY <1>3, <1>5 DEF EnqueueNowait, Enqueue
  <2>2. items \in Seq(Messages) /\ overruns \in 0 .. (SizeMod - 1) /\ Len(items) <= QMaxItems
    BY DEF TypeOK
  <2>3. overruns' = (overruns + 1) % SizeMod
    BY <1>2, <2>1, <2>2, OverrunFacts
  <2>4. overruns' # overruns
    BY <2>2, <2>3, CounterMoves
  <2>5. Len(items) = QMaxItems
    BY <2>1, <2>2, NumberFacts, LenProperties DEF HasRoom
  <2> QED BY <1>2, <1>3, <2>1, <2>4, <2>5 DEF RecordDrop, m
<1> QED BY <1>4, <1>5

-----------------------------------------------------------------------------
(* The types: those of the queue ... *)
QueueOK ==
    /\ items \in Seq(Messages) /\ Len(items) <= QMaxItems
    /\ overruns \in 0 .. (SizeMod - 1)
    /\ leftover \in Messages \cup {NoItem}
    /\ dropped \subseteq Messages

(* ... of the clients and of the pool ... *)
ClientsOK ==
    /\ owner \in BOOLEAN
    /\ pool \in {"alive", "stopping", "destroyed"}
    /\ destroyer \in Clients \cup {Owner, Nobody}
    /\ terminates \in 0 .. Cardinality(Workers)
    /\ pc \in [Clients -> {"idle", "post", "release", "destroy"}]
    /\ call \in [Clients -> Requests({0}) \cup {NoMessage}]
    /\ \A c \in Clients : pc[c] = "post" => call[c] # NoMessage
    /\ accepted \in Nat

(* ... and of the workers. *)
WorkersOK ==
    /\ wpc \in [Workers -> {"dequeue", "log", "flush", "exited"}]
    /\ msg \in [Workers -> Requests(Nat) \cup {NoMessage}]
    /\ \A w \in Workers : Busy(w) => msg[w] # NoMessage
    /\ nth \in [Workers -> Nat \ {0}]
    /\ done \subseteq Messages

(* TypeOK is these three. *)
LEMMA TypeParts == TypeOK <=> QueueOK /\ ClientsOK /\ WorkersOK
  BY DEF TypeOK, QueueOK, ClientsOK, WorkersOK, Busy

(* The constructor and the first states of the threads. *)
LEMMA InitType == Init => TypeOK
<1> SUFFICES ASSUME Init PROVE QueueOK /\ ClientsOK /\ WorkersOK
  BY TypeParts
<1> USE NumberFacts DEF Init, QueueInit
<1>1. QueueOK
  BY DEF QueueOK
<1>2. ClientsOK
  BY DEF ClientsOK
<1>3. WorkersOK
  BY DEF WorkersOK, Busy
<1> QED BY <1>1, <1>2, <1>3

(* The queue changes by a post, a terminate message, a dequeue and its      *)
(* destruction only.                                                       *)
LEMMA QueueChanges ==
    ASSUME TypeOK, [Next]_vars
    PROVE  \/ UNCHANGED <<items, overruns, dropped, accepted, leftover>>
           \/ \E c \in Clients : Post(c)
           \/ PostTerminate
           \/ Join
           \/ \E w \in Workers : TakeMessage(w)
<1> USE DEF queueVars
<1>1. ASSUME NEW c \in Clients, Calling(c) \/ ReleasePool(c)
      PROVE  UNCHANGED <<items, overruns, dropped, accepted, leftover>>
  BY <1>1 DEF Calling, Log, Flush, Call, ReleasePool
<1>2. CASE ReleaseOwner
  BY <1>2 DEF ReleaseOwner
<1>3. ASSUME NEW w \in Workers, SinkLog(w) \/ AfterSinks(w) \/ SinkFlush(w) \/ AfterFlush(w)
      PROVE  UNCHANGED <<items, overruns, dropped, accepted, leftover>>
  BY <1>3 DEF SinkLog, AfterSinks, SinkFlush, AfterFlush
<1>4. CASE UNCHANGED vars
  BY <1>4 DEF vars
<1> QED BY <1>1, <1>2, <1>3, <1>4 DEF Next, Working, Destroying, Stopped

(* The queue keeps its shape: an overrun changes the counter, never the length. *)
LEMMA QueueStep == TypeOK /\ [Next]_vars => QueueOK'
<1> SUFFICES ASSUME TypeOK, QueueOK, [Next]_vars PROVE QueueOK'
  BY TypeParts
<1> USE NumberFacts DEF QueueOK
<1>1. CASE UNCHANGED <<items, overruns, dropped, accepted, leftover>>
  BY <1>1
<1>2. ASSUME NEW c \in Clients, Post(c) PROVE QueueOK'
  <2> DEFINE m == Ticketed(call[c])
  <2>1. /\ m \in Messages
        /\ \/ Enqueue(m) /\ dropped' = dropped
           \/ Overrun(m) /\ dropped' = dropped \cup {leftover'}
    BY <1>2, PostFacts, RequestFacts
  <2> HIDE DEF m
  <2>2. CASE Enqueue(m) /\ dropped' = dropped
    BY <2>1, <2>2, EnqueueFacts
  <2>3. CASE Overrun(m) /\ dropped' = dropped \cup {leftover'}
    <3>1. /\ items' \in Seq(Messages) /\ Len(items') = Len(items)
          /\ overruns' = (overruns + 1) % SizeMod /\ leftover' \in Messages
      BY <2>1, <2>3, OverrunFacts
    <3>2. overruns' \in 0 .. (SizeMod - 1)
      BY <3>1, CounterMoves
    <3> QED BY <2>3, <3>1, <3>2
  <2> QED BY <2>1, <2>2, <2>3
<1>3. CASE PostTerminate
  <2>1. Enqueue(Terminate) /\ dropped' = dropped
    BY <1>3 DEF PostTerminate, Terminate
  <2>2. Terminate \in Messages
    BY TerminateFacts DEF TypeOK
  <2> QED BY <2>1, <2>2, EnqueueFacts
<1>4. CASE Join
  BY <1>4 DEF Join
<1>5. ASSUME NEW w \in Workers, TakeMessage(w) PROVE QueueOK'
  <2>1. Dequeue /\ dropped' = dropped
    BY <1>5 DEF TakeMessage
  <2> QED BY <2>1, DequeueFacts
<1> QED BY <1>1, <1>2, <1>3, <1>4, <1>5, QueueChanges

(* So do the clients and the pool ... *)
LEMMA ClientsStep == TypeOK /\ [Next]_vars => ClientsOK'
<1> SUFFICES ASSUME TypeOK, ClientsOK, [Next]_vars PROVE ClientsOK'
  BY TypeParts
<1> USE NumberFacts DEF ClientsOK, poolVars, clientVars
<1>1. ASSUME NEW c \in Clients, NEW l \in Loggers,
             Flush(c, l) \/ \E level \in Levels : Log(c, l, level)
      PROVE  ClientsOK'
  <2>1. PICK m \in Requests({0}) : m # NoMessage /\ Call(c, m)
    BY <1>1 DEF Log, Flush, Requests, NoMessage
  <2> QED BY <2>1 DEF Call
<1>2. ASSUME NEW c \in Clients, Post(c) PROVE ClientsOK'
  BY <1>2 DEF Post
<1>3. ASSUME NEW c \in Clients, ReleasePool(c) PROVE ClientsOK'
  BY <1>3 DEF ReleasePool
<1>4. CASE ReleaseOwner
  BY <1>4 DEF ReleaseOwner
<1>5. CASE PostTerminate
  BY <1>5 DEF PostTerminate
<1>6. CASE Join
  BY <1>6 DEF Join
<1>7. ASSUME NEW w \in Workers, Working(w) PROVE ClientsOK'
  BY <1>7 DEF Working, TakeMessage, SinkLog, AfterSinks, SinkFlush, AfterFlush
<1>8. CASE UNCHANGED vars
  BY <1>8 DEF vars
<1> QED BY <1>1, <1>2, <1>3, <1>4, <1>5, <1>6, <1>7, <1>8
       DEF Next, Calling, Destroying, Stopped

(* ... and the workers: what they hold is a request, never a terminate message. *)
LEMMA WorkersStep == TypeOK /\ [Next]_vars => WorkersOK'
<1> SUFFICES ASSUME TypeOK, WorkersOK, [Next]_vars PROVE WorkersOK'
  BY TypeParts
<1> USE DEF WorkersOK, Busy, workerVars, history
<1>1. ASSUME NEW c \in Clients, Calling(c) \/ Post(c) \/ ReleasePool(c) PROVE WorkersOK'
  BY <1>1 DEF Calling, Log, Flush, Call, Post, ReleasePool
<1>2. CASE ReleaseOwner \/ Destroying
  BY <1>2 DEF ReleaseOwner, Destroying, PostTerminate, Join
<1>3. ASSUME NEW w \in Workers, TakeMessage(w) PROVE WorkersOK'
  <2>1. Head(items) \in Messages
    BY <1>3, DequeueFacts DEF TypeOK, TakeMessage
  <2>2. CASE Head(items).type = "terminate"
    BY <1>3, <2>1, <2>2 DEF TakeMessage
  <2>3. CASE Head(items).type # "terminate"
    <3>1. Head(items) \in Requests(Nat) /\ Head(items) # NoMessage
      BY <2>1, <2>3, RequestFacts
    <3>2. /\ msg' = [msg EXCEPT ![w] = Head(items)] /\ nth' = [nth EXCEPT ![w] = 1]
          /\ done' = done
      BY <1>3, <2>3 DEF TakeMessage
    <3>3. PICK l \in {"log", "flush"} : wpc' = [wpc EXCEPT ![w] = l]
      BY <1>3, <2>3 DEF TakeMessage
    <3> QED BY <3>1, <3>2, <3>3
  <2> QED BY <2>2, <2>3
<1>4. ASSUME NEW w \in Workers, SinkLog(w) \/ SinkFlush(w) PROVE WorkersOK'
  <2>1. /\ UNCHANGED <<wpc, msg, done>>
        /\ nth' = [nth EXCEPT ![w] = @ + 1]
    BY <1>4 DEF SinkLog, SinkFlush
  <2> QED BY <2>1
<1>5. ASSUME NEW w \in Workers, AfterSinks(w) \/ AfterFlush(w) PROVE WorkersOK'
  <2>1. nth' = [nth EXCEPT ![w] = 1] /\ Busy(w)
    BY <1>5 DEF AfterSinks, AfterFlush
  <2>2. msg[w] \in Messages
    BY <2>1, RequestFacts
  <2>3. \/ wpc' = [wpc EXCEPT ![w] = "flush"] /\ UNCHANGED <<msg, done>>
        \/ /\ wpc' = [wpc EXCEPT ![w] = "dequeue"]
           /\ msg' = [msg EXCEPT ![w] = NoMessage]
           /\ done' = done \cup {msg[w]}
    BY <1>5 DEF AfterSinks, AfterFlush
  <2> QED BY <2>1, <2>2, <2>3
<1>6. CASE UNCHANGED vars
  BY <1>6 DEF vars
<1> QED BY <1>1, <1>2, <1>3, <1>4, <1>5, <1>6 DEF Next, Working, Stopped

(* TypeOK is inductive ... *)
LEMMA TypeStep == TypeOK /\ [Next]_vars => TypeOK'
<1> SUFFICES ASSUME TypeOK, [Next]_vars PROVE QueueOK' /\ ClientsOK' /\ WorkersOK'
  BY DEF TypeOK, QueueOK, ClientsOK, WorkersOK, Busy
<1> QED BY QueueStep, ClientsStep, WorkersStep

(* ... so every variable keeps its type, and the queue its capacity:       *)
(* a terminate message never reaches the sinks (thread_pool-inl.h:97-122). *)
THEOREM TypeCorrect == Spec => []TypeOK
  BY InitType, TypeStep, PTL DEF Spec

-----------------------------------------------------------------------------
(* While the destructor runs no client is inside a call on the pool: what   *)
(* makes this inductive is that a client locks the weak_ptr only while the  *)
(* pool is alive, and that the last owner to let go starts the destructor  *)
(* (async_logger-inl.h:29-47).                                             *)
THEOREM DestructorIsAlone == Spec => []NobodyInsideDestructor
<1>1. Init => NobodyInsideDestructor
  BY DEF Init, NobodyInsideDestructor, Posting
<1>2. TypeOK /\ NobodyInsideDestructor /\ [Next]_vars => NobodyInsideDestructor'
  <2> SUFFICES ASSUME TypeOK, ClientsOK, NobodyInsideDestructor, [Next]_vars
               PROVE  NobodyInsideDestructor'
    BY TypeParts
  <2>0. Owner \notin Clients /\ Nobody \notin Clients /\ Nobody # Owner
    BY ThreadPoolAssumption, Zenon
  <2> HIDE ThreadPoolAssumption
  <2> USE <2>0 DEF NobodyInsideDestructor, ClientsOK, Posting, poolVars, clientVars
  <2>1. ASSUME NEW c \in Clients, Calling(c) PROVE NobodyInsideDestructor'
    BY <2>1 DEF Calling, Log, Flush, Call
  <2>2. ASSUME NEW c \in Clients, Post(c) PROVE NobodyInsideDestructor'
    BY <2>2 DEF Post
  <2>3. ASSUME NEW c \in Clients, ReleasePool(c) PROVE NobodyInsideDestructor'
    BY <2>3 DEF ReleasePool
  <2>4. CASE ReleaseOwner
    BY <2>4 DEF ReleaseOwner
  <2>5. CASE PostTerminate
    BY <2>5 DEF PostTerminate
  <2>6. CASE Join
    BY <2>6 DEF Join
  <2>7. ASSUME NEW w \in Workers, Working(w) PROVE NobodyInsideDestructor'
    BY <2>7 DEF Working, TakeMessage, SinkLog, AfterSinks, SinkFlush, AfterFlush
  <2>8. CASE UNCHANGED vars
    BY <2>8 DEF vars
  <2> QED BY <2>1, <2>2, <2>3, <2>4, <2>5, <2>6, <2>7, <2>8
         DEF Next, Destroying, Stopped
<1> QED BY <1>1, <1>2, TypeCorrect, PTL DEF Spec

(* When every logger blocks, nothing is dropped: a post drops a message    *)
(* only if its logger's policy is to overrun (mpmc_blocking_q.h:31-51).     *)
THEOREM BlockingLosesNothing == Spec => []BlockingDropsNothing
<1>1. Init => BlockingDropsNothing
  BY DEF Init, BlockingDropsNothing
<1>2. TypeOK /\ BlockingDropsNothing /\ [Next]_vars => BlockingDropsNothing'
  <2> SUFFICES ASSUME TypeOK, [Next]_vars, dropped = {},
                      \A l \in Loggers : Policy[l] = "block"
               PROVE  dropped' = {}
    BY DEF BlockingDropsNothing
  <2>1. ASSUME NEW c \in Clients, Post(c) PROVE dropped' = {}
    BY <2>1, PostFacts, RequestFacts
  <2> QED BY <2>1, QueueChanges DEF PostTerminate, Join, TakeMessage
<1> QED BY <1>1, <1>2, TypeCorrect, PTL DEF Spec

-----------------------------------------------------------------------------
(* The steps, as far as messages are concerned.  A worker finishes with its *)
(* message, or goes on to flush; the other steps move no message.          *)
Finish(w) ==
    /\ Busy(w)
    /\ wpc' = [wpc EXCEPT ![w] = "dequeue"]
    /\ msg' = [msg EXCEPT ![w] = NoMessage]
    /\ done' = done \cup {msg[w]}
    /\ UNCHANGED <<items, overruns, dropped, accepted, terminates>>

GoFlush(w) ==
    /\ wpc[w] = "log"
    /\ wpc' = [wpc EXCEPT ![w] = "flush"]
    /\ UNCHANGED <<items, overruns, dropped, accepted, terminates, msg, done>>

Quiet ==
    UNCHANGED <<items, overruns, dropped, accepted, terminates, wpc, msg, done>>

(* Every step is one of these, a post, a dequeue or the end of the queue. *)
LEMMA Steps ==
    ASSUME [Next]_vars
    PROVE  \/ Quiet
           \/ \E c \in Clients : Post(c)
           \/ PostTerminate
           \/ \E w \in Workers : TakeMessage(w)
           \/ \E w \in Workers : Finish(w) \/ GoFlush(w)
           \/ Join
<1> USE DEF queueVars, poolVars, workerVars, history
<1>1. ASSUME NEW c \in Clients, Calling(c) \/ ReleasePool(c) PROVE Quiet
  BY <1>1 DEF Calling, Log, Flush, Call, ReleasePool, Quiet
<1>2. CASE ReleaseOwner
  BY <1>2 DEF ReleaseOwner, Quiet
<1>3. ASSUME NEW w \in Workers, SinkLog(w) \/ SinkFlush(w) PROVE Quiet
  BY <1>3 DEF SinkLog, SinkFlush, Quiet
<1>4. ASSUME NEW w \in Workers, AfterSinks(w) PROVE Finish(w) \/ GoFlush(w)
  BY <1>4 DEF AfterSinks, Finish, GoFlush, Busy
<1>5. ASSUME NEW w \in Workers, AfterFlush(w) PROVE Finish(w)
  BY <1>5 DEF AfterFlush, Finish, Busy
<1>6. CASE UNCHANGED vars
  BY <1>6 DEF vars, Quiet
<1> QED BY <1>1, <1>2, <1>3, <1>4, <1>5, <1>6
       DEF Next, Working, Destroying, Stopped

(* The pool is alive no more once it has stopped, and only join destroys it. *)
LEMMA PoolMoves ==
    ASSUME [Next]_vars
    PROVE  /\ pool' = "alive" => pool = "alive"
           /\ pool' = "destroyed" => pool = "destroyed" \/ Join
           /\ \A c \in Clients : Post(c) => pool' = pool
           /\ PostTerminate => pool = "stopping" /\ pool' = "stopping"
           /\ Join => pool = "stopping" /\ pool' = "destroyed"
<1> USE DEF poolVars
<1>1. ASSUME NEW c \in Clients, Calling(c) \/ Post(c) PROVE pool' = pool
  BY <1>1 DEF Calling, Log, Flush, Call, Post
<1>2. ASSUME NEW c \in Clients, ReleasePool(c)
      PROVE  pool' = pool \/ pool' = "stopping"
  BY <1>2 DEF ReleasePool
<1>3. ReleaseOwner => pool' = pool \/ pool' = "stopping"
  BY DEF ReleaseOwner
<1>4. ASSUME NEW w \in Workers, Working(w) PROVE pool' = pool
  BY <1>4 DEF Working, TakeMessage, SinkLog, AfterSinks, SinkFlush, AfterFlush
<1>5. PostTerminate => pool = "stopping" /\ pool' = "stopping"
  BY DEF PostTerminate
<1>6. Join => pool = "stopping" /\ pool' = "destroyed"
  BY DEF Join
<1>7. UNCHANGED vars => pool' = pool
  BY DEF vars
<1> QED BY <1>1, <1>2, <1>3, <1>4, <1>5, <1>6, <1>7 DEF Next, Destroying, Stopped

-----------------------------------------------------------------------------
(* The queue is first-in first-out: tickets increase along it, and what has *)
(* left it has a lower ticket than what is in it.  A message is in the     *)
(* hands of one worker at most, and not finished with or dropped at the    *)
(* same time.                                                              *)
QueueOrder ==
    /\ \A i \in 1 .. Len(items) : items[i].ticket \in 1 .. accepted
    /\ \A i, j \in 1 .. Len(items) : i < j => items[i].ticket < items[j].ticket

LeftEarlier(m) ==
    m.ticket \in 1 .. accepted /\ \A i \in 1 .. Len(items) : m.ticket < items[i].ticket

(* ... and after the step. *)
StaysEarlier(m) ==
    m.ticket \in 1 .. accepted' /\ \A i \in 1 .. Len(items') : m.ticket < items'[i].ticket

Order ==
    /\ QueueOrder
    /\ \A m \in Settled : LeftEarlier(m)
    /\ \A w \in Workers : Busy(w) =>
           /\ LeftEarlier(msg[w])
           /\ \A m \in Settled : m.ticket # msg[w].ticket
           /\ \A v \in Workers : Busy(v) /\ v # w => msg[v].ticket # msg[w].ticket

(* A message with the next ticket joins the end of the queue ... *)
LEMMA PushOrder ==
    ASSUME QueueOrder, Len(items) \in Nat, accepted \in Nat, accepted' = accepted + 1,
           NEW m, m.ticket = accepted + 1,
           Len(items') = Len(items) + 1, items'[Len(items')] = m,
           \A i \in 1 .. Len(items) : items'[i] = items[i]
    PROVE  /\ QueueOrder'
           /\ \A x : x.ticket \in Nat /\ LeftEarlier(x) => StaysEarlier(x)
<1> DEFINE n == Len(items)
           k == Len(items')
<1>1. n \in Nat /\ k = n + 1
  OBVIOUS
<1>2. \A i \in 1 .. k : i \in 1 .. n \/ i = k
  BY <1>1
<1>3. k \notin 1 .. n
  BY <1>1
<1> HIDE DEF n, k
<1>4. /\ \A i \in 1 .. n : items[i].ticket \in 1 .. accepted
      /\ \A i, j \in 1 .. n : i < j => items[i].ticket < items[j].ticket
  BY DEF QueueOrder, n
<1>5. (\A i \in 1 .. n : items'[i] = items[i]) /\ items'[k] = m
  BY DEF n, k
<1>6. /\ \A i \in 1 .. k : items'[i].ticket \in 1 .. accepted'
      /\ \A i, j \in 1 .. k : i < j => items'[i].ticket < items'[j].ticket
  <2> SUFFICES ASSUME NEW i \in 1 .. k, NEW j \in 1 .. k
               PROVE  /\ items'[i].ticket \in 1 .. accepted'
                      /\ i < j => items'[i].ticket < items'[j].ticket
    OBVIOUS
  <2>1. items'[i].ticket \in 1 .. accepted'
    <3>1. CASE i \in 1 .. n
      BY <1>4, <1>5, <3>1
    <3>2. CASE i = k
      BY <1>5, <3>2
    <3> QED BY <1>2, <3>1, <3>2
  <2>2. ASSUME i < j PROVE items'[i].ticket < items'[j].ticket
    <3>1. i \in 1 .. n
      BY <1>1, <2>2
    <3>2. CASE j \in 1 .. n
      BY <1>4, <1>5, <2>2, <3>1, <3>2
    <3>3. CASE j = k
      BY <1>4, <1>5, <3>1, <3>3
    <3> QED BY <1>2, <3>2, <3>3
  <2> QED BY <2>1, <2>2
<1>7. ASSUME NEW x, x.ticket \in 1 .. accepted, \A i \in 1 .. n : x.ticket < items[i].ticket
      PROVE  x.ticket \in 1 .. accepted' /\ \A i \in 1 .. k : x.ticket < items'[i].ticket
  BY <1>1, <1>2, <1>5, <1>7
<1> QED BY <1>6, <1>7 DEF QueueOrder, LeftEarlier, StaysEarlier, n, k

(* ... the head leaves it ... *)
LEMMA TakeOrder ==
    ASSUME QueueOrder, Len(items) \in Nat \ {0}, accepted \in Nat, accepted' = accepted,
           Len(items') = Len(items) - 1,
           \A i \in 1 .. Len(items') : items'[i] = items[i + 1]
    PROVE  /\ QueueOrder'
           /\ \A x : x.ticket \in Nat /\ LeftEarlier(x) =>
                  StaysEarlier(x) /\ x.ticket # items[1].ticket
           /\ StaysEarlier(items[1])
<1> DEFINE n == Len(items)
           k == Len(items')
<1>1. n \in Nat /\ k = n - 1 /\ 1 \in 1 .. n
  OBVIOUS
<1>2. \A i \in 1 .. k : i + 1 \in 1 .. n /\ i + 1 > 1
  BY <1>1
<1> HIDE DEF n, k
<1>4. /\ \A i \in 1 .. n : items[i].ticket \in 1 .. accepted
      /\ \A i, j \in 1 .. n : i < j => items[i].ticket < items[j].ticket
  BY DEF QueueOrder, n
<1>5. \A i \in 1 .. k : items'[i] = items[i + 1]
  BY DEF k
<1>6. /\ \A i \in 1 .. k : items'[i].ticket \in 1 .. accepted'
      /\ \A i, j \in 1 .. k : i < j => items'[i].ticket < items'[j].ticket
  <2> SUFFICES ASSUME NEW i \in 1 .. k, NEW j \in 1 .. k
               PROVE  /\ items'[i].ticket \in 1 .. accepted'
                      /\ i < j => items'[i].ticket < items'[j].ticket
    OBVIOUS
  <2>1. i + 1 \in 1 .. n /\ j + 1 \in 1 .. n /\ (i < j => i + 1 < j + 1)
    BY <1>1
  <2> QED BY <1>4, <1>5, <2>1
<1>7. ASSUME NEW x, x.ticket \in 1 .. accepted, \A i \in 1 .. n : x.ticket < items[i].ticket
      PROVE  /\ x.ticket \in 1 .. accepted' /\ \A i \in 1 .. k : x.ticket < items'[i].ticket
             /\ x.ticket # items[1].ticket
  <2>1. x.ticket \in 1 .. accepted'
    BY <1>7
  <2>2. ASSUME NEW i \in 1 .. k PROVE x.ticket < items'[i].ticket
    <3>1. items'[i] = items[i + 1] /\ i + 1 \in 1 .. n
      BY <1>2, <1>5
    <3> QED BY <1>7, <3>1
  <2>3. x.ticket < items[1].ticket /\ x.ticket \in Nat /\ items[1].ticket \in Nat
    BY <1>1, <1>4, <1>7
  <2> QED BY <2>1, <2>2, <2>3
<1>8. /\ items[1].ticket \in 1 .. accepted'
      /\ \A i \in 1 .. k : items[1].ticket < items'[i].ticket
  <2>1. items[1].ticket \in 1 .. accepted
    BY <1>1, <1>4
  <2>2. ASSUME NEW i \in 1 .. k PROVE items[1].ticket < items'[i].ticket
    <3>1. items'[i] = items[i + 1] /\ i + 1 \in 1 .. n /\ 1 < i + 1
      BY <1>2, <1>5
    <3> QED BY <1>1, <1>4, <3>1
  <2> QED BY <2>1, <2>2
<1> QED BY <1>6, <1>7, <1>8 DEF QueueOrder, LeftEarlier, StaysEarlier, n, k

(* ... or both at once. *)
LEMMA OverrunOrder ==
    ASSUME QueueOrder, Len(items) \in Nat, accepted \in Nat, accepted' = accepted + 1,
           NEW m, m.ticket = accepted + 1,
           Len(items') = Len(items),
           Len(items) = 0 => leftover' = m,
           Len(items) > 0 =>
               /\ leftover' = items[1] /\ items'[Len(items')] = m
               /\ \A i \in 1 .. (Len(items) - 1) : items'[i] = items[i + 1]
    PROVE  /\ QueueOrder'
           /\ \A x : x.ticket \in Nat /\ LeftEarlier(x) =>
                  StaysEarlier(x) /\ x.ticket # leftover'.ticket
           /\ StaysEarlier(leftover')
<1> DEFINE n == Len(items)
<1>1. n \in Nat /\ Len(items') = n
  OBVIOUS
<1>2. \A i \in 1 .. n : i = n \/ (i \in 1 .. (n - 1) /\ i + 1 \in 1 .. n)
  BY <1>1
<1>3. (n = 0 /\ 1 .. n = {}) \/ (n > 0 /\ 1 \in 1 .. n)
  BY <1>1
<1> HIDE DEF n
<1>4. /\ \A i \in 1 .. n : items[i].ticket \in 1 .. accepted
      /\ \A i, j \in 1 .. n : i < j => items[i].ticket < items[j].ticket
  BY DEF QueueOrder, n
<1>5. /\ n = 0 => leftover' = m
      /\ n > 0 => /\ leftover' = items[1] /\ items'[n] = m
                  /\ \A i \in 1 .. (n - 1) : items'[i] = items[i + 1]
  BY <1>1 DEF n
<1>6. /\ \A i \in 1 .. n : items'[i].ticket \in 1 .. accepted'
      /\ \A i, j \in 1 .. n : i < j => items'[i].ticket < items'[j].ticket
  <2>1. CASE n = 0
    BY <1>1, <1>3, <2>1
  <2>2. ASSUME n > 0, NEW i \in 1 .. n, NEW j \in 1 .. n
        PROVE  /\ items'[i].ticket \in 1 .. accepted'
               /\ i < j => items'[i].ticket < items'[j].ticket
    <3>1. \/ items'[i] = m
          \/ i + 1 \in 1 .. n /\ items'[i] = items[i + 1]
      BY <1>2, <1>5, <2>2
    <3>2. items'[i].ticket \in 1 .. accepted'
      BY <1>1, <1>4, <3>1
    <3>3. ASSUME i < j PROVE items'[i].ticket < items'[j].ticket
      <4>1. i + 1 \in 1 .. n /\ items'[i] = items[i + 1]
        BY <1>1, <1>5, <2>2, <3>3
      <4>2. CASE j = n
        BY <1>4, <1>5, <2>2, <4>1, <4>2
      <4>3. CASE j + 1 \in 1 .. n /\ items'[j] = items[j + 1]
        <5>1. i + 1 < j + 1
          BY <1>1, <3>3
        <5> QED BY <1>4, <4>1, <4>3, <5>1
      <4> QED BY <1>2, <1>5, <2>2, <4>2, <4>3
    <3> QED BY <3>2, <3>3
  <2> QED BY <1>3, <2>1, <2>2
<1>7. ASSUME NEW x, x.ticket \in 1 .. accepted, \A i \in 1 .. n : x.ticket < items[i].ticket
      PROVE  /\ x.ticket \in 1 .. accepted' /\ \A i \in 1 .. n : x.ticket < items'[i].ticket
             /\ x.ticket # leftover'.ticket
  <2>1. CASE n = 0
    BY <1>1, <1>3, <1>5, <1>7, <2>1
  <2>2. CASE n > 0
    <3>1. x.ticket \in 1 .. accepted'
      BY <1>7
    <3>2. ASSUME NEW i \in 1 .. n PROVE x.ticket < items'[i].ticket
      <4>1. CASE i = n
        BY <1>5, <1>7, <2>2, <4>1
      <4>2. CASE i \in 1 .. (n - 1) /\ i + 1 \in 1 .. n
        <5>1. items'[i] = items[i + 1]
          BY <1>5, <2>2, <4>2
        <5> QED BY <1>7, <4>2, <5>1
      <4> QED BY <1>2, <4>1, <4>2
    <3>3. x.ticket < items[1].ticket /\ leftover' = items[1] /\ items[1].ticket \in 1 .. accepted
      BY <1>3, <1>4, <1>5, <1>7, <2>2
    <3> QED BY <3>1, <3>2, <3>3, <1>7
  <2> QED BY <1>3, <2>1, <2>2
<1>8. /\ leftover'.ticket \in 1 .. accepted'
      /\ \A i \in 1 .. n : leftover'.ticket < items'[i].ticket
  <2>1. CASE n = 0
    BY <1>1, <1>3, <1>5, <2>1
  <2>2. ASSUME n > 0, NEW i \in 1 .. n
        PROVE  items[1].ticket \in 1 .. accepted' /\ items[1].ticket < items'[i].ticket
    <3>1. items[1].ticket \in 1 .. accepted
      BY <1>3, <1>4, <2>2
    <3>2. CASE i = n
      BY <1>5, <2>2, <3>1, <3>2
    <3>3. CASE i \in 1 .. (n - 1) /\ i + 1 \in 1 .. n
      <4>1. 1 < i + 1
        BY <1>1
      <4> QED BY <1>3, <1>4, <1>5, <2>2, <3>1, <3>3, <4>1
    <3> QED BY <1>2, <3>1, <3>2, <3>3
  <2>3. CASE n > 0
    BY <1>3, <1>5, <2>2, <2>3
  <2> QED BY <1>3, <2>1, <2>3
<1> QED BY <1>1, <1>6, <1>7, <1>8 DEF QueueOrder, LeftEarlier, StaysEarlier, n

(* Every step keeps the order. *)
LEMMA OrderStep == TypeOK /\ Order /\ [Next]_vars => Order'
<1> SUFFICES ASSUME TypeOK, Order, [Next]_vars PROVE Order'
  OBVIOUS
<1>0. /\ items \in Seq(Messages) /\ Len(items) \in Nat /\ accepted \in Nat
      /\ wpc \in [Workers -> {"dequeue", "log", "flush", "exited"}]
      /\ msg \in [Workers -> Requests(Nat) \cup {NoMessage}]
      /\ \A i \in 1 .. Len(items) : items[i].ticket \in Nat
      /\ \A m \in Settled : m.ticket \in Nat
      /\ \A w \in Workers : Busy(w) => msg[w].ticket \in Nat
      /\ QueueOrder
  <2>1. \A i \in 1 .. Len(items) : items[i] \in Messages
    BY ElementOfSeq DEF TypeOK
  <2>2. \A w \in Workers : Busy(w) => msg[w] \in Messages
    BY RequestFacts DEF TypeOK, Busy
  <2> QED BY <2>1, <2>2, RequestFacts, LenProperties DEF TypeOK, Settled, Order
<1>1. ASSUME UNCHANGED <<wpc, msg>>, done' \cup dropped' = Settled,
             \A x : x.ticket \in Nat /\ LeftEarlier(x) => StaysEarlier(x), QueueOrder'
      PROVE  Order'
  <2>1. Settled' = Settled
    BY <1>1 DEF Settled
  <2>2. \A v \in Workers : Busy(v)' = Busy(v) /\ msg'[v] = msg[v]
    BY <1>1 DEF Busy
  <2>3. (\A x \in Settled : StaysEarlier(x)) /\ \A v \in Workers : Busy(v) => StaysEarlier(msg[v])
    BY <1>0, <1>1 DEF Order
  <2> QED BY <1>0, <1>1, <2>1, <2>2, <2>3 DEF Order, LeftEarlier, StaysEarlier
(* A message enters the queue, behind all others. *)
<1>2. ASSUME NEW m \in Messages, m.ticket = accepted + 1, Enqueue(m),
             accepted' = accepted + 1, UNCHANGED <<wpc, msg, done, dropped>>
      PROVE  Order'
  <2>1. /\ Len(items') = Len(items) + 1
        /\ \A i \in 1 .. Len(items) : items'[i] = items[i]
        /\ items'[Len(items')] = m
    BY <1>0, <1>2, EnqueueFacts, NumberFacts
  <2>2. /\ QueueOrder'
        /\ \A x : x.ticket \in Nat /\ LeftEarlier(x) => StaysEarlier(x)
    BY <1>0, <1>2, <2>1, PushOrder
  <2>3. done' \cup dropped' = Settled
    BY <1>2 DEF Settled
  <2> QED BY <1>1, <1>2, <2>2, <2>3
(* The queue overruns: the oldest of them joins the dropped. *)
<1>3. ASSUME NEW m \in Messages, m.ticket = accepted + 1, Overrun(m),
             accepted' = accepted + 1, dropped' = dropped \cup {leftover'},
             UNCHANGED <<wpc, msg, done>>
      PROVE  Order'
  <2>1. /\ Len(items') = Len(items)
        /\ Len(items) = 0 => leftover' = m
        /\ Len(items) > 0 =>
               /\ leftover' = items[1] /\ items'[Len(items')] = m
               /\ \A i \in 1 .. (Len(items) - 1) : items'[i] = items[i + 1]
    BY <1>0, <1>3, OverrunFacts
  <2>2. /\ QueueOrder'
        /\ \A x : x.ticket \in Nat /\ LeftEarlier(x) =>
               StaysEarlier(x) /\ x.ticket # leftover'.ticket
        /\ StaysEarlier(leftover')
    BY <1>0, <1>3, <2>1, OverrunOrder
  <2>3. Settled' = Settled \cup {leftover'}
    BY <1>3 DEF Settled
  <2>4. \A x \in Settled' : StaysEarlier(x)
    BY <1>0, <2>2, <2>3 DEF Order
  <2>5. \A v \in Workers : (Busy(v)' <=> Busy(v)) /\ msg'[v] = msg[v]
    BY <1>3 DEF Busy
  <2>6. \A v \in Workers : Busy(v) => StaysEarlier(msg[v]) /\ msg[v].ticket # leftover'.ticket
    BY <1>0, <2>2 DEF Order
  <2>7. ASSUME NEW v \in Workers, Busy(v)
        PROVE  /\ \A x \in Settled' : x.ticket # msg[v].ticket
               /\ \A u \in Workers : Busy(u) /\ u # v => msg[u].ticket # msg[v].ticket
    BY <2>3, <2>6, <2>7 DEF Order
  <2>8. ASSUME NEW v \in Workers, Busy(v)'
        PROVE  /\ StaysEarlier(msg'[v])
               /\ \A x \in Settled' : x.ticket # msg'[v].ticket
               /\ \A u \in Workers : Busy(u)' /\ u # v => msg'[u].ticket # msg'[v].ticket
    BY <2>5, <2>6, <2>7, <2>8
  <2> QED BY <2>2, <2>4, <2>8 DEF Order, LeftEarlier, StaysEarlier
<1>4. ASSUME NEW c \in Clients, Post(c) PROVE Order'
  BY <1>2, <1>3, <1>4, PostFacts, RequestFacts DEF Post, workerVars, history
<1>5. CASE PostTerminate
  BY <1>0, <1>2, <1>5, TerminateFacts DEF PostTerminate, Terminate, workerVars, history
<1>6. ASSUME NEW w \in Workers, TakeMessage(w) PROVE Order'
  <2>1. /\ Len(items') = Len(items) - 1
        /\ Len(items) \in Nat \ {0}
        /\ Head(items) = items[1] /\ Head(items) \in Messages
        /\ \A i \in 1 .. Len(items') : items'[i] = items[i + 1]
        /\ UNCHANGED <<accepted, dropped>>
    BY <1>0, <1>6, DequeueFacts DEF TakeMessage
  <2>2. /\ QueueOrder'
        /\ \A x : x.ticket \in Nat /\ LeftEarlier(x) =>
               StaysEarlier(x) /\ x.ticket # items[1].ticket
        /\ StaysEarlier(items[1])
    BY <1>0, <2>1, TakeOrder
  <2>3. /\ \A x \in Settled : StaysEarlier(x) /\ x.ticket # items[1].ticket
        /\ \A v \in Workers : Busy(v) => StaysEarlier(msg[v]) /\ msg[v].ticket # items[1].ticket
    BY <1>0, <2>2 DEF Order
  <2>4. CASE items[1].type = "terminate"
    <3>1. /\ wpc' = [wpc EXCEPT ![w] = "exited"] /\ done' = done \cup {items[1]}
          /\ msg' = msg
      BY <1>6, <2>1, <2>4 DEF TakeMessage
    <3>2. Settled' = Settled \cup {items[1]}
      BY <2>1, <3>1 DEF Settled
    <3>3. \A v \in Workers : Busy(v)' => Busy(v)
      BY <1>0, <3>1 DEF Busy
    <3>4. \A x \in Settled' : StaysEarlier(x)
      BY <2>2, <2>3, <3>2
    <3>5. \A v \in Workers : Busy(v) => StaysEarlier(msg[v]) /\ msg'[v] = msg[v]
      BY <2>3, <3>1
    <3> QED BY <2>2, <2>3, <3>1, <3>2, <3>3, <3>4, <3>5 DEF Order, LeftEarlier, StaysEarlier
  <2>5. CASE items[1].type # "terminate"
    <3>1. /\ msg' = [msg EXCEPT ![w] = items[1]] /\ done' = done /\ ~ Busy(w)
      BY <1>6, <2>1, <2>5 DEF TakeMessage, Busy
    <3>2. /\ \A v \in Workers : v # w => (Busy(v)' <=> Busy(v)) /\ msg'[v] = msg[v]
          /\ msg'[w] = items[1]
      BY <1>0, <1>6, <2>1, <2>5 DEF TakeMessage, Busy
    <3>3. Settled' = Settled
      BY <2>1, <3>1 DEF Settled
    <3>4. \A x \in Settled' : StaysEarlier(x)
      BY <2>3, <3>3
    <3>5. \A v \in Workers : Busy(v)' => StaysEarlier(msg'[v])
      BY <2>2, <2>3, <3>2
    <3>6. \A v \in Workers : Busy(v)' =>
              /\ \A m \in Settled' : m.ticket # msg'[v].ticket
              /\ \A u \in Workers : Busy(u)' /\ u # v => msg'[u].ticket # msg'[v].ticket
      BY <2>3, <3>2, <3>3 DEF Order
    <3> QED BY <2>2, <3>4, <3>5, <3>6 DEF Order, LeftEarlier, StaysEarlier
  <2> QED BY <2>4, <2>5
<1>7. ASSUME NEW w \in Workers, Finish(w) PROVE Order'
  <2>1. /\ \A v \in Workers : Busy(v)' => v # w /\ Busy(v) /\ msg'[v] = msg[v]
        /\ Settled' = Settled \cup {msg[w]} /\ Busy(w)
        /\ items' = items /\ accepted' = accepted
    BY <1>0, <1>7 DEF Finish, Busy, Settled
  <2> QED BY <1>0, <2>1 DEF Order, QueueOrder, LeftEarlier
<1>8. ASSUME NEW w \in Workers, GoFlush(w) PROVE Order'
  <2>1. /\ \A v \in Workers : Busy(v)' => Busy(v)
        /\ UNCHANGED <<items, accepted, msg, done, dropped>>
    BY <1>0, <1>8 DEF GoFlush, Busy
  <2> QED BY <1>0, <2>1 DEF Order, QueueOrder, LeftEarlier, Settled
<1>9. CASE Join
  <2>1. Len(items') = 0 /\ UNCHANGED <<accepted, wpc, msg, done, dropped>>
    BY <1>9, EmptySeq DEF Join, workerVars, history
  <2>2. 1 .. Len(items') = {}
    BY <2>1
  <2>3. QueueOrder' /\ \A x : x.ticket \in Nat /\ LeftEarlier(x) => StaysEarlier(x)
    BY <2>1, <2>2 DEF QueueOrder, LeftEarlier, StaysEarlier
  <2> QED BY <1>1, <2>1, <2>3 DEF Settled
<1>10. CASE Quiet
  BY <1>0, <1>1, <1>10 DEF Quiet, QueueOrder, LeftEarlier, StaysEarlier, Settled
<1> QED BY <1>4, <1>5, <1>6, <1>7, <1>8, <1>9, <1>10, Steps


-----------------------------------------------------------------------------
(* What the steps do to the messages that there are.                       *)
LEMMA QueuedStep ==
    ASSUME Len(items) \in Nat
    PROVE  /\ \A m : /\ Len(items') = Len(items) + 1
                     /\ \A i \in 1 .. Len(items) : items'[i] = items[i]
                     /\ items'[Len(items')] = m
                     => Queued' = Queued \cup {m}
           /\ /\ Len(items) # 0 /\ Len(items') = Len(items) - 1
              /\ \A i \in 1 .. Len(items') : items'[i] = items[i + 1]
              => Queued = Queued' \cup {items[1]}
           /\ \A m : /\ Len(items') = Len(items)
                     /\ Len(items) = 0 => leftover' = m
                     /\ Len(items) > 0 =>
                          /\ leftover' = items[1] /\ items'[Len(items')] = m
                          /\ \A i \in 1 .. (Len(items) - 1) : items'[i] = items[i + 1]
                     => Queued' \cup {leftover'} = Queued \cup {m}
<1> DEFINE n == Len(items)
           k == Len(items')
<1>0. Queued = {items[i] : i \in 1 .. n} /\ Queued' = {items'[i] : i \in 1 .. k} /\ n \in Nat
  BY DEF Queued
<1>1. ASSUME NEW m, k = n + 1, \A i \in 1 .. n : items'[i] = items[i], items'[k] = m
      PROVE  Queued' = Queued \cup {m}
  <2>1. \A i \in 1 .. k : i \in 1 .. n \/ i = k
    BY <1>0, <1>1
  <2>2. \A i \in 1 .. n : i \in 1 .. k
    BY <1>0, <1>1
  <2>3. k \in 1 .. k
    BY <1>0, <1>1
  <2> HIDE DEF n, k
  <2> QED BY <1>0, <1>1, <2>1, <2>2, <2>3
<1>2. ASSUME n # 0, k = n - 1, \A i \in 1 .. k : items'[i] = items[i + 1]
      PROVE  Queued = Queued' \cup {items[1]}
  <2>1. \A i \in 1 .. k : i + 1 \in 1 .. n
    BY <1>0, <1>2
  <2>2. \A i \in 1 .. n : i = 1 \/ (i - 1 \in 1 .. k /\ (i - 1) + 1 = i)
    BY <1>0, <1>2
  <2>3. 1 \in 1 .. n
    BY <1>0, <1>2
  <2>4. ASSUME NEW i \in 1 .. n PROVE items[i] \in Queued' \cup {items[1]}
    <3>1. CASE i - 1 \in 1 .. k /\ (i - 1) + 1 = i
      <4>1. items'[i - 1] = items[i]
        BY <1>2, <3>1
      <4> QED BY <1>0, <3>1, <4>1
    <3> QED BY <2>2, <3>1
  <2> HIDE DEF n, k
  <2> QED BY <1>0, <1>2, <2>1, <2>3, <2>4
<1>3. ASSUME NEW m, k = n, n = 0 => leftover' = m,
             n > 0 => /\ leftover' = items[1] /\ items'[k] = m
                      /\ \A i \in 1 .. (n - 1) : items'[i] = items[i + 1]
      PROVE  Queued' \cup {leftover'} = Queued \cup {m}
  <2>1. CASE n = 0
    <3>1. 1 .. n = {}
      BY <2>1
    <3> HIDE DEF n, k
    <3> QED BY <1>0, <1>3, <2>1, <3>1
  <2>2. CASE n > 0
    <3>1. \A i \in 1 .. n : i = n \/ (i \in 1 .. (n - 1) /\ i + 1 \in 1 .. n)
      BY <1>0
    <3>2. \A i \in 1 .. n : i = 1 \/ (i - 1 \in 1 .. (n - 1) /\ i - 1 \in 1 .. n /\ (i - 1) + 1 = i)
      BY <1>0
    <3>3. 1 \in 1 .. n /\ n \in 1 .. n
      BY <1>0, <2>2
    <3>4. \A i \in 1 .. n : items'[i] \in Queued \cup {m}
      BY <1>0, <1>3, <2>2, <3>1
    <3>5. \A i \in 1 .. n : items[i] \in Queued' \cup {leftover'}
      BY <1>0, <1>3, <2>2, <3>2
    <3>6. leftover' \in Queued /\ m \in Queued'
      BY <1>0, <1>3, <2>2, <3>3
    <3>7. Queued' \subseteq Queued \cup {m} /\ Queued \subseteq Queued' \cup {leftover'}
      <4> HIDE DEF n, k
      <4> QED BY <1>0, <1>3, <3>4, <3>5
    <3> QED BY <3>6, <3>7
  <2>3. n = 0 \/ n > 0
    BY <1>0
  <2> HIDE DEF n, k
  <2> QED BY <2>1, <2>2, <2>3
<1> QED BY <1>1, <1>2, <1>3

(* A message that enters the queue is new, and nothing else appears or     *)
(* disappears: what leaves the queue is in hand, finished with or dropped. *)
LEMMA PostMoves ==
    ASSUME TypeOK, NEW c \in Clients, Post(c)
    PROVE  /\ Everything' = Everything \cup {Ticketed(call[c])}
           /\ Queued' \subseteq Queued \cup {Ticketed(call[c])}
           /\ UNCHANGED <<wpc, msg, done, terminates>> /\ accepted' = accepted + 1
<1> DEFINE m == Ticketed(call[c])
<1>1. /\ m \in Messages
      /\ \/ Enqueue(m) /\ dropped' = dropped
         \/ Overrun(m) /\ dropped' = dropped \cup {leftover'}
  BY PostFacts, RequestFacts
<1>2. UNCHANGED <<wpc, msg, done, terminates>> /\ accepted' = accepted + 1
  BY DEF Post, workerVars, history, poolVars
<1>3. InHand' = InHand
  BY <1>2 DEF InHand
<1>4. items \in Seq(Messages) /\ Len(items) \in Nat
  BY LenProperties DEF TypeOK
<1> HIDE DEF m
<1>5. CASE Enqueue(m) /\ dropped' = dropped
  <2>1. Queued' = Queued \cup {m}
    BY <1>1, <1>4, <1>5, EnqueueFacts, NumberFacts, QueuedStep
  <2> QED BY <1>2, <1>3, <1>5, <2>1 DEF Everything, Settled, m
<1>6. CASE Overrun(m) /\ dropped' = dropped \cup {leftover'}
  <2>1. Queued' \cup {leftover'} = Queued \cup {m}
    BY <1>1, <1>4, <1>6, OverrunFacts, QueuedStep
  <2> QED BY <1>2, <1>3, <1>6, <2>1 DEF Everything, Settled, m
<1> QED BY <1>1, <1>5, <1>6

(* The destructor posts a message that is new. *)
LEMMA PostTerminateMoves ==
    ASSUME TypeOK, PostTerminate
    PROVE  /\ Everything' = Everything \cup {Terminate}
           /\ Queued' = Queued \cup {Terminate}
           /\ UNCHANGED <<wpc, msg, done, dropped, overruns>>
           /\ accepted' = accepted + 1 /\ terminates' = terminates + 1
<1>1. Enqueue(Terminate) /\ Terminate \in Messages
  BY TerminateFacts DEF PostTerminate, Terminate, TypeOK
<1>2. /\ UNCHANGED <<wpc, msg, done, dropped>>
      /\ accepted' = accepted + 1 /\ terminates' = terminates + 1
  BY DEF PostTerminate, workerVars, history
<1>3. items \in Seq(Messages) /\ Len(items) \in Nat
  BY LenProperties DEF TypeOK
<1>4. Queued' = Queued \cup {Terminate} /\ overruns' = overruns
  BY <1>1, <1>3, EnqueueFacts, NumberFacts, QueuedStep
<1>5. InHand' = InHand
  BY <1>2 DEF InHand
<1> QED BY <1>2, <1>4, <1>5 DEF Everything, Settled

(* A worker takes the oldest message. *)
LEMMA TakeMoves ==
    ASSUME TypeOK, Order, NEW w \in Workers, TakeMessage(w)
    PROVE  /\ Everything' = Everything
           /\ Queued' = Queued \ {items[1]} /\ items[1] \in Queued
           /\ items[1] \in Messages
           /\ Len(items) \in Nat /\ Len(items') = Len(items) - 1
           /\ wpc[w] = "dequeue"
           /\ UNCHANGED <<accepted, dropped, terminates, overruns>>
           /\ items[1].type = "terminate" =>
                  /\ wpc' = [wpc EXCEPT ![w] = "exited"]
                  /\ done' = done \cup {items[1]} /\ msg' = msg
                  /\ items[1] \notin done
           /\ items[1].type # "terminate" =>
                  /\ \E l \in {"log", "flush"} : wpc' = [wpc EXCEPT ![w] = l]
                  /\ msg' = [msg EXCEPT ![w] = items[1]] /\ done' = done
<1>1. items \in Seq(Messages) /\ Dequeue
  BY DEF TypeOK, TakeMessage
<1>2. /\ Len(items) \in Nat \ {0} /\ Len(items') = Len(items) - 1
      /\ Head(items) = items[1] /\ items[1] \in Messages
      /\ \A i \in 1 .. Len(items') : items'[i] = items[i + 1]
      /\ overruns' = overruns
  BY <1>1, DequeueFacts
<1>3. Queued = Queued' \cup {items[1]}
  BY <1>2, QueuedStep
<1>4. items[1] \notin Queued'
  <2>1. 1 \in 1 .. Len(items) /\ \A i \in 1 .. Len(items') : i + 1 \in 1 .. Len(items) /\ 1 < i + 1
    BY <1>2
  <2>2. items[1].ticket \in Nat
    BY <1>2, RequestFacts
  <2>3. \A i \in 1 .. Len(items') : items[1].ticket < items'[i].ticket
    BY <1>2, <2>1 DEF Order, QueueOrder
  <2> QED BY <2>2, <2>3 DEF Queued
<1>5. /\ wpc[w] = "dequeue" /\ UNCHANGED <<accepted, dropped, terminates>>
  BY DEF TakeMessage, poolVars
<1>6. /\ wpc \in [Workers -> {"dequeue", "log", "flush", "exited"}]
      /\ msg \in [Workers -> Requests(Nat) \cup {NoMessage}]
  BY DEF TypeOK
<1>7. CASE items[1].type = "terminate"
  <2>1. /\ wpc' = [wpc EXCEPT ![w] = "exited"]
        /\ done' = done \cup {items[1]} /\ msg' = msg
    BY <1>2, <1>7 DEF TakeMessage
  <2>2. InHand' = InHand
    BY <1>5, <1>6, <2>1 DEF InHand
  <2>3. items[1] \notin done
    <3>1. 1 \in 1 .. Len(items) /\ items[1].ticket \in Nat
      BY <1>2, RequestFacts
    <3> QED BY <3>1 DEF Order, Settled, LeftEarlier
  <2> QED BY <1>2, <1>3, <1>4, <1>5, <1>7, <2>1, <2>2, <2>3 DEF Everything, Settled
<1>8. CASE items[1].type # "terminate"
  <2>1. PICK l \in {"log", "flush"} : wpc' = [wpc EXCEPT ![w] = l]
    BY <1>2, <1>8 DEF TakeMessage
  <2>2. msg' = [msg EXCEPT ![w] = items[1]] /\ done' = done
    BY <1>2, <1>8 DEF TakeMessage
  <2>3. /\ Busy(w)' /\ ~ Busy(w) /\ msg'[w] = items[1]
        /\ \A v \in Workers : v # w => (Busy(v)' <=> Busy(v)) /\ msg'[v] = msg[v]
    BY <1>5, <1>6, <2>1, <2>2 DEF Busy
  <2>4. InHand' = InHand \cup {items[1]}
    BY <2>3 DEF InHand, Busy
  <2> QED BY <1>2, <1>3, <1>4, <1>5, <1>8, <2>1, <2>2, <2>4 DEF Everything, Settled
<1> QED BY <1>7, <1>8

(* Working on a message moves it out of hand only to be done. *)
LEMMA WorkMoves ==
    ASSUME TypeOK, NEW w \in Workers, Finish(w) \/ GoFlush(w)
    PROVE  /\ Everything' = Everything
           /\ \A v \in Workers : wpc'[v] = "exited" <=> wpc[v] = "exited"
<1>1. /\ wpc \in [Workers -> {"dequeue", "log", "flush", "exited"}]
      /\ msg \in [Workers -> Requests(Nat) \cup {NoMessage}]
  BY DEF TypeOK
<1>2. CASE Finish(w)
  <2>1. /\ Busy(w) /\ ~ Busy(w)' /\ done' = done \cup {msg[w]}
        /\ UNCHANGED <<items, dropped>>
        /\ \A v \in Workers : v # w => (Busy(v)' <=> Busy(v)) /\ msg'[v] = msg[v]
    BY <1>1, <1>2 DEF Finish, Busy
  <2>2. InHand = InHand' \cup {msg[w]}
    BY <2>1 DEF InHand, Busy
  <2>3. Queued' = Queued
    BY <2>1 DEF Queued
  <2>4. \A v \in Workers : wpc'[v] = "exited" <=> wpc[v] = "exited"
    BY <1>1, <1>2 DEF Finish, Busy
  <2> QED BY <2>1, <2>2, <2>3, <2>4 DEF Everything, Settled
<1>3. CASE GoFlush(w)
  <2>1. /\ UNCHANGED <<items, dropped, done, msg>>
        /\ \A v \in Workers : Busy(v)' <=> Busy(v)
        /\ \A v \in Workers : wpc'[v] = "exited" <=> wpc[v] = "exited"
    BY <1>1, <1>3 DEF GoFlush, Busy
  <2>2. InHand' = InHand
    BY <2>1 DEF InHand, Busy
  <2> QED BY <2>1, <2>2 DEF Everything, Settled, Queued
<1> QED BY <1>2, <1>3

(* The destructor moves nothing but what is still in the queue. *)
LEMMA JoinMoves ==
    ASSUME TypeOK, Join
    PROVE  /\ items' = <<>> /\ Len(items') = 0 /\ Queued' = {}
           /\ UNCHANGED <<wpc, msg, done, dropped, accepted, terminates, overruns>>
           /\ Everything = Everything' \cup Queued
           /\ \A w \in Workers : wpc[w] = "exited"
           /\ terminates = Cardinality(Workers)
<1>1. /\ items' = <<>>
      /\ UNCHANGED <<wpc, msg, done, dropped, accepted, terminates, overruns>>
      /\ \A w \in Workers : wpc[w] = "exited"
      /\ terminates = Cardinality(Workers)
  BY DEF Join, workerVars, history
<1>2. Len(items') = 0 /\ 1 .. Len(items') = {}
  BY <1>1, EmptySeq
<1>3. Queued' = {}
  BY <1>2 DEF Queued
<1>4. InHand' = InHand /\ Settled' = Settled
  BY <1>1 DEF InHand, Settled
<1> QED BY <1>1, <1>2, <1>3, <1>4 DEF Everything

(* The other steps move nothing. *)
LEMMA QuietMoves ==
    ASSUME Quiet
    PROVE  Everything' = Everything /\ Queued' = Queued
  BY DEF Quiet, Everything, Queued, InHand, Settled

(* Every message has a ticket that was given out. *)
LEMMA TicketsKnown ==
    ASSUME TypeOK, Order
    PROVE  /\ \A m \in Everything : m \in Messages /\ m.ticket \in 1 .. accepted
           /\ \A m \in Everything : m.ticket \in Nat /\ m.ticket < accepted + 1
<1>1. /\ \A i \in 1 .. Len(items) : items[i] \in Messages
      /\ accepted \in Nat
  BY ElementOfSeq DEF TypeOK
<1>2. \A m \in Queued : m \in Messages /\ m.ticket \in 1 .. accepted
  BY <1>1 DEF Order, QueueOrder, Queued
<1>3. \A m \in InHand : m \in Messages /\ m.ticket \in 1 .. accepted
  BY RequestFacts DEF TypeOK, Order, LeftEarlier, InHand, Busy
<1>4. \A m \in Settled : m \in Messages /\ m.ticket \in 1 .. accepted
  BY DEF TypeOK, Order, LeftEarlier, Settled
<1>5. \A m \in Everything : m \in Messages /\ m.ticket \in 1 .. accepted
  BY <1>2, <1>3, <1>4 DEF Everything
<1> QED BY <1>1, <1>5

-----------------------------------------------------------------------------
(* The terminate messages: none before the destructor runs, and then behind *)
(* everything else; one for each worker, still queued or taken by a worker *)
(* that has left its loop.                                                 *)
Exited == {w \in Workers : wpc[w] = "exited"}
QueuedTerminates == {m \in Queued : m.type = "terminate"}

TerminatesLast ==
    \A m \in Everything, t \in Everything :
        m.type # "terminate" /\ t.type = "terminate" => m.ticket < t.ticket

TerminateInv ==
    /\ TerminatesLast
    /\ \A m \in dropped : m.type # "terminate"
    /\ terminates = Cardinality(Exited) + Cardinality(QueuedTerminates)
    /\ IsFiniteSet(Queued)
    /\ pool = "alive" => \A m \in Everything : m.type # "terminate"
    /\ Exited # {} => \E t \in done : t.type = "terminate"

(* TerminatesReachWorkers is the first three of them. *)
LEMMA ReachWorkers == TerminateInv => TerminatesReachWorkers
  BY DEF TerminateInv, TerminatesLast, TerminatesReachWorkers, Exited, QueuedTerminates

(* Sets that are counted. *)
LEMMA CountFacts ==
    ASSUME TypeOK, TerminateInv
    PROVE  /\ IsFiniteSet(Exited) /\ Cardinality(Exited) \in Nat
           /\ IsFiniteSet(QueuedTerminates) /\ Cardinality(QueuedTerminates) \in Nat
<1>1. Exited \subseteq Workers /\ QueuedTerminates \subseteq Queued
  BY DEF Exited, QueuedTerminates
<1>2. IsFiniteSet(Exited) /\ IsFiniteSet(QueuedTerminates)
  BY <1>1, NumberFacts, FS_Subset DEF TerminateInv
<1> QED BY <1>2, FS_CardinalityType

(* When all workers have left, the queue is empty: no terminate message is *)
(* left over, and no other message can be behind the last one.             *)
LEMMA EmptyAtJoin ==
    ASSUME TypeOK, Order, TerminateInv, \A w \in Workers : wpc[w] = "exited",
           terminates = Cardinality(Workers)
    PROVE  Queued = {}
<1>1. Exited = Workers
  BY DEF Exited
<1>2. Cardinality(QueuedTerminates) = 0
  BY <1>1, CountFacts DEF TerminateInv
<1>3. QueuedTerminates = {}
  BY <1>2, CountFacts, FS_EmptySet
<1>4. Workers # {}
  BY NumberFacts, FS_EmptySet
<1>5. PICK t \in done : t.type = "terminate"
  BY <1>1, <1>4 DEF TerminateInv
<1>6. ASSUME NEW m \in Queued PROVE FALSE
  <2>1. m.type # "terminate"
    BY <1>3, <1>6 DEF QueuedTerminates
  <2>2. m.ticket < t.ticket
    BY <1>5, <1>6, <2>1 DEF TerminateInv, TerminatesLast, Everything, Settled
  <2>3. t.ticket < m.ticket
    BY <1>5, <1>6 DEF Order, LeftEarlier, Settled, Queued
  <2>4. m \in Everything /\ t \in Everything
    BY <1>5, <1>6 DEF Everything, Settled
  <2>5. m.ticket \in Nat /\ t.ticket \in Nat
    BY <2>4, TicketsKnown
  <2> QED BY <2>2, <2>3, <2>5
<1> QED BY <1>6

(* At first there is no terminate message. *)
LEMMA InitTerminate == Init => TerminateInv
<1> SUFFICES ASSUME Init PROVE TerminateInv
  OBVIOUS
<1>1. Queued = {} /\ InHand = {} /\ Settled = {} /\ Exited = {}
  BY EmptySeq DEF Init, QueueInit, Queued, InHand, Settled, Exited
<1>2. QueuedTerminates = {} /\ Everything = {} /\ dropped = {} /\ terminates = 0
  BY <1>1 DEF QueuedTerminates, Everything, Init
<1> QED BY <1>1, <1>2, FS_EmptySet DEF TerminateInv, TerminatesLast

(* Every step keeps the terminate messages last, and their number. *)
LEMMA TerminateStep ==
    TypeOK /\ Order /\ NobodyInsideDestructor /\ TerminateInv /\ [Next]_vars => TerminateInv'
<1> SUFFICES ASSUME TypeOK, Order, NobodyInsideDestructor, TerminateInv, [Next]_vars
             PROVE  TerminateInv'
  OBVIOUS
<1>0. pool' = "alive" => pool = "alive"
  BY PoolMoves
<1>1. ASSUME Everything' = Everything, Queued' = Queued, done \subseteq done',
             dropped' = dropped, terminates' = terminates, Exited' = Exited
      PROVE  TerminateInv'
  <2>1. QueuedTerminates' = QueuedTerminates
    BY <1>1 DEF QueuedTerminates
  <2>2. TerminatesLast'
    BY <1>1 DEF TerminateInv, TerminatesLast
  <2> QED BY <1>0, <1>1, <2>1, <2>2 DEF TerminateInv
<1>2. CASE Quiet
  BY <1>1, <1>2, QuietMoves DEF Quiet, Exited
<1>3. ASSUME NEW w \in Workers, Finish(w) \/ GoFlush(w) PROVE TerminateInv'
  <2>1. Exited' = Exited
    BY <1>3, WorkMoves DEF Exited
  <2>2. Queued' = Queued /\ done \subseteq done' /\ dropped' = dropped /\ terminates' = terminates
    BY <1>3 DEF Finish, GoFlush, Queued
  <2> QED BY <1>1, <1>3, <2>1, <2>2, WorkMoves
(* A post: the pool is alive, and there is no terminate message. *)
<1>4. ASSUME NEW c \in Clients, Post(c) PROVE TerminateInv'
  <2> DEFINE m == Ticketed(call[c])
  <2>1. /\ Everything' = Everything \cup {m} /\ Queued' \subseteq Queued \cup {m}
        /\ UNCHANGED <<wpc, msg, done, terminates>> /\ m.type # "terminate"
        /\ Queued \subseteq Everything /\ dropped' \subseteq Everything'
    BY <1>4, PostMoves, PostFacts, RequestFacts DEF Everything, Settled
  <2>2. pool = "alive"
    BY <1>4 DEF NobodyInsideDestructor, Posting, Post
  <2> HIDE DEF m
  <2>3. \A x \in Everything' : x.type # "terminate"
    BY <2>1, <2>2 DEF TerminateInv
  <2>4. QueuedTerminates = {} /\ QueuedTerminates' = {} /\ Exited' = Exited
    BY <2>1, <2>2, <2>3 DEF TerminateInv, QueuedTerminates, Exited
  <2>5. IsFiniteSet(Queued')
    <3>1. IsFiniteSet(Queued \cup {m})
      BY FS_AddElement DEF TerminateInv
    <3>2. Queued' \subseteq Queued \cup {m}
      BY <2>1
    <3> QED BY <3>1, <3>2, FS_Subset
  <2> QED BY <2>1, <2>3, <2>4, <2>5 DEF TerminateInv, TerminatesLast
<1>5. CASE PostTerminate
  <2>1. /\ Everything' = Everything \cup {Terminate} /\ Queued' = Queued \cup {Terminate}
        /\ UNCHANGED <<wpc, done, dropped>> /\ terminates' = terminates + 1
    BY <1>5, PostTerminateMoves
  <2>2. /\ Terminate.type = "terminate" /\ Terminate.ticket = accepted + 1
        /\ pool' # "alive"
    BY <1>5, TerminateFacts, PoolMoves DEF TypeOK
  <2>3. TerminatesLast'
    BY <2>1, <2>2, TicketsKnown DEF TerminateInv, TerminatesLast
  <2>4. /\ QueuedTerminates' = QueuedTerminates \cup {Terminate}
        /\ Terminate \notin QueuedTerminates /\ Exited' = Exited
    <3>1. \A m \in Queued : m # Terminate
      BY <2>2, TicketsKnown DEF Everything
    <3> QED BY <2>1, <2>2, <3>1 DEF QueuedTerminates, Exited
  <2>5. Cardinality(QueuedTerminates') = Cardinality(QueuedTerminates) + 1
    BY <2>4, CountFacts, FS_AddElement
  <2>6. IsFiniteSet(Queued')
    BY <2>1, FS_AddElement DEF TerminateInv
  <2>7. terminates' = Cardinality(Exited') + Cardinality(QueuedTerminates')
    BY <2>1, <2>4, <2>5, CountFacts DEF TerminateInv
  <2> QED BY <2>1, <2>2, <2>3, <2>4, <2>6, <2>7 DEF TerminateInv
<1>6. ASSUME NEW w \in Workers, TakeMessage(w) PROVE TerminateInv'
  <2>1. /\ Everything' = Everything
        /\ Queued' = Queued \ {items[1]} /\ items[1] \in Queued
        /\ wpc[w] = "dequeue" /\ UNCHANGED <<dropped, terminates>>
        /\ wpc \in [Workers -> {"dequeue", "log", "flush", "exited"}]
    BY <1>6, TakeMoves DEF TypeOK
  <2>2. IsFiniteSet(Queued') /\ TerminatesLast'
    BY <2>1, FS_RemoveElement DEF TerminateInv, TerminatesLast
  <2>3. CASE items[1].type = "terminate"
    <3>1. wpc' = [wpc EXCEPT ![w] = "exited"] /\ done' = done \cup {items[1]}
      BY <1>6, <2>3, TakeMoves
    <3>2. Exited' = Exited \cup {w} /\ w \notin Exited
      BY <2>1, <3>1 DEF Exited
    <3>3. /\ QueuedTerminates' = QueuedTerminates \ {items[1]}
          /\ items[1] \in QueuedTerminates
      BY <2>1, <2>3 DEF QueuedTerminates
    <3>4. Cardinality(Exited') = Cardinality(Exited) + 1
      BY <3>2, CountFacts, FS_AddElement
    <3>5. Cardinality(QueuedTerminates') = Cardinality(QueuedTerminates) - 1
      BY <3>3, CountFacts, FS_RemoveElement
    <3>6. terminates' = Cardinality(Exited') + Cardinality(QueuedTerminates')
      BY <2>1, <3>4, <3>5, CountFacts DEF TerminateInv
    <3> QED BY <1>0, <2>1, <2>2, <2>3, <3>1, <3>6 DEF TerminateInv
  <2>4. CASE items[1].type # "terminate"
    <3>1. PICK l \in {"log", "flush"} : wpc' = [wpc EXCEPT ![w] = l]
      BY <1>6, <2>4, TakeMoves
    <3>2. done' = done
      BY <1>6, <2>4, TakeMoves
    <3>3. Exited' = Exited /\ QueuedTerminates' = QueuedTerminates
      BY <2>1, <2>4, <3>1 DEF Exited, QueuedTerminates
    <3> QED BY <1>0, <2>1, <2>2, <3>2, <3>3 DEF TerminateInv
  <2> QED BY <2>3, <2>4
<1>7. CASE Join
  <2>1. /\ Queued' = {} /\ UNCHANGED <<wpc, done, dropped, terminates>>
        /\ \A w \in Workers : wpc[w] = "exited"
        /\ terminates = Cardinality(Workers)
        /\ Everything = Everything' \cup Queued
    BY <1>7, JoinMoves
  <2>2. Queued = {}
    BY <2>1, EmptyAtJoin
  <2> QED BY <1>1, <2>1, <2>2 DEF Exited
<1> QED BY <1>2, <1>3, <1>4, <1>5, <1>6, <1>7, Steps

-----------------------------------------------------------------------------
(* Every message is accounted for, and the queue is empty for good once the *)
(* pool is destroyed.                                                      *)
BusyWorkers == {w \in Workers : wpc[w] \in {"log", "flush"}}

Total == Len(items) + Cardinality(BusyWorkers) + Cardinality(done) + Cardinality(dropped)

Accounts ==
    /\ Tickets(Everything) = 1 .. accepted
    /\ Total = accepted
    /\ overruns = Cardinality(dropped) % SizeMod
    /\ IsFiniteSet(done) /\ IsFiniteSet(dropped)
    /\ pool = "destroyed" => items = <<>> /\ \A w \in Workers : wpc[w] = "exited"

(* That is what Conservation says. *)
LEMMA AccountsConserve == Accounts => Conservation
  BY DEF Accounts, Conservation, Total, BusyWorkers

(* At first there is no message. *)
LEMMA InitAccounts == Init => Accounts /\ Order
<1> SUFFICES ASSUME Init PROVE Accounts /\ Order
  OBVIOUS
<1>1. /\ Len(items) = 0 /\ done = {} /\ dropped = {} /\ accepted = 0 /\ overruns = 0
      /\ pool = "alive" /\ \A w \in Workers : wpc[w] = "dequeue"
  BY EmptySeq DEF Init, QueueInit
<1>2. 1 .. Len(items) = {} /\ 1 .. accepted = {}
  BY <1>1
<1>3. Queued = {} /\ BusyWorkers = {} /\ InHand = {} /\ Settled = {}
  BY <1>1, <1>2 DEF Queued, BusyWorkers, InHand, Settled
<1>4. Everything = {} /\ Tickets(Everything) = {}
  BY <1>3 DEF Everything, Tickets
<1>5. 0 % SizeMod = 0
  BY NumberFacts, SmallMod
<1>6. Order
  BY <1>1, <1>2, <1>3 DEF Order, QueueOrder, Busy
<1> QED BY <1>1, <1>2, <1>3, <1>4, <1>5, <1>6, FS_EmptySet DEF Accounts, Total

(* The numbers in the account. *)
LEMMA TotalFacts ==
    ASSUME TypeOK, Accounts
    PROVE  /\ Len(items) \in Nat /\ accepted \in Nat
           /\ IsFiniteSet(BusyWorkers) /\ Cardinality(BusyWorkers) \in Nat
           /\ Cardinality(done) \in Nat /\ Cardinality(dropped) \in Nat
<1>1. BusyWorkers \subseteq Workers
  BY DEF BusyWorkers
<1>2. IsFiniteSet(BusyWorkers)
  BY <1>1, NumberFacts, FS_Subset
<1>3. Len(items) \in Nat
  BY LenProperties DEF TypeOK
<1> QED BY <1>2, <1>3, FS_CardinalityType DEF Accounts, TypeOK

(* A new message adds its ticket, and one to the total. *)
LEMMA TicketsGrow ==
    ASSUME TypeOK, Accounts, NEW m, m.ticket = accepted + 1,
           Everything' = Everything \cup {m}, accepted' = accepted + 1
    PROVE  Tickets(Everything)' = 1 .. accepted'
<1>1. Tickets(Everything)' = Tickets(Everything) \cup {accepted + 1}
  BY DEF Tickets
<1>2. accepted \in Nat
  BY DEF TypeOK
<1>3. (1 .. accepted) \cup {accepted + 1} = 1 .. (accepted + 1)
  BY <1>2
<1> QED BY <1>1, <1>3 DEF Accounts

(* Every step keeps the account. *)
LEMMA AccountsStep ==
    TypeOK /\ Order /\ NobodyInsideDestructor /\ TerminateInv /\ Accounts /\ [Next]_vars
        => Accounts'
<1> SUFFICES ASSUME TypeOK, Order, NobodyInsideDestructor, TerminateInv, Accounts,
                    [Next]_vars
             PROVE  Accounts'
  OBVIOUS
<1>0. /\ wpc \in [Workers -> {"dequeue", "log", "flush", "exited"}]
      /\ items \in Seq(Messages)
  BY DEF TypeOK
<1>1. ASSUME Everything' = Everything, UNCHANGED <<items, accepted, overruns, dropped, done>>,
             BusyWorkers' = BusyWorkers,
             \A w \in Workers : wpc'[w] = "exited" <=> wpc[w] = "exited",
             pool' = "destroyed" => pool = "destroyed"
      PROVE  Accounts'
  BY <1>1 DEF Accounts, Tickets, Total
<1>2. CASE Quiet
  <2>1. /\ UNCHANGED <<items, accepted, overruns, dropped, done, wpc>>
        /\ BusyWorkers' = BusyWorkers
    BY <1>2 DEF Quiet, BusyWorkers
  <2>2. CASE Join
    <3>1. items' = <<>> /\ (\A w \in Workers : wpc[w] = "exited")
      BY <2>2, JoinMoves
    <3> QED BY <1>2, <2>1, <3>1, QuietMoves DEF Accounts, Tickets, Total
  <2>3. CASE ~ Join
    BY <1>1, <1>2, <2>1, <2>3, QuietMoves, PoolMoves
  <2> QED BY <2>2, <2>3
(* A post: one more in the queue, or one more dropped. *)
<1>3. ASSUME NEW c \in Clients, Post(c) PROVE Accounts'
  <2> DEFINE m == Ticketed(call[c])
  <2>1. /\ Everything' = Everything \cup {m} /\ UNCHANGED <<wpc, done>>
        /\ accepted' = accepted + 1 /\ m.ticket = accepted + 1 /\ m \in Messages
        /\ \/ Enqueue(m) /\ dropped' = dropped
           \/ Overrun(m) /\ dropped' = dropped \cup {leftover'}
    BY <1>3, PostMoves, PostFacts, RequestFacts
  <2> HIDE DEF m
  <2>2. pool' # "destroyed"
    BY <1>3, PoolMoves DEF NobodyInsideDestructor, Posting, Post
  <2>3. Tickets(Everything)' = 1 .. accepted'
    BY <2>1, TicketsGrow
  <2>4. BusyWorkers' = BusyWorkers
    BY <2>1 DEF BusyWorkers
  <2>5. CASE Enqueue(m) /\ dropped' = dropped
    <3>1. Len(items') = Len(items) + 1 /\ overruns' = overruns
      BY <1>0, <2>1, <2>5, EnqueueFacts, NumberFacts
    <3>2. Total' = accepted'
      BY <2>1, <2>4, <2>5, <3>1, TotalFacts DEF Accounts, Total
    <3> QED BY <2>1, <2>2, <2>3, <2>5, <3>1, <3>2 DEF Accounts
  <2>6. CASE Overrun(m) /\ dropped' = dropped \cup {leftover'}
    <3>1. /\ Len(items') = Len(items) /\ overruns' = (overruns + 1) % SizeMod
          /\ Len(items) = 0 => leftover' = m
          /\ Len(items) > 0 => leftover' = items[1]
      BY <1>0, <2>1, <2>6, OverrunFacts
    <3>2. leftover' \notin dropped
      <4>1. CASE Len(items) = 0
        <5>1. m \notin dropped
          BY <2>1, TicketsKnown DEF Everything, Settled
        <5> QED BY <3>1, <4>1, <5>1
      <4>2. CASE Len(items) > 0
        <5>1. 1 \in 1 .. Len(items) /\ items[1].ticket \in Nat
          BY <1>0, <4>2, TotalFacts, ElementOfSeq, RequestFacts
        <5> QED BY <3>1, <4>2, <5>1 DEF Order, LeftEarlier, Settled
      <4> QED BY <4>1, <4>2, TotalFacts
    <3>3. /\ Cardinality(dropped') = Cardinality(dropped) + 1
          /\ IsFiniteSet(dropped')
      BY <2>6, <3>2, FS_AddElement DEF Accounts
    <3>4. Total' = accepted'
      BY <2>1, <2>4, <3>1, <3>3, TotalFacts DEF Accounts, Total
    <3>5. overruns' = Cardinality(dropped') % SizeMod
      BY <3>1, <3>3, NextMod, NumberFacts, TotalFacts DEF Accounts
    <3> QED BY <2>1, <2>2, <2>3, <3>3, <3>4, <3>5 DEF Accounts
  <2> QED BY <2>1, <2>5, <2>6
<1>4. CASE PostTerminate
  <2>1. /\ Everything' = Everything \cup {Terminate}
        /\ UNCHANGED <<wpc, msg, done, dropped, overruns>>
        /\ accepted' = accepted + 1
    BY <1>4, PostTerminateMoves
  <2>2. pool' # "destroyed" /\ Terminate.ticket = accepted + 1 /\ Terminate \in Messages
    BY <1>4, PoolMoves, TerminateFacts DEF TypeOK
  <2>3. Tickets(Everything)' = 1 .. accepted'
    BY <2>1, <2>2, TicketsGrow
  <2>4. Len(items') = Len(items) + 1
    BY <1>0, <1>4, <2>2, EnqueueFacts, NumberFacts DEF PostTerminate, Terminate
  <2>5. BusyWorkers' = BusyWorkers
    BY <2>1 DEF BusyWorkers
  <2>6. Total' = accepted'
    BY <2>1, <2>4, <2>5, TotalFacts DEF Accounts, Total
  <2> QED BY <2>1, <2>2, <2>3, <2>6 DEF Accounts
(* One less in the queue, one more in hand or finished with. *)
<1>5. ASSUME NEW w \in Workers, TakeMessage(w) PROVE Accounts'
  <2>1. /\ Everything' = Everything
        /\ Len(items) \in Nat /\ Len(items') = Len(items) - 1
        /\ wpc[w] = "dequeue"
        /\ UNCHANGED <<accepted, dropped, overruns>>
    BY <1>5, TakeMoves
  <2>2. pool' # "destroyed"
    <3>1. pool # "destroyed"
      BY <2>1 DEF Accounts
    <3> QED BY <1>5, <3>1 DEF TakeMessage, poolVars
  <2>3. CASE items[1].type = "terminate"
    <3>1. /\ wpc' = [wpc EXCEPT ![w] = "exited"]
          /\ done' = done \cup {items[1]} /\ items[1] \notin done
      BY <1>5, <2>3, TakeMoves
    <3>2. BusyWorkers' = BusyWorkers
      BY <1>0, <2>1, <3>1 DEF BusyWorkers
    <3>3. IsFiniteSet(done') /\ Cardinality(done') = Cardinality(done) + 1
      BY <3>1, FS_AddElement DEF Accounts
    <3>4. Total' = accepted'
      BY <2>1, <3>2, <3>3, TotalFacts DEF Accounts, Total
    <3> QED BY <2>1, <2>2, <3>3, <3>4 DEF Accounts, Tickets
  <2>4. CASE items[1].type # "terminate"
    <3>1. PICK l \in {"log", "flush"} : wpc' = [wpc EXCEPT ![w] = l]
      BY <1>5, <2>4, TakeMoves
    <3>2. done' = done
      BY <1>5, <2>4, TakeMoves
    <3>3. BusyWorkers' = BusyWorkers \cup {w} /\ w \notin BusyWorkers
      BY <1>0, <2>1, <3>1 DEF BusyWorkers
    <3>4. Cardinality(BusyWorkers') = Cardinality(BusyWorkers) + 1
      BY <3>3, TotalFacts, FS_AddElement
    <3>5. Total' = accepted'
      BY <2>1, <3>2, <3>4, TotalFacts DEF Accounts, Total
    <3> QED BY <2>1, <2>2, <3>2, <3>5 DEF Accounts, Tickets
  <2> QED BY <2>3, <2>4
<1>6. ASSUME NEW w \in Workers, Finish(w) PROVE Accounts'
  <2>1. /\ BusyWorkers' = BusyWorkers \ {w} /\ w \in BusyWorkers
        /\ done' = done \cup {msg[w]}
        /\ UNCHANGED <<items, accepted, overruns, dropped>>
    BY <1>0, <1>6 DEF Finish, BusyWorkers, Busy
  <2>2. msg[w] \notin done
    BY <1>6 DEF Finish, Order, Settled
  <2>3. /\ Cardinality(BusyWorkers') = Cardinality(BusyWorkers) - 1
        /\ Cardinality(done') = Cardinality(done) + 1 /\ IsFiniteSet(done')
    BY <2>1, <2>2, TotalFacts, FS_AddElement, FS_RemoveElement DEF Accounts
  <2>4. Total' = accepted'
    BY <2>1, <2>3, TotalFacts DEF Accounts, Total
  <2>5. pool' # "destroyed"
    <3>1. pool # "destroyed"
      BY <1>6 DEF Finish, Busy, Accounts
    <3>2. ~ Join
      BY <1>6, JoinMoves DEF Finish, Busy
    <3> QED BY <3>1, <3>2, PoolMoves
  <2>6. Everything' = Everything
    BY <1>6, WorkMoves
  <2> QED BY <2>1, <2>3, <2>4, <2>5, <2>6 DEF Accounts, Tickets
<1>7. ASSUME NEW w \in Workers, GoFlush(w) PROVE Accounts'
  <2>1. /\ UNCHANGED <<items, accepted, overruns, dropped, done>>
        /\ BusyWorkers' = BusyWorkers
    BY <1>0, <1>7 DEF GoFlush, BusyWorkers
  <2>2. pool' = "destroyed" => pool = "destroyed"
    <3>1. ~ Join
      BY <1>7, JoinMoves DEF GoFlush
    <3> QED BY <3>1, PoolMoves
  <2> QED BY <1>1, <1>7, <2>1, <2>2, WorkMoves
(* The queue is destroyed empty. *)
<1>8. CASE Join
  <2>1. /\ items' = <<>> /\ Len(items') = 0 /\ Queued' = {}
        /\ UNCHANGED <<wpc, done, dropped, accepted, overruns>>
        /\ Everything = Everything' \cup Queued
        /\ \A w \in Workers : wpc[w] = "exited"
        /\ terminates = Cardinality(Workers)
    BY <1>8, JoinMoves
  <2>2. Queued = {}
    BY <2>1, EmptyAtJoin
  <2>3. Len(items) = 0
    <3>1. CASE Len(items) > 0
      <4>1. 1 \in 1 .. Len(items)
        BY <3>1, TotalFacts
      <4> QED BY <2>2, <4>1 DEF Queued
    <3> QED BY <3>1, TotalFacts
  <2>4. BusyWorkers' = BusyWorkers
    BY <2>1 DEF BusyWorkers
  <2>5. Total' = accepted'
    BY <2>1, <2>3, <2>4 DEF Accounts, Total
  <2> QED BY <2>1, <2>2, <2>5 DEF Accounts, Tickets
<1> QED BY <1>2, <1>3, <1>4, <1>5, <1>6, <1>7, <1>8, Steps

-----------------------------------------------------------------------------
(* The inductive invariant of the pipeline. *)
Inv == TypeOK /\ Order /\ NobodyInsideDestructor /\ TerminateInv /\ Accounts

(* It holds in every reachable state. *)
LEMMA InvHolds == Spec => []Inv
<1>1. Init => TypeOK /\ Order /\ TerminateInv /\ Accounts
  BY InitType, InitAccounts, InitTerminate
<1>2. TypeOK /\ NobodyInsideDestructor /\ Order /\ TerminateInv /\ Accounts /\ [Next]_vars
          => Order' /\ TerminateInv' /\ Accounts'
  BY OrderStep, TerminateStep, AccountsStep
<1> QED BY <1>1, <1>2, TypeCorrect, DestructorIsAlone, PTL DEF Spec, Inv

(* No message is lost and none is handled twice, for any number of clients *)
(* and workers: it is in one of the queue, the hands of a worker, the      *)
(* messages finished with and the messages overrun                         *)
(* (thread_pool-inl.h:55-126).                                             *)
THEOREM NothingLostOrDoubled == Spec => []Conservation
<1>1. Inv => Conservation
  BY AccountsConserve DEF Inv
<1> QED BY <1>1, InvHolds, PTL

(* Each worker gets its terminate message: none is overrun, and none       *)
(* precedes another message (thread_pool-inl.h:42-50).                     *)
THEOREM EveryWorkerIsTold == Spec => []TerminatesReachWorkers
<1>1. Inv => TerminatesReachWorkers
  BY ReachWorkers DEF Inv
<1> QED BY <1>1, InvHolds, PTL

(* Once the pool is destroyed, every message that was accepted is finished *)
(* with or was overrun, and no worker runs (async_logger.h:14-15).         *)
THEOREM DestroyedDrained == Spec => []DrainedBeforeDestroyed
<1>1. Inv => DrainedBeforeDestroyed
  <2> SUFFICES ASSUME Inv, pool = "destroyed"
               PROVE  /\ Tickets(Settled) = 1 .. accepted
                      /\ \A w \in Workers : wpc[w] = "exited"
    BY DEF DrainedBeforeDestroyed
  <2>1. /\ items = <<>> /\ \A w \in Workers : wpc[w] = "exited"
        /\ Tickets(Everything) = 1 .. accepted
    BY DEF Inv, Accounts
  <2>2. 1 .. Len(items) = {}
    BY <2>1, EmptySeq
  <2>3. Queued = {} /\ InHand = {}
    BY <2>1, <2>2 DEF Queued, InHand
  <2> QED BY <2>1, <2>3 DEF Everything
<1> QED BY <1>1, InvHolds, PTL

-----------------------------------------------------------------------------
(* What became of a message in a sink: it was written, or the sink threw or *)
(* does not take its level; and the same for a flush.                      *)
Offered(m, s) ==
    m.level >= SinkLevel[s] /\ <<m.ticket, s>> \notin failed => <<m.ticket, s>> \in written

Flushed(m, s) ==
    m.level >= SinkLevel[s] /\ <<m.ticket, s>> \notin failed => <<m.ticket, s>> \in flushed

(* The loops over the sinks, up to the sink that a worker has come to.     *)
LoopInv ==
    \A w \in Workers :
        /\ wpc[w] = "log" =>
               \A i \in 1 .. Len(SinksOfMessage(msg[w])) :
                   i < nth[w] => Offered(msg[w], SinksOfMessage(msg[w])[i])
        /\ wpc[w] = "flush" /\ msg[w].type = "log" =>
               \A i \in 1 .. Len(SinksOfMessage(msg[w])) :
                   /\ Offered(msg[w], SinksOfMessage(msg[w])[i])
                   /\ i < nth[w] => Flushed(msg[w], SinksOfMessage(msg[w])[i])

DoneInv ==
    \A m \in done : m.type = "log" =>
        \A i \in 1 .. Len(SinksOfMessage(m)) :
            /\ Offered(m, SinksOfMessage(m)[i])
            /\ should_flush_(m) => Flushed(m, SinksOfMessage(m)[i])

(* Nothing is unwritten, and no exception forgotten. *)
HistoryGrows ==
    written \subseteq written' /\ flushed \subseteq flushed' /\ failed \subseteq failed'

(* Every step respects that. *)
LEMMA Grows == [Next]_vars => HistoryGrows
<1> SUFFICES ASSUME [Next]_vars PROVE HistoryGrows
  OBVIOUS
<1> USE DEF HistoryGrows, history
<1>1. ASSUME NEW c \in Clients, Calling(c) \/ Post(c) \/ ReleasePool(c) PROVE HistoryGrows
  BY <1>1 DEF Calling, Log, Flush, Call, Post, ReleasePool
<1>2. CASE ReleaseOwner \/ Destroying
  BY <1>2 DEF ReleaseOwner, Destroying, PostTerminate, Join
<1>3. ASSUME NEW w \in Workers, TakeMessage(w) \/ AfterSinks(w) \/ AfterFlush(w)
      PROVE  HistoryGrows
  BY <1>3 DEF TakeMessage, AfterSinks, AfterFlush
<1>4. ASSUME NEW w \in Workers, SinkLog(w) \/ SinkFlush(w) PROVE HistoryGrows
  BY <1>4 DEF SinkLog, SinkFlush, SinkThrows
<1>5. CASE UNCHANGED vars
  BY <1>5 DEF vars
<1> QED BY <1>1, <1>2, <1>3, <1>4, <1>5 DEF Next, Working, Stopped

(* So what has been offered stays offered ... *)
LEMMA StaysOffered ==
    ASSUME HistoryGrows
    PROVE  /\ \A m, s : Offered(m, s) => Offered(m, s)'
           /\ \A m, s : Flushed(m, s) => Flushed(m, s)'
  BY DEF HistoryGrows, Offered, Flushed

(* ... and a worker that does not move keeps its place, so that the loops *)
(* over the sinks make progress for the message in hand.                  *)
LEMMA DeliveryStep == TypeOK /\ LoopInv /\ DoneInv /\ [Next]_vars => LoopInv' /\ DoneInv'
<1> SUFFICES ASSUME TypeOK, LoopInv, DoneInv, [Next]_vars PROVE LoopInv' /\ DoneInv'
  OBVIOUS
<1>0. /\ wpc \in [Workers -> {"dequeue", "log", "flush", "exited"}]
      /\ msg \in [Workers -> Requests(Nat) \cup {NoMessage}]
      /\ nth \in [Workers -> Nat \ {0}]
  BY DEF TypeOK
<1>g. HistoryGrows
  BY Grows
<1> DEFINE Loops(w) ==
        /\ wpc[w] = "log" =>
               \A i \in 1 .. Len(SinksOfMessage(msg[w])) :
                   i < nth[w] => Offered(msg[w], SinksOfMessage(msg[w])[i])
        /\ wpc[w] = "flush" /\ msg[w].type = "log" =>
               \A i \in 1 .. Len(SinksOfMessage(msg[w])) :
                   /\ Offered(msg[w], SinksOfMessage(msg[w])[i])
                   /\ i < nth[w] => Flushed(msg[w], SinksOfMessage(msg[w])[i])
           IsDone(m) ==
               \A i \in 1 .. Len(SinksOfMessage(m)) :
                   /\ Offered(m, SinksOfMessage(m)[i])
                   /\ should_flush_(m) => Flushed(m, SinksOfMessage(m)[i])
<1>1. LoopInv <=> \A w \in Workers : Loops(w)
  BY DEF LoopInv
<1>2. LoopInv' <=> \A w \in Workers : Loops(w)'
  BY DEF LoopInv
<1>3. ASSUME NEW v \in Workers, wpc'[v] = wpc[v], msg'[v] = msg[v], nth'[v] = nth[v]
      PROVE  Loops(v)'
  <2>1. Loops(v)
    BY <1>1
  <2> QED BY <1>3, <1>g, <2>1, StaysOffered DEF SinksOfMessage, Offered, Flushed, HistoryGrows
<1>4. \A m : IsDone(m) => IsDone(m)'
  BY <1>g DEF SinksOfMessage, Offered, Flushed, HistoryGrows, should_flush_
<1>5. ASSUME done' = done PROVE DoneInv'
  BY <1>4, <1>5 DEF DoneInv
<1>6. ASSUME NEW m, done' = done \cup {m}, m.type = "log" => IsDone(m)' PROVE DoneInv'
  BY <1>4, <1>6 DEF DoneInv
<1>7. ASSUME UNCHANGED <<wpc, msg, nth, done>> PROVE LoopInv' /\ DoneInv'
  BY <1>2, <1>3, <1>5, <1>7
<1>8. ASSUME NEW c \in Clients, Calling(c) \/ Post(c) \/ ReleasePool(c)
      PROVE  LoopInv' /\ DoneInv'
  BY <1>7, <1>8 DEF Calling, Log, Flush, Call, Post, ReleasePool, workerVars, history
<1>9. CASE ReleaseOwner \/ Destroying
  BY <1>7, <1>9 DEF ReleaseOwner, Destroying, PostTerminate, Join, workerVars, history
<1>10. CASE UNCHANGED vars
  BY <1>7, <1>10 DEF vars, workerVars, history
<1>11. ASSUME NEW w \in Workers, TakeMessage(w) PROVE LoopInv' /\ DoneInv'
  <2>1. CASE Head(items).type = "terminate"
    <3>1. /\ wpc' = [wpc EXCEPT ![w] = "exited"] /\ done' = done \cup {Head(items)}
          /\ UNCHANGED <<msg, nth>>
      BY <1>11, <2>1 DEF TakeMessage
    <3>2. wpc'[w] = "exited" /\ \A v \in Workers \ {w} : wpc'[v] = wpc[v]
      BY <1>0, <3>1
    <3>3. \A v \in Workers : Loops(v)'
      BY <1>3, <3>1, <3>2
    <3>4. DoneInv'
      BY <1>6, <2>1, <3>1
    <3> QED BY <1>2, <3>3, <3>4
  <2>2. CASE Head(items).type # "terminate"
    <3>1. /\ msg' = [msg EXCEPT ![w] = Head(items)] /\ nth' = [nth EXCEPT ![w] = 1]
          /\ wpc' = [wpc EXCEPT ![w] = IF Head(items).type = "log" THEN "log" ELSE "flush"]
          /\ done' = done
      BY <1>11, <2>2 DEF TakeMessage
    <3>2. /\ nth'[w] = 1 /\ msg'[w] = Head(items)
          /\ wpc'[w] = "log" \/ msg'[w].type # "log"
          /\ wpc'[w] \in {"log", "flush"}
          /\ \A v \in Workers \ {w} :
                 wpc'[v] = wpc[v] /\ msg'[v] = msg[v] /\ nth'[v] = nth[v]
      BY <1>0, <3>1
    <3>3. \A v \in Workers \ {w} : Loops(v)'
      BY <1>3, <3>2
    <3>4. Loops(w)'
      <4>1. \A i \in Nat : i < 1 => i = 0
        OBVIOUS
      <4>2. wpc'[w] = "log" \/ ~ (wpc'[w] = "flush" /\ msg'[w].type = "log")
        BY <3>2
      <4>3. \A i \in 1 .. Len(SinksOfMessage(msg[w]))' : ~ (i < nth'[w])
        BY <3>2
      <4> QED BY <3>2, <4>2, <4>3
    <3> QED BY <1>2, <1>5, <3>1, <3>3, <3>4
  <2> QED BY <2>1, <2>2
(* One more sink has been offered the message. *)
<1>12. ASSUME NEW w \in Workers, SinkLog(w) PROVE LoopInv' /\ DoneInv'
  <2>0. PICK m, k : m = msg[w] /\ k = nth[w]
    OBVIOUS
  <2> DEFINE s == SinksOfMessage(m)[k]
  <2>1. /\ wpc[w] = "log" /\ UNCHANGED <<wpc, msg, done>>
        /\ nth' = [nth EXCEPT ![w] = @ + 1]
    BY <1>12 DEF SinkLog
  <2>2. Offered(m, s)'
    <3> DEFINE l == SinkLevel[s]
    <3>1. \/ m.level >= l /\ written' = written \cup {<<m.ticket, s>>}
          \/ failed' = failed \cup {<<m.ticket, s>>}
          \/ m.level < l
      BY <1>12, <2>0 DEF SinkLog, SinkThrows, SinksOfMessage
    <3>2. m.level < l => ~ (m.level >= l)
      <4>1. /\ m \in Requests(Nat) /\ m.worker_ptr \in Loggers
            /\ Levels \cup {0} \subseteq Int
        BY <1>0, <2>0, <2>1, RequestFacts, ThreadPoolAssumption DEF TypeOK
      <4>2. m.level \in Int
        BY <4>1 DEF Requests
      <4>3. 1 .. Len(SinksOf[m.worker_ptr]) \subseteq Nat /\ SinksOf[m.worker_ptr] \in Seq(Sinks)
        BY <4>1, ThreadPoolAssumption
      <4>4. k \in 1 .. Len(SinksOf[m.worker_ptr])
        BY <1>0, <1>12, <2>0, <4>3, LenProperties DEF SinkLog, SinksOfMessage
      <4>5. s \in Sinks
        BY <4>3, <4>4, ElementOfSeq DEF SinksOfMessage
      <4>6. l \in Nat
        BY <4>5, ThreadPoolAssumption
      <4> HIDE DEF s, l
      <4> QED BY <4>2, <4>6
    <3> QED BY <3>1, <3>2 DEF Offered, SinksOfMessage
  <2>3. /\ nth'[w] = k + 1 /\ k \in Nat /\ msg'[w] = m
        /\ \A v \in Workers \ {w} : nth'[v] = nth[v]
    BY <1>0, <2>0, <2>1
  <2>4. \A v \in Workers \ {w} : Loops(v)'
    BY <1>3, <2>1, <2>3
  <2>5. ASSUME NEW i \in 1 .. Len(SinksOfMessage(m)), i < k + 1
        PROVE  Offered(m, SinksOfMessage(m)[i])'
    <3>1. i = k \/ i < k
      BY <2>3, <2>5
    <3>2. CASE i = k
      BY <2>2, <3>2
    <3>3. CASE i < k
      <4>1. Offered(m, SinksOfMessage(m)[i])
        BY <1>1, <2>0, <2>1, <3>3
      <4> QED BY <1>g, <4>1 DEF Offered, HistoryGrows, SinksOfMessage
    <3> QED BY <3>1, <3>2, <3>3
  <2>6. Loops(w)'
    BY <2>1, <2>3, <2>5 DEF SinksOfMessage, Offered
  <2> QED BY <1>2, <1>5, <2>1, <2>4, <2>6
<1>13. ASSUME NEW w \in Workers, SinkFlush(w) PROVE LoopInv' /\ DoneInv'
  <2>0. PICK m, k : m = msg[w] /\ k = nth[w]
    OBVIOUS
  <2> DEFINE s == SinksOfMessage(m)[k]
  <2>1. /\ wpc[w] = "flush" /\ UNCHANGED <<wpc, msg, done>>
        /\ nth' = [nth EXCEPT ![w] = @ + 1]
    BY <1>13 DEF SinkFlush
  <2>2. Offered(m, s) => Flushed(m, s)'
    <3>1. CASE flushed' = flushed \cup {x \in written : x[2] = s} /\ failed' = failed
      BY <3>1 DEF Offered, Flushed, SinksOfMessage
    <3>2. CASE SinkThrows(w, s)
      BY <2>0, <3>2 DEF SinkThrows, Flushed, SinksOfMessage
    <3> QED BY <1>13, <2>0, <3>1, <3>2 DEF SinkFlush, SinksOfMessage
  <2>3. /\ nth'[w] = k + 1 /\ k \in Nat \ {0} /\ msg'[w] = m
        /\ \A v \in Workers \ {w} : nth'[v] = nth[v]
    BY <1>0, <2>0, <2>1
  <2>4. \A v \in Workers \ {w} : Loops(v)'
    BY <1>3, <2>1, <2>3
  <2>5. ASSUME NEW i \in 1 .. Len(SinksOfMessage(m)), m.type = "log"
        PROVE  /\ Offered(m, SinksOfMessage(m)[i])'
               /\ i < k + 1 => Flushed(m, SinksOfMessage(m)[i])'
    <3>0. /\ Offered(m, SinksOfMessage(m)[i])
          /\ i < k => Flushed(m, SinksOfMessage(m)[i])
      BY <1>1, <2>0, <2>1, <2>5
    <3>1. i = k \/ i < k \/ ~ (i < k + 1)
      BY <2>3
    <3>2. Offered(m, SinksOfMessage(m)[i])'
      BY <1>g, <3>0 DEF Offered, HistoryGrows, SinksOfMessage
    <3>3. CASE i = k
      BY <2>2, <3>0, <3>2, <3>3
    <3>4. CASE i < k
      BY <1>g, <3>0, <3>2, <3>4 DEF Flushed, HistoryGrows, SinksOfMessage
    <3> QED BY <3>1, <3>2, <3>3, <3>4
  <2>6. Loops(w)'
    BY <2>1, <2>3, <2>5 DEF SinksOfMessage, Offered, Flushed
  <2> QED BY <1>2, <1>5, <2>1, <2>4, <2>6
(* The loop is over: every sink has been offered the message. *)
<1>14. ASSUME NEW w \in Workers, AfterSinks(w) PROVE LoopInv' /\ DoneInv'
  <2>1. /\ wpc[w] = "log" /\ nth' = [nth EXCEPT ![w] = 1]
        /\ nth[w] > Len(SinksOfMessage(msg[w]))
        /\ UNCHANGED <<written, flushed, failed>>
    BY <1>14 DEF AfterSinks
  <2>2. \A i \in 1 .. Len(SinksOfMessage(msg[w])) : i < nth[w]
    <3>1. SinksOfMessage(msg[w]) \in Seq(Sinks)
      BY <1>0, <2>1, RequestFacts, ThreadPoolAssumption DEF SinksOfMessage, TypeOK
    <3>2. Len(SinksOfMessage(msg[w])) \in Nat
      BY <3>1, LenProperties
    <3> QED BY <1>0, <2>1, <3>2
  <2>3. \A i \in 1 .. Len(SinksOfMessage(msg[w])) :
            Offered(msg[w], SinksOfMessage(msg[w])[i])
    BY <1>1, <2>1, <2>2
  <2>4. CASE should_flush_(msg[w])
    <3>1. wpc' = [wpc EXCEPT ![w] = "flush"] /\ UNCHANGED <<msg, done>>
      BY <1>14, <2>4 DEF AfterSinks
    <3>2. /\ wpc'[w] = "flush" /\ nth'[w] = 1
          /\ \A v \in Workers \ {w} : wpc'[v] = wpc[v] /\ nth'[v] = nth[v]
      BY <1>0, <2>1, <3>1
    <3>3. \A v \in Workers \ {w} : Loops(v)'
      BY <1>3, <3>1, <3>2
    <3>4. Loops(w)'
      <4>1. \A i \in 1 .. Len(SinksOfMessage(msg[w])) : ~ (i < nth'[w])
        BY <3>2
      <4> QED BY <2>1, <2>3, <3>1, <3>2, <4>1 DEF SinksOfMessage, Offered
    <3> QED BY <1>2, <1>5, <3>1, <3>3, <3>4
  <2>5. CASE ~ should_flush_(msg[w])
    <3>1. /\ wpc' = [wpc EXCEPT ![w] = "dequeue"] /\ msg' = [msg EXCEPT ![w] = NoMessage]
          /\ done' = done \cup {msg[w]}
      BY <1>14, <2>5 DEF AfterSinks
    <3>2. /\ wpc'[w] = "dequeue"
          /\ \A v \in Workers \ {w} :
                 wpc'[v] = wpc[v] /\ msg'[v] = msg[v] /\ nth'[v] = nth[v]
      BY <1>0, <2>1, <3>1
    <3>3. \A v \in Workers : Loops(v)'
      BY <1>3, <3>2
    <3>4. PICK m : m = msg[w]
      OBVIOUS
    <3>5. IsDone(m)'
      BY <2>1, <2>3, <2>5, <3>4 DEF SinksOfMessage, Offered, should_flush_
    <3>6. DoneInv'
      BY <1>6, <3>1, <3>4, <3>5
    <3> QED BY <1>2, <3>3, <3>6
  <2> QED BY <2>4, <2>5
<1>15. ASSUME NEW w \in Workers, AfterFlush(w) PROVE LoopInv' /\ DoneInv'
  <2>1. /\ wpc[w] = "flush" /\ nth' = [nth EXCEPT ![w] = 1]
        /\ nth[w] > Len(SinksOfMessage(msg[w]))
        /\ UNCHANGED <<written, flushed, failed>>
        /\ wpc' = [wpc EXCEPT ![w] = "dequeue"] /\ msg' = [msg EXCEPT ![w] = NoMessage]
        /\ done' = done \cup {msg[w]}
    BY <1>15 DEF AfterFlush
  <2>2. \A i \in 1 .. Len(SinksOfMessage(msg[w])) : i < nth[w]
    <3>1. SinksOfMessage(msg[w]) \in Seq(Sinks)
      BY <1>0, <2>1, RequestFacts, ThreadPoolAssumption DEF SinksOfMessage, TypeOK
    <3>2. Len(SinksOfMessage(msg[w])) \in Nat
      BY <3>1, LenProperties
    <3> QED BY <1>0, <2>1, <3>2
  <2>3. msg[w].type = "log" =>
            \A i \in 1 .. Len(SinksOfMessage(msg[w])) :
                /\ Offered(msg[w], SinksOfMessage(msg[w])[i])
                /\ Flushed(msg[w], SinksOfMessage(msg[w])[i])
    BY <1>1, <2>1, <2>2
  <2>4. /\ wpc'[w] = "dequeue"
        /\ \A v \in Workers \ {w} :
               wpc'[v] = wpc[v] /\ msg'[v] = msg[v] /\ nth'[v] = nth[v]
    BY <1>0, <2>1
  <2>5. \A v \in Workers : Loops(v)'
    BY <1>3, <2>4
  <2>6. PICK m : m = msg[w]
    OBVIOUS
  <2>7. m.type = "log" => IsDone(m)'
    BY <2>1, <2>3, <2>6 DEF SinksOfMessage, Offered, Flushed
  <2>8. DoneInv'
    BY <1>6, <2>1, <2>6, <2>7
  <2> QED BY <1>2, <2>5, <2>8
<1> QED BY <1>8, <1>9, <1>10, <1>11, <1>12, <1>13, <1>14, <1>15 DEF Next, Working, Stopped

(* A message that a worker has finished with has reached every sink that    *)
(* takes its level and did not throw, and was flushed there if its level   *)
(* asks for it (async_logger-inl.h:55-85).                                 *)
THEOREM EverySinkIsServed == Spec => []DeliveredToEverySink
<1>1. Init => LoopInv /\ DoneInv
  BY DEF Init, LoopInv, DoneInv
<1>2. DoneInv => DeliveredToEverySink
  BY DEF DoneInv, DeliveredToEverySink, Offered, Flushed
<1> QED BY <1>1, <1>2, DeliveryStep, TypeCorrect, PTL DEF Spec

-----------------------------------------------------------------------------
(* A pool with one worker: it has finished with what came before the       *)
(* message in its hands.                                                   *)
OneWorker == Cardinality(Workers) = 1

InHandLast ==
    \A w \in Workers : Busy(w) => \A m \in done : m.ticket < msg[w].ticket

(* What a flush request must cover in sink s, for a worker that is there.  *)
Covers(f, s) ==
    \A x \in written :
        x[1] < f.ticket /\ x[2] = s /\ <<f.ticket, s>> \notin failed => x \in flushed

FlushInv ==
    /\ InHandLast
    /\ \A f \in done : f.type = "flush" =>
           \A i \in 1 .. Len(SinksOfMessage(f)) : Covers(f, SinksOfMessage(f)[i])
    /\ \A w \in Workers : wpc[w] = "flush" =>
           \A i \in 1 .. Len(SinksOfMessage(msg[w])) :
               i < nth[w] => Covers(msg[w], SinksOfMessage(msg[w])[i])
    /\ \A w \in Workers : wpc[w] = "log" => msg[w].type = "log"

(* One worker is all there are. *)
LEMMA OnlyOne == ASSUME OneWorker PROVE \A v, w \in Workers : v = w
  BY FS_Singleton, NumberFacts DEF OneWorker

(* A finished message is newer than those finished before.                 *)
LEMMA DoneInOrder ==
    ASSUME TypeOK, Order, InHandLast, [Next]_vars
    PROVE  \A new \in done' \ done, old \in done : old.ticket < new.ticket
<1>1. ASSUME NEW w \in Workers, Finish(w)
      PROVE  \A new \in done' \ done, old \in done : old.ticket < new.ticket
  BY <1>1 DEF Finish, InHandLast
<1>2. ASSUME NEW w \in Workers, TakeMessage(w)
      PROVE  \A new \in done' \ done, old \in done : old.ticket < new.ticket
  <2>1. done' \subseteq done \cup {items[1]} /\ 1 \in 1 .. Len(items)
    BY <1>2, TakeMoves DEF Queued
  <2> QED BY <2>1 DEF Order, LeftEarlier, Settled
<1>3. \A c \in Clients : Post(c) => done' = done
  BY DEF Post, history
<1>4. (Quiet \/ PostTerminate \/ Join) => done' = done
  BY DEF Quiet, PostTerminate, Join, history
<1>5. \A w \in Workers : GoFlush(w) => done' = done
  BY DEF GoFlush
<1> QED BY <1>1, <1>2, <1>3, <1>4, <1>5, Steps

(* Every step keeps what a flush has covered. *)
LEMMA FlushStep ==
    ASSUME OneWorker
    PROVE  TypeOK /\ Order /\ FlushInv /\ [Next]_vars => FlushInv'
<1> SUFFICES ASSUME TypeOK, Order, FlushInv, [Next]_vars PROVE FlushInv'
  OBVIOUS
<1>0. /\ wpc \in [Workers -> {"dequeue", "log", "flush", "exited"}]
      /\ msg \in [Workers -> Requests(Nat) \cup {NoMessage}]
      /\ nth \in [Workers -> Nat \ {0}]
      /\ \A m \in done : m.ticket \in Nat
      /\ \A v, w \in Workers : v = w
  BY OnlyOne, RequestFacts DEF TypeOK
<1> DEFINE DoneCovers(f) ==
               \A i \in 1 .. Len(SinksOfMessage(f)) : Covers(f, SinksOfMessage(f)[i])
           Loop(w) ==
               wpc[w] = "flush" =>
                   \A i \in 1 .. Len(SinksOfMessage(msg[w])) :
                       i < nth[w] => Covers(msg[w], SinksOfMessage(msg[w])[i])
(* Nothing but the logging of a sink adds to what must be covered.         *)
<1>1. ASSUME written' = written, flushed \subseteq flushed', failed \subseteq failed'
      PROVE  /\ \A f, s : Covers(f, s) => Covers(f, s)'
             /\ \A f : DoneCovers(f) => DoneCovers(f)'
  BY <1>1 DEF Covers, SinksOfMessage
<1>2. ASSUME UNCHANGED <<wpc, msg, nth, done, written, flushed, failed>>
      PROVE  FlushInv'
  BY <1>2 DEF FlushInv, InHandLast, Busy, Covers, SinksOfMessage
<1>3. ASSUME NEW c \in Clients, Calling(c) \/ Post(c) \/ ReleasePool(c) PROVE FlushInv'
  BY <1>2, <1>3 DEF Calling, Log, Flush, Call, Post, ReleasePool, workerVars, history
<1>4. CASE ReleaseOwner \/ Destroying
  BY <1>2, <1>4 DEF ReleaseOwner, Destroying, PostTerminate, Join, workerVars, history
<1>5. CASE UNCHANGED vars
  BY <1>2, <1>5 DEF vars, workerVars, history
<1>6. ASSUME NEW w \in Workers, TakeMessage(w) PROVE FlushInv'
  <2>1. /\ UNCHANGED <<written, flushed, failed>> /\ wpc[w] = "dequeue"
        /\ Head(items) = items[1] /\ 1 \in 1 .. Len(items) /\ items[1] \in Messages
    <3>1. items \in Seq(Messages) /\ Dequeue
      BY <1>6 DEF TakeMessage, TypeOK
    <3>2. Head(items) = items[1]
      BY <3>1, DequeueFacts
    <3> QED BY <1>6, <3>2, TakeMoves DEF TakeMessage, Queued
  <2>2. \A m \in done : m.ticket < items[1].ticket
    BY <2>1 DEF Order, LeftEarlier, Settled
  <2>3. CASE items[1].type = "terminate"
    <3>1. wpc' = [wpc EXCEPT ![w] = "exited"] /\ done' = done \cup {items[1]}
      BY <1>6, <2>3, TakeMoves
    <3>2. \A v \in Workers : wpc'[v] = "exited"
      BY <1>0, <3>1
    <3>3. \A f \in done' : f.type = "flush" => DoneCovers(f)'
      BY <1>1, <2>1, <2>3, <3>1 DEF FlushInv
    <3> QED BY <3>2, <3>3 DEF FlushInv, InHandLast, Busy
  <2>4. CASE items[1].type # "terminate"
    <3>1. /\ msg' = [msg EXCEPT ![w] = items[1]] /\ done' = done
          /\ nth' = [nth EXCEPT ![w] = 1]
          /\ wpc' = [wpc EXCEPT ![w] = IF items[1].type = "log" THEN "log" ELSE "flush"]
      BY <1>6, <2>1, <2>4 DEF TakeMessage
    <3>2. \A v \in Workers : /\ msg'[v] = items[1] /\ nth'[v] = 1
                             /\ wpc'[v] = "log" => msg'[v].type = "log"
      BY <1>0, <3>1
    <3>3. \A f \in done' : f.type = "flush" => DoneCovers(f)'
      BY <1>1, <2>1, <3>1 DEF FlushInv
    <3>4. InHandLast'
      BY <2>2, <3>1, <3>2 DEF InHandLast
    <3>5. \A v \in Workers, i \in Nat : i < nth'[v] => i = 0
      BY <3>2
    <3>6. \A v \in Workers : \A i \in 1 .. Len(SinksOfMessage(msg[v]))' : ~ (i < nth'[v])
      BY <3>2
    <3> QED BY <3>2, <3>3, <3>4, <3>6 DEF FlushInv
  <2> QED BY <2>3, <2>4
(* What is written now comes after every flush that is done.               *)
<1>7. ASSUME NEW w \in Workers, SinkLog(w) PROVE FlushInv'
  <2>1. PICK s : /\ written' \subseteq written \cup {<<msg[w].ticket, s>>}
                 /\ failed \subseteq failed'
    BY <1>7 DEF SinkLog, SinkThrows
  <2>2. /\ wpc[w] = "log" /\ UNCHANGED <<wpc, msg, done, flushed>>
    BY <1>7 DEF SinkLog
  <2>3. \A f \in done : f.ticket < msg[w].ticket /\ f.ticket \in Nat
    BY <1>0, <2>2 DEF FlushInv, InHandLast, Busy
  <2>4. msg[w].ticket \in Nat
    BY <1>0, <2>2, RequestFacts DEF TypeOK
  <2>5. ASSUME NEW f \in done, NEW z, Covers(f, z) PROVE Covers(f, z)'
    <3>1. f.ticket < msg[w].ticket /\ f.ticket \in Nat
      BY <2>3
    <3>2. ~ (msg[w].ticket < f.ticket)
      BY <2>4, <3>1
    <3>3. ASSUME NEW x \in written', x[1] < f.ticket PROVE x \in written
      BY <2>1, <3>2, <3>3
    <3> QED BY <2>1, <2>2, <2>5, <3>3 DEF Covers
  <2>6. \A f \in done' : f.type = "flush" => DoneCovers(f)'
    BY <2>2, <2>5 DEF FlushInv, SinksOfMessage
  <2>7. \A v \in Workers : wpc'[v] = "log" /\ msg'[v].type = "log"
    BY <1>0, <2>2 DEF FlushInv
  <2>8. InHandLast'
    BY <2>2 DEF FlushInv, InHandLast, Busy
  <2> QED BY <2>6, <2>7, <2>8 DEF FlushInv
<1>8. ASSUME NEW w \in Workers, SinkFlush(w) PROVE FlushInv'
  <2>0. PICK f, k : f = msg[w] /\ k = nth[w]
    OBVIOUS
  <2> DEFINE s == SinksOfMessage(f)[k]
  <2>1. /\ wpc[w] = "flush" /\ UNCHANGED <<wpc, msg, done, written>>
        /\ nth' = [nth EXCEPT ![w] = @ + 1]
        /\ \/ flushed' = flushed \cup {x \in written : x[2] = s} /\ failed' = failed
           \/ failed' = failed \cup {<<f.ticket, s>>} /\ flushed' = flushed
    BY <1>8, <2>0 DEF SinkFlush, SinkThrows, SinksOfMessage
  <2>2. flushed \subseteq flushed' /\ failed \subseteq failed'
    BY <2>1
  <2>3. Covers(f, s)'
    BY <2>1 DEF Covers, SinksOfMessage
  <2>4. \A v \in Workers : v = w /\ nth'[v] = k + 1 /\ k \in Nat /\ msg'[v] = f
    BY <1>0, <2>0, <2>1
  <2>5. ASSUME NEW i \in 1 .. Len(SinksOfMessage(f)), i < k + 1
        PROVE  Covers(f, SinksOfMessage(f)[i])'
    <3>1. i = k \/ i < k
      BY <2>4, <2>5
    <3>2. CASE i = k
      BY <2>3, <3>2
    <3>3. CASE i < k
      <4>1. Covers(f, SinksOfMessage(f)[i])
        BY <2>0, <2>1, <3>3 DEF FlushInv
      <4> QED BY <1>1, <2>1, <2>2, <4>1 DEF Covers, SinksOfMessage
    <3> QED BY <3>1, <3>2, <3>3
  <2>6. \A v \in Workers : Loop(v)'
    BY <2>1, <2>4, <2>5 DEF SinksOfMessage, Covers
  <2>7. \A g \in done' : g.type = "flush" => DoneCovers(g)'
    BY <1>1, <2>1, <2>2 DEF FlushInv
  <2>8. InHandLast' /\ \A v \in Workers : wpc'[v] = "log" => msg'[v].type = "log"
    BY <2>1 DEF FlushInv, InHandLast, Busy
  <2> QED BY <2>6, <2>7, <2>8 DEF FlushInv
<1>9. ASSUME NEW w \in Workers, AfterSinks(w) PROVE FlushInv'
  <2>1. /\ wpc[w] = "log" /\ nth' = [nth EXCEPT ![w] = 1]
        /\ UNCHANGED <<written, flushed, failed>>
    BY <1>9 DEF AfterSinks
  <2>2. msg[w].type = "log"
    BY <2>1 DEF FlushInv
  <2>3. CASE should_flush_(msg[w])
    <3>1. wpc' = [wpc EXCEPT ![w] = "flush"] /\ UNCHANGED <<msg, done>>
      BY <1>9, <2>3 DEF AfterSinks
    <3>2. \A v \in Workers : v = w /\ wpc'[v] = "flush" /\ nth'[v] = 1
      BY <1>0, <2>1, <3>1
    <3>3. \A v \in Workers : \A i \in 1 .. Len(SinksOfMessage(msg[v]))' : ~ (i < nth'[v])
      BY <3>2
    <3>4. \A f \in done' : f.type = "flush" => DoneCovers(f)'
      BY <1>1, <2>1, <3>1 DEF FlushInv
    <3>5. InHandLast'
      BY <2>1, <3>1, <3>2 DEF FlushInv, InHandLast, Busy
    <3> QED BY <3>2, <3>3, <3>4, <3>5 DEF FlushInv
  <2>4. CASE ~ should_flush_(msg[w])
    <3>1. /\ wpc' = [wpc EXCEPT ![w] = "dequeue"] /\ done' = done \cup {msg[w]}
      BY <1>9, <2>4 DEF AfterSinks
    <3>2. \A v \in Workers : wpc'[v] = "dequeue"
      BY <1>0, <3>1
    <3>3. \A f \in done' : f.type = "flush" => DoneCovers(f)'
      BY <1>1, <2>1, <2>2, <3>1 DEF FlushInv
    <3> QED BY <3>2, <3>3 DEF FlushInv, InHandLast, Busy
  <2> QED BY <2>3, <2>4
(* The flush is over: every sink has been covered.                         *)
<1>10. ASSUME NEW w \in Workers, AfterFlush(w) PROVE FlushInv'
  <2>1. /\ wpc[w] = "flush" /\ nth[w] > Len(SinksOfMessage(msg[w]))
        /\ UNCHANGED <<written, flushed, failed>>
        /\ wpc' = [wpc EXCEPT ![w] = "dequeue"] /\ done' = done \cup {msg[w]}
    BY <1>10 DEF AfterFlush
  <2>2. \A i \in 1 .. Len(SinksOfMessage(msg[w])) : i < nth[w]
    <3>1. SinksOfMessage(msg[w]) \in Seq(Sinks)
      BY <1>0, <2>1, RequestFacts, ThreadPoolAssumption DEF SinksOfMessage, TypeOK
    <3>2. Len(SinksOfMessage(msg[w])) \in Nat
      BY <3>1, LenProperties
    <3> QED BY <1>0, <2>1, <3>2
  <2>3. PICK f : f = msg[w]
    OBVIOUS
  <2>4. DoneCovers(f)
    BY <2>1, <2>2, <2>3 DEF FlushInv
  <2>5. \A g \in done' : g.type = "flush" => DoneCovers(g)'
    BY <1>1, <2>1, <2>3, <2>4 DEF FlushInv
  <2>6. \A v \in Workers : wpc'[v] = "dequeue"
    BY <1>0, <2>1
  <2> QED BY <2>5, <2>6 DEF FlushInv, InHandLast, Busy
<1> QED BY <1>3, <1>4, <1>5, <1>6, <1>7, <1>8, <1>9, <1>10 DEF Next, Working, Stopped

(* It holds in every reachable state of a pool with one worker. *)
LEMMA FlushInvHolds == OneWorker => (Spec => []FlushInv)
<1> SUFFICES ASSUME OneWorker PROVE Spec => []FlushInv
  OBVIOUS
<1>1. Init => FlushInv
  BY DEF Init, FlushInv, InHandLast, Busy
<1>2. Inv /\ FlushInv /\ [Next]_vars => FlushInv'
  BY FlushStep DEF Inv
<1> QED BY <1>1, <1>2, InvHolds, PTL DEF Spec

(* A single worker finishes with messages in the order in which they were  *)
(* accepted (thread_pool-inl.h:97-122 with the default thread count, 1).   *)
THEOREM OneWorkerKeepsOrder == OneWorker => (Spec => SingleWorkerInOrder)
<1> SUFFICES ASSUME OneWorker PROVE Spec => SingleWorkerInOrder
  OBVIOUS
<1>1. Inv /\ FlushInv /\ [Next]_vars =>
          [\A new \in done' \ done, old \in done : old.ticket < new.ticket]_vars
  BY DoneInOrder DEF Inv, FlushInv
<1> QED BY <1>1, InvHolds, FlushInvHolds, PTL DEF Spec, SingleWorkerInOrder

(* With a single worker a flush request covers what its logger accepted    *)
(* before it, in every sink (async_logger-inl.h:40-47,78-85).              *)
THEOREM OneWorkerFlushes == OneWorker => (Spec => []FlushCoversEarlier)
<1> SUFFICES ASSUME OneWorker PROVE Spec => []FlushCoversEarlier
  OBVIOUS
<1>1. Inv /\ FlushInv => FlushCoversEarlier
  <2> SUFFICES ASSUME Inv, FlushInv, NEW f \in done, NEW m \in Everything,
                      f.type = "flush", m.ticket < f.ticket
               PROVE  /\ m \in Settled
                      /\ \A i \in 1 .. Len(SinksOfMessage(f)) :
                            LET s == SinksOfMessage(f)[i]
                            IN  <<m.ticket, s>> \in written /\ <<f.ticket, s>> \notin failed
                                    => <<m.ticket, s>> \in flushed
    BY DEF FlushCoversEarlier
  <2>1. f \in Everything /\ f.ticket \in Nat /\ m.ticket \in Nat
    BY TicketsKnown DEF Inv, Everything, Settled
  <2>2. m \notin Queued
    <3>1. \A x \in Queued : f.ticket < x.ticket
      BY DEF Inv, Order, LeftEarlier, Settled, Queued
    <3> QED BY <2>1, <3>1
  <2>3. m \notin InHand
    <3>1. \A x \in InHand : f.ticket < x.ticket
      BY DEF FlushInv, InHandLast, InHand, Busy
    <3> QED BY <2>1, <3>1
  <2>4. m \in Settled
    BY <2>2, <2>3 DEF Everything
  <2>5. ASSUME NEW i \in 1 .. Len(SinksOfMessage(f))
        PROVE  LET s == SinksOfMessage(f)[i]
               IN  <<m.ticket, s>> \in written /\ <<f.ticket, s>> \notin failed
                       => <<m.ticket, s>> \in flushed
    <3>1. Covers(f, SinksOfMessage(f)[i])
      BY DEF FlushInv
    <3> QED BY <3>1 DEF Covers
  <2> QED BY <2>4, <2>5
<1> QED BY <1>1, InvHolds, FlushInvHolds, PTL

-----------------------------------------------------------------------------
(* No terminate message has been posted, and the pool is still there.      *)
Undestroyed == terminates = 0 /\ pool \in {"alive", "stopping"}

(* A queue without places takes nothing that waits for room.               *)
LEMMA NoRoom == ASSUME QMaxItems = 0, TypeOK PROVE ~HasRoom
<1>1. Len(items) \in Nat
  BY LenProperties DEF TypeOK
<1> QED BY <1>1 DEF HasRoom

(* The destructor of a pool whose queue was constructed without a place    *)
(* never returns: its first terminate message waits for ever, whatever the *)
(* loggers do (thread_pool-inl.h:37-53; the constructor checks the number  *)
(* of threads only, thread_pool-inl.h:19-23).                              *)
THEOREM NoPlaceNoEnd == QMaxItems = 0 => (Spec => [](pool # "destroyed"))
<1> SUFFICES ASSUME QMaxItems = 0 PROVE Spec => [](pool # "destroyed")
  OBVIOUS
<1>1. Init => Undestroyed
  BY DEF Init, Undestroyed
<1>2. TypeOK /\ Undestroyed /\ [Next]_vars => Undestroyed'
  <2> SUFFICES ASSUME TypeOK, Undestroyed, [Next]_vars PROVE Undestroyed'
    OBVIOUS
  <2>1. ~PostTerminate
    BY NoRoom DEF PostTerminate, Enqueue
  <2>2. ~Join
    <3>1. Cardinality(Workers) # 0
      <4>1. PICK n : n = Cardinality(Workers)
        OBVIOUS
      <4>2. n \in 1 .. 1000
        BY <4>1, ThreadPoolAssumption
      <4>3. n # 0
        BY <4>2
      <4> QED BY <4>1, <4>3
    <3> QED BY <3>1 DEF Join, Undestroyed
  <2>3. CASE Destroying
    BY <2>1, <2>2, <2>3 DEF Destroying
  <2>4. ASSUME NEW c \in Clients, Calling(c) \/ Post(c) PROVE UNCHANGED poolVars
    BY <2>4 DEF Calling, Log, Flush, Call, Post
  <2>5. ASSUME NEW c \in Clients, ReleasePool(c) PROVE Undestroyed'
    BY <2>5 DEF ReleasePool, Undestroyed, poolVars
  <2>6. CASE ReleaseOwner
    BY <2>6 DEF ReleaseOwner, Undestroyed
  <2>7. ASSUME NEW w \in Workers, Working(w) PROVE UNCHANGED poolVars
    BY <2>7 DEF Working, TakeMessage, SinkLog, AfterSinks, SinkFlush, AfterFlush
  <2>8. CASE Stopped \/ UNCHANGED vars
    BY <2>8 DEF Stopped, vars, poolVars, Undestroyed
  <2> QED BY <2>3, <2>4, <2>5, <2>6, <2>7, <2>8 DEF Next, Undestroyed, poolVars
<1>3. Undestroyed => pool # "destroyed"
  BY DEF Undestroyed
<1> QED BY <1>1, <1>2, <1>3, TypeCorrect, PTL DEF Spec
=============================================================================
