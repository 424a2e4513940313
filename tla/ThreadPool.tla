----------------------------- MODULE ThreadPool ----------------------------
(***************************************************************************)
(* The asynchronous pipeline: async_logger (async_logger-inl.h) posting to *)
(* thread_pool (details/thread_pool-inl.h) over the message queue, whose   *)
(* calls are atomic because MpmcQueue implements MessageQueue.             *)
(*                                                                         *)
(* Clients call log() and flush() on loggers.  A logger has only a weak    *)
(* reference to the pool: a call locks it, and while it posts it is one of *)
(* the pool's owners.  The pool is destroyed by whoever gives up the last  *)
(* strong reference, be it the registry or a client that has just posted.  *)
(* The destructor posts one terminate message for each worker with the     *)
(* blocking policy, joins the workers and then destroys the queue.         *)
(*                                                                         *)
(* Every message in the queue owns its logger.  A message is given a       *)
(* ticket when it enters the queue, which orders the messages and tells    *)
(* them apart.  done, dropped, written, flushed and failed are a record of *)
(* what became of them; the program keeps no such state.                   *)
(***************************************************************************)
EXTENDS MessageQueue, FiniteSets

CONSTANTS
    Clients,        \* threads that log
    Workers,        \* the threads of the pool, 1 to 1000 of them
    Loggers,
    Sinks,
    Policy,         \* overflow_policy_ of each logger: "block" or "overrun_oldest"
    SinksOf,        \* sinks_ of each logger, in order
    SinkLevel,      \* the level of each sink
    FlushLevel,     \* flush_level_ of each logger
    Levels,         \* message levels
    Handles,        \* the loggers that each client uses
    NoLogger, Nobody,
    Owner,          \* stands for the registry's (or the user's) thread
    MaxCalls,       \* bound: calls made by each client
    MaxFailures     \* bound: exceptions thrown by sinks

ASSUME ThreadPoolAssumption ==
    /\ IsFiniteSet(Workers) /\ Cardinality(Workers) \in 1 .. 1000
    /\ Policy \in [Loggers -> {"block", "overrun_oldest"}]
    /\ SinksOf \in [Loggers -> Seq(Sinks)]
    /\ SinkLevel \in [Sinks -> Nat] /\ FlushLevel \in [Loggers -> Nat]
    /\ Levels \subseteq 0 .. 6
    /\ Handles \in [Clients -> SUBSET Loggers]
    /\ NoLogger \notin Loggers
    /\ Owner \notin Clients /\ Nobody \notin Clients \cup {Owner}
    /\ MaxCalls \in Nat /\ MaxFailures \in Nat

(* async_msg.  A flush or terminate message has the level of a             *)
(* default-constructed log_msg, which nobody reads: 0.                     *)
Requests(tickets) ==
    [type : {"log", "flush"}, worker_ptr : Loggers, level : Levels \cup {0},
     ticket : tickets]

Messages ==
    Requests(Nat) \cup
    [type : {"terminate"}, worker_ptr : {NoLogger}, level : {0}, ticket : Nat]

ASSUME MessagesAssumption == NoItem \notin Messages

VARIABLES
    owner,          \* TRUE while the registry holds a strong reference
    pool,           \* "alive", "stopping" (in ~thread_pool) or "destroyed"
    destroyer,      \* the thread that runs ~thread_pool
    terminates,     \* terminate messages it has posted
    pc, call,       \* where each client is, and what it is posting
    calls,          \* calls made so far by each client
    wpc, msg, nth,  \* where each worker is, its message, its place in sinks_
    accepted,       \* messages that have entered the queue
    done,           \* messages that a worker has finished with
    dropped,        \* messages that were overrun
    written,        \* <<ticket, sink>>: the sink has the message
    flushed,        \* <<ticket, sink>>: and has flushed it
    failed          \* <<ticket, sink>>: the sink threw on it

poolVars == <<owner, pool, destroyer, terminates>>
clientVars == <<pc, call, calls>>
workerVars == <<wpc, msg, nth>>
history == <<done, written, flushed, failed>>
vars == <<queueVars, poolVars, clientVars, workerVars, accepted, dropped, history>>

NoMessage == [type |-> "none", worker_ptr |-> NoLogger, level |-> 0, ticket |-> 0]

Init ==
    /\ QueueInit
    /\ owner = TRUE /\ pool = "alive" /\ destroyer = Nobody /\ terminates = 0
    /\ pc = [c \in Clients |-> "idle"]
    /\ call = [c \in Clients |-> NoMessage]
    /\ calls = [c \in Clients |-> 0]
    /\ wpc = [w \in Workers |-> "dequeue"]
    /\ msg = [w \in Workers |-> NoMessage]
    /\ nth = [w \in Workers |-> 1]
    /\ accepted = 0 /\ done = {} /\ dropped = {}
    /\ written = {} /\ flushed = {} /\ failed = {}

-----------------------------------------------------------------------------
(* The clients that have locked their weak_ptr: owners of the pool. *)
Posting == {c \in Clients : pc[c] \in {"post", "release"}}

(* sink_it_ or flush_: the weak_ptr can be locked until the last strong    *)
(* reference is gone; after that the call throws and posts nothing.        *)
Call(c, m) ==
    /\ pc[c] = "idle" /\ calls[c] < MaxCalls
    /\ m.worker_ptr \in Handles[c]
    /\ calls' = [calls EXCEPT ![c] = @ + 1]
    /\ IF pool = "alive"
       THEN pc' = [pc EXCEPT ![c] = "post"] /\ call' = [call EXCEPT ![c] = m]
       ELSE UNCHANGED <<pc, call>>
    /\ UNCHANGED <<queueVars, poolVars, workerVars, accepted, dropped, history>>

Log(c, l, level) ==
    Call(c, [type |-> "log", worker_ptr |-> l, level |-> level, ticket |-> 0])

Flush(c, l) ==
    Call(c, [type |-> "flush", worker_ptr |-> l, level |-> 0, ticket |-> 0])

(* The message as it enters the queue. *)
Ticketed(m) ==
    [type |-> m.type, worker_ptr |-> m.worker_ptr, level |-> m.level,
     ticket |-> accepted + 1]

(* What the queue gave up when it overran. *)
RecordDrop ==
    dropped' = IF overruns' # overruns THEN dropped \cup {leftover'} ELSE dropped

(* post_log, post_flush: post_async_msg_ with the policy of the logger.    *)
(* With the blocking policy the client waits here until there is room.     *)
Post(c) ==
    /\ pc[c] = "post"
    /\ LET m == Ticketed(call[c])
       IN  IF Policy[m.worker_ptr] = "block" THEN Enqueue(m) ELSE EnqueueNowait(m)
    /\ RecordDrop
    /\ accepted' = accepted + 1
    /\ pc' = [pc EXCEPT ![c] = "release"]
    /\ call' = [call EXCEPT ![c] = NoMessage]
    /\ UNCHANGED <<poolVars, calls, workerVars, history>>

(* pool_ptr goes out of scope: if it was the last strong reference, this   *)
(* client runs the destructor before its call returns.                     *)
ReleasePool(c) ==
    /\ pc[c] = "release"
    /\ IF owner \/ Posting # {c}
       THEN pc' = [pc EXCEPT ![c] = "idle"] /\ UNCHANGED poolVars
       ELSE /\ pc' = [pc EXCEPT ![c] = "destroy"]
            /\ pool' = "stopping" /\ destroyer' = c
            /\ UNCHANGED <<owner, terminates>>
    /\ UNCHANGED <<queueVars, call, calls, workerVars, accepted, dropped, history>>

(* Fault: loggers hold a plain pointer, so that a post in progress does not *)
(* keep the pool alive.                                                     *)
ReleaseOwner_raw_pointer ==
    /\ owner
    /\ owner' = FALSE /\ pool' = "stopping" /\ destroyer' = Owner
    /\ UNCHANGED <<queueVars, terminates, clientVars, workerVars, accepted, dropped, history>>

(* The registry lets go of the pool (shutdown, or another pool is set). *)
ReleaseOwner ==
    /\ owner
    /\ owner' = FALSE
    /\ IF Posting = {} THEN pool' = "stopping" /\ destroyer' = Owner
                       ELSE UNCHANGED <<pool, destroyer>>
    /\ UNCHANGED <<queueVars, terminates, clientVars, workerVars, accepted, dropped, history>>

-----------------------------------------------------------------------------
(* Faults: the terminate messages are posted with overrun_oldest; one of   *)
(* them is posted too few.                                                 *)
PostTerminate_nowait ==
    /\ pool = "stopping" /\ terminates < Cardinality(Workers)
    /\ EnqueueNowait([type |-> "terminate", worker_ptr |-> NoLogger, level |-> 0,
                      ticket |-> accepted + 1])
    /\ RecordDrop
    /\ accepted' = accepted + 1
    /\ terminates' = terminates + 1
    /\ UNCHANGED <<owner, pool, destroyer, clientVars, workerVars, history>>

PostTerminate_one_too_few ==
    /\ pool = "stopping" /\ terminates < Cardinality(Workers) - 1
    /\ Enqueue([type |-> "terminate", worker_ptr |-> NoLogger, level |-> 0,
                ticket |-> accepted + 1])
    /\ accepted' = accepted + 1
    /\ terminates' = terminates + 1
    /\ UNCHANGED <<owner, pool, destroyer, clientVars, workerVars, dropped, history>>

(* ~thread_pool: one terminate message for each worker, blocking. *)
PostTerminate ==
    /\ pool = "stopping" /\ terminates < Cardinality(Workers)
    /\ Enqueue([type |-> "terminate", worker_ptr |-> NoLogger, level |-> 0,
                ticket |-> accepted + 1])
    /\ accepted' = accepted + 1
    /\ terminates' = terminates + 1
    /\ UNCHANGED <<owner, pool, destroyer, clientVars, workerVars, dropped, history>>

(* Fault: the workers are detached instead of joined. *)
Join_without_waiting ==
    /\ pool = "stopping" /\ terminates = Cardinality(Workers)
    /\ pool' = "destroyed"
    /\ items' = <<>> /\ leftover' = NoItem
    /\ pc' = [c \in Clients |-> IF c = destroyer THEN "idle" ELSE pc[c]]
    /\ UNCHANGED <<overruns, owner, destroyer, terminates, call, calls,
                   workerVars, accepted, dropped, history>>

(* join returns for every worker, and the members are destroyed: whatever  *)
(* the queue still owns goes with it.                                      *)
Join ==
    /\ pool = "stopping" /\ terminates = Cardinality(Workers)
    /\ \A w \in Workers : wpc[w] = "exited"
    /\ pool' = "destroyed"
    /\ items' = <<>> /\ leftover' = NoItem
    /\ pc' = [c \in Clients |-> IF c = destroyer THEN "idle" ELSE pc[c]]
    /\ UNCHANGED <<overruns, owner, destroyer, terminates, call, calls,
                   workerVars, accepted, dropped, history>>

-----------------------------------------------------------------------------
(* Faults: the message is copied out and stays in the queue; a worker that *)
(* meets a flush message leaves the loop.                                  *)
TakeMessage_without_pop(w) ==
    /\ wpc[w] = "dequeue" /\ items # <<>>
    /\ Head(items).type # "terminate"
    /\ wpc' = [wpc EXCEPT ![w] = Head(items).type]
    /\ msg' = [msg EXCEPT ![w] = Head(items)]
    /\ nth' = [nth EXCEPT ![w] = 1]
    /\ UNCHANGED <<queueVars, poolVars, clientVars, accepted, dropped, history>>

TakeMessage_stops_on_flush(w) ==
    /\ wpc[w] = "dequeue" /\ Dequeue
    /\ IF Head(items).type = "log"
       THEN /\ wpc' = [wpc EXCEPT ![w] = "log"]
            /\ msg' = [msg EXCEPT ![w] = Head(items)]
            /\ nth' = [nth EXCEPT ![w] = 1]
            /\ UNCHANGED done
       ELSE /\ wpc' = [wpc EXCEPT ![w] = "exited"]
            /\ done' = done \cup {Head(items)}
            /\ UNCHANGED <<msg, nth>>
    /\ UNCHANGED <<poolVars, clientVars, accepted, dropped, written, flushed, failed>>

(* process_next_msg_: dequeue and branch on the type.  A dequeue that      *)
(* times out changes nothing and the loop goes round.                      *)
TakeMessage(w) ==
    /\ wpc[w] = "dequeue"
    /\ items # <<>>
    /\ Dequeue
    /\ LET m == Head(items)
       IN  IF m.type = "terminate"
           THEN /\ wpc' = [wpc EXCEPT ![w] = "exited"]
                /\ done' = done \cup {m}
                /\ UNCHANGED <<msg, nth>>
           ELSE /\ wpc' = [wpc EXCEPT ![w] = IF m.type = "log" THEN "log" ELSE "flush"]
                /\ msg' = [msg EXCEPT ![w] = m]
                /\ nth' = [nth EXCEPT ![w] = 1]
                /\ UNCHANGED done
    /\ UNCHANGED <<poolVars, clientVars, accepted, dropped, written, flushed, failed>>

SinksOfMessage(m) == SinksOf[m.worker_ptr]

(* The sink throws std::exception: err_handler_ reports it and the loop    *)
(* over the sinks goes on.                                                 *)
SinkThrows(w, s) ==
    /\ Cardinality(failed) < MaxFailures
    /\ failed' = failed \cup {<<msg[w].ticket, s>>}

(* Fault: the try block is around the loop, so that an exception skips the *)
(* sinks that follow.                                                      *)
SinkLog_gives_up(w) ==
    /\ wpc[w] = "log" /\ nth[w] <= Len(SinksOfMessage(msg[w]))
    /\ LET sinks == SinksOfMessage(msg[w])
           s == sinks[nth[w]]
           skip == nth' = [nth EXCEPT ![w] = @ + 1]
       IN  \/ /\ msg[w].level >= SinkLevel[s]
              /\ written' = written \cup {<<msg[w].ticket, s>>} /\ skip
              /\ UNCHANGED failed
           \/ /\ msg[w].level >= SinkLevel[s]
              /\ SinkThrows(w, s) /\ nth' = [nth EXCEPT ![w] = Len(sinks) + 1]
              /\ UNCHANGED written
           \/ /\ msg[w].level < SinkLevel[s]
              /\ skip /\ UNCHANGED <<written, failed>>
    /\ UNCHANGED <<queueVars, poolVars, clientVars, wpc, msg, accepted, dropped, done, flushed>>

(* backend_sink_it_: one sink of the loop. *)
SinkLog(w) ==
    /\ wpc[w] = "log" /\ nth[w] <= Len(SinksOfMessage(msg[w]))
    /\ LET s == SinksOfMessage(msg[w])[nth[w]]
       IN  \/ /\ msg[w].level >= SinkLevel[s]
              /\ \/ /\ written' = written \cup {<<msg[w].ticket, s>>}
                    /\ UNCHANGED failed
                 \/ SinkThrows(w, s) /\ UNCHANGED written
           \/ /\ msg[w].level < SinkLevel[s]
              /\ UNCHANGED <<written, failed>>
    /\ nth' = [nth EXCEPT ![w] = @ + 1]
    /\ UNCHANGED <<queueVars, poolVars, clientVars, wpc, msg, accepted, dropped, done, flushed>>

(* level::off as the level of a message: it passes every level, and asks   *)
(* for no flush.                                                           *)
Off == 6

should_flush_(m) == m.level >= FlushLevel[m.worker_ptr] /\ m.level # Off

(* ... and after the loop, backend_flush_ if the message's level asks for it. *)
AfterSinks(w) ==
    /\ wpc[w] = "log" /\ nth[w] > Len(SinksOfMessage(msg[w]))
    /\ nth' = [nth EXCEPT ![w] = 1]
    /\ IF should_flush_(msg[w])
       THEN wpc' = [wpc EXCEPT ![w] = "flush"] /\ UNCHANGED <<msg, done>>
       ELSE /\ wpc' = [wpc EXCEPT ![w] = "dequeue"]
            /\ msg' = [msg EXCEPT ![w] = NoMessage]
            /\ done' = done \cup {msg[w]}
    /\ UNCHANGED <<queueVars, poolVars, clientVars, accepted, dropped, written, flushed, failed>>

(* Fault: the sink flushes the current message only. *)
SinkFlush_own_message(w) ==
    /\ wpc[w] = "flush" /\ nth[w] <= Len(SinksOfMessage(msg[w]))
    /\ LET s == SinksOfMessage(msg[w])[nth[w]]
       IN  flushed' = flushed \cup {x \in written : x = <<msg[w].ticket, s>>}
    /\ nth' = [nth EXCEPT ![w] = @ + 1]
    /\ UNCHANGED <<queueVars, poolVars, clientVars, wpc, msg, accepted, dropped,
                   done, written, failed>>

(* backend_flush_: one sink of the loop; flushing a sink flushes all that  *)
(* was written to it, by whichever logger.                                 *)
SinkFlush(w) ==
    /\ wpc[w] = "flush" /\ nth[w] <= Len(SinksOfMessage(msg[w]))
    /\ LET s == SinksOfMessage(msg[w])[nth[w]]
       IN  \/ /\ flushed' = flushed \cup {x \in written : x[2] = s}
              /\ UNCHANGED failed
           \/ SinkThrows(w, s) /\ UNCHANGED flushed
    /\ nth' = [nth EXCEPT ![w] = @ + 1]
    /\ UNCHANGED <<queueVars, poolVars, clientVars, wpc, msg, accepted, dropped, done, written>>

AfterFlush(w) ==
    /\ wpc[w] = "flush" /\ nth[w] > Len(SinksOfMessage(msg[w]))
    /\ wpc' = [wpc EXCEPT ![w] = "dequeue"]
    /\ msg' = [msg EXCEPT ![w] = NoMessage]
    /\ nth' = [nth EXCEPT ![w] = 1]
    /\ done' = done \cup {msg[w]}
    /\ UNCHANGED <<queueVars, poolVars, clientVars, accepted, dropped, written, flushed, failed>>

-----------------------------------------------------------------------------
Calling(c) ==
    \E l \in Loggers :
        \/ \E level \in Levels : Log(c, l, level)
        \/ Flush(c, l)

Working(w) ==
    TakeMessage(w) \/ SinkLog(w) \/ AfterSinks(w) \/ SinkFlush(w) \/ AfterFlush(w)

Destroying == PostTerminate \/ Join

Stopped ==
    /\ pool = "destroyed" /\ \A c \in Clients : pc[c] = "idle"
    /\ UNCHANGED vars

Next ==
    \/ \E c \in Clients : Calling(c) \/ Post(c) \/ ReleasePool(c)
    \/ ReleaseOwner
    \/ \E w \in Workers : Working(w)
    \/ Destroying
    \/ Stopped

Spec == Init /\ [][Next]_vars

(* Workers loop as long as there are messages, a call that has begun runs  *)
(* on when the queue has room for it, and so does the destructor.  Nothing *)
(* obliges a client to call or the owner to let go of the pool.            *)
Fairness ==
    /\ \A w \in Workers : WF_vars(Working(w))
    /\ \A c \in Clients : WF_vars(Post(c) \/ ReleasePool(c))
    /\ WF_vars(Destroying)

FairSpec == Spec /\ Fairness

-----------------------------------------------------------------------------
Queued == {items[i] : i \in 1 .. Len(items)}
InHand == {msg[w] : w \in {v \in Workers : wpc[v] \in {"log", "flush"}}}
Settled == done \cup dropped
Everything == Queued \cup InHand \cup Settled

Tickets(S) == {m.ticket : m \in S}

TypeOK ==
    /\ items \in Seq(Messages) /\ Len(items) <= QMaxItems
    /\ overruns \in 0 .. (SizeMod - 1)
    /\ leftover \in Messages \cup {NoItem}
    /\ owner \in BOOLEAN
    /\ pool \in {"alive", "stopping", "destroyed"}
    /\ destroyer \in Clients \cup {Owner, Nobody}
    /\ terminates \in 0 .. Cardinality(Workers)
    /\ pc \in [Clients -> {"idle", "post", "release", "destroy"}]
    /\ call \in [Clients -> Requests({0}) \cup {NoMessage}]
    /\ \A c \in Clients : pc[c] = "post" => call[c] # NoMessage
    /\ wpc \in [Workers -> {"dequeue", "log", "flush", "exited"}]
    /\ msg \in [Workers -> Requests(Nat) \cup {NoMessage}]
    /\ \A w \in Workers : wpc[w] \in {"log", "flush"} => msg[w] # NoMessage
    /\ nth \in [Workers -> Nat \ {0}]
    /\ accepted \in Nat
    /\ done \subseteq Messages /\ dropped \subseteq Messages

(* No message is lost, and none is handled twice: whatever has entered the *)
(* queue is in exactly one of the queue, the hands of one worker, the      *)
(* messages finished with and the messages overrun, and overrun_counter()  *)
(* counts the last (thread_pool-inl.h:55-126 over mpmc_blocking_q.h).      *)
Conservation ==
    /\ Tickets(Everything) = 1 .. accepted
    /\ Len(items) + Cardinality({w \in Workers : wpc[w] \in {"log", "flush"}})
         + Cardinality(done) + Cardinality(dropped) = accepted
    /\ overruns = Cardinality(dropped) % SizeMod

(* While the destructor runs no client is inside a call on the pool, and   *)
(* there is one thread that runs it: the weak_ptr that a logger locks for  *)
(* the duration of a post is what guarantees this (async_logger-inl.h:29,  *)
(* 42).                                                                    *)
NobodyInsideDestructor ==
    /\ pool = "alive" <=> owner \/ Posting # {}
    /\ pool = "alive" <=> destroyer = Nobody
    /\ \A c \in Clients : pc[c] = "destroy" => pool = "stopping" /\ destroyer = c

(* No message enters the queue behind a terminate message, so none can     *)
(* overrun one; and there is a terminate message for each worker, which it *)
(* has not passed on to another.  Otherwise ~thread_pool would wait for a  *)
(* worker that nobody tells to stop (thread_pool-inl.h:42-50).             *)
TerminatesReachWorkers ==
    /\ \A m \in Everything, t \in Everything :
          m.type # "terminate" /\ t.type = "terminate" => m.ticket < t.ticket
    /\ \A m \in dropped : m.type # "terminate"
    /\ terminates = Cardinality({w \in Workers : wpc[w] = "exited"})
                  + Cardinality({m \in Queued : m.type = "terminate"})

(* "Upon destruction, logs all remaining messages in the queue before      *)
(* destructing.." (async_logger.h:14-15): when the pool is gone a message  *)
(* that was accepted is finished with or was overrun, and no worker runs.  *)
DrainedBeforeDestroyed ==
    pool = "destroyed" =>
        /\ Tickets(Settled) = 1 .. accepted
        /\ \A w \in Workers : wpc[w] = "exited"

(* A message that a worker has finished with has been offered to each of   *)
(* its logger's sinks that takes its level, and flushed if its level asks  *)
(* for it; an exception from one sink deprives only that sink of it        *)
(* (async_logger-inl.h:55-85).                                             *)
DeliveredToEverySink ==
    \A m \in done : m.type = "log" =>
        \A i \in 1 .. Len(SinksOfMessage(m)) :
            LET at == <<m.ticket, SinksOfMessage(m)[i]>>
            IN  m.level >= SinkLevel[SinksOfMessage(m)[i]] /\ at \notin failed =>
                    /\ at \in written
                    /\ should_flush_(m) => at \in flushed

(* When every logger blocks, nothing is ever dropped ("Block until message *)
(* can be enqueued", async_logger.h:24).                                   *)
BlockingDropsNothing ==
    (\A l \in Loggers : Policy[l] = "block") => dropped = {}

(* With a single worker messages are finished with in the order in which   *)
(* they were accepted ...                                                  *)
SingleWorkerInOrder ==
    [][\A new \in done' \ done, old \in done : old.ticket < new.ticket]_vars

(* ... and a flush request covers whatever its logger accepted before it:  *)
(* once it is finished with, those messages are flushed in every sink they *)
(* reached, unless that sink threw.                                        *)
FlushCoversEarlier ==
    \A f \in done, m \in Everything :
        /\ f.type = "flush" /\ m.type = "log"
        /\ m.worker_ptr = f.worker_ptr /\ m.ticket < f.ticket
        => /\ m \in Settled
           /\ \A i \in 1 .. Len(SinksOfMessage(f)) :
                LET s == SinksOfMessage(f)[i]
                IN  <<m.ticket, s>> \in written /\ <<f.ticket, s>> \notin failed
                        => <<m.ticket, s>> \in flushed

(* "message all threads to terminate gracefully join them"                 *)
(* (thread_pool-inl.h:37): the destructor returns.                         *)
DestructorReturns == (pool = "stopping") ~> (pool = "destroyed")

(* Every message that was accepted is eventually finished with or overrun, *)
(* whether or not the pool is destroyed.                                   *)
EveryMessageSettles ==
    \A n \in 1 .. (MaxCalls * Cardinality(Clients)) :
        (accepted >= n) ~> (n \in Tickets(Settled))
=============================================================================
