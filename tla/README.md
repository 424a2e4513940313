# TLA+ models of structlog

structlog is a fork of spdlog with structured (JSON) parameters: a C++ logging
library in which loggers format messages and hand them to sinks, at once or
through a queue and a pool of worker threads. This directory holds TLA+ modules
of its parts, the TLC configurations that check them on small instances, and
proofs that TLAPS checks. All paths below are relative to `include/spdlog/`.

## The system

| Part | State | Operations | Talks to |
| --- | --- | --- | --- |
| `details/circular_q.h` | ring of slots, head, tail, overrun counter | push_back, front, pop_front, size, at, copy, move | owned by the message queue, the backtracer, ringbuffer_sink and the timed file sinks |
| `details/mpmc_blocking_q.h` | a circular_q, a mutex, two condition variables | enqueue, enqueue_nowait, dequeue_for | called by thread_pool from any thread |
| `details/thread_pool` | the queue, the worker threads | post_log, post_flush, worker loop, destructor | owned by the registry, and by each async_logger for the time of a post; calls loggers |
| `async_logger` | a weak reference to the pool, a policy | sink_it_, flush_ (client side); backend_sink_it_, backend_flush_ (worker side) | posts to the pool, is owned by its queued messages, calls sinks |
| `async.h` | none | creates loggers, and the global pool if there is none | registry |
| `logger` | level, flush level, sinks, error handler, backtracer | log, flush, set_level, dump_backtrace | sinks, executor, backtracer |
| `details/executor` | a pending message with parameters | `operator()`, destructor delivers | logger |
| `details/log_msg_buffer` | a message with its own storage | copy, move | queue, backtracer, executor |
| `details/backtracer` | a circular_q of messages, a flag | enable, disable, push_back, foreach_pop | logger |
| `details/periodic_worker` | a flag, a thread, a condition variable | constructor, destructor | registry's flusher |
| `details/registry` | map of loggers, default logger, levels, pool, flusher | register, initialize, get, drop, set_levels, flush_all, shutdown | loggers, pool, flusher |
| `cfg/*` | none | level strings from argv and the environment | registry |
| `sinks/base_sink.h` | a mutex, a formatter | log, flush | every sink |
| `sinks/rotating_file_sink` | a file, its size | write, rotate | file_helper, the file system |
| `sinks/daily_file_sink.h`, `hourly_file_sink.h` | a file, next rotation, queue of kept names | write, rotate, delete old | file_helper, clock |
| `details/file_helper` | an open file or none | open with retries, reopen, write, flush | the file system |
| `sinks/dup_filter_sink.h` (over `dist_sink.h`) | last message, its time, skip count | log | other sinks |
| `sinks/ringbuffer_sink.h` | a circular_q | log, last_raw | none |
| `sinks/tcp_sink.h` | a connection or none | log | a server |
| `json_formatter`, `populators`, `pattern_formatter` | cached time | format | called by sinks |
| console, platform and Windows sinks, `os`, `common`, vendored `fmt` and `json.h` | | | |

### What is hard here

* **Threads.** Clients, workers, the flusher and whoever calls shutdown meet in
  one bounded queue, several mutexes and reference counts. The pool is
  destroyed by whichever thread lets go of it last, possibly a client in the
  middle of a log call.
* **Waiting.** Blocking enqueues, timed dequeues and the destructor wait for each
  other; notifications are sent after the mutex is released.
* **Bounds.** The queue overruns its oldest item if a logger asks for that; the
  ring's indices and counter wrap.
* **Partial failure.** Sinks throw, files cannot be renamed or opened,
  connections break, and the caller goes on.
* **Calls from inside calls.** An error handler runs in the middle of a log call,
  possibly with a mutex held, and may log, dump or throw.
* **Time.** Rotation instants, skip intervals and stop requests race with
  messages.

`PROJECT.json` lists these as hazards at the lines where they bite.

### What makes each part correct

* circular_q: it is a queue that drops its oldest item when full.
* mpmc_blocking_queue: its calls are atomic; no wakeup is lost; calls return.
* thread_pool and async_logger: every accepted message is handled once or counted
  as overrun; nobody uses a pool that is being destroyed; destruction drains the
  queue and ends; each sink gets what it should although others fail.
* logger, executor, backtracer: a message is delivered once, with its parameters,
  to the sinks and to the backtrace that were enabled.
* registry: the map and the default logger agree; a logger gets the levels that
  were configured; after shutdown nothing of what there was is left, and every
  call returns.
* file sinks: files stay within their size and number, in order, and no file
  but the oldest is lost, whatever fails in between.
* the other sinks: a connection carries whole messages; nothing is skipped
  silently; what is kept is shown with its own time.

## The modules

```
OverrunQueue            MessageQueue  <--------------- ThreadPool
     ^ implements           ^ implements                   (extends it)
CircularQObjects        MpmcQueue
     \______ CircularQ ______/______ RingbufferSink
                                            \
FileHelper  <--- RotatingFileSink            +--- DupFilterSink
            <--- TimedFileSink              /
                                     TcpSink
Backtracer  <--- Logger
PeriodicWorker <--- Registry

CircularQProofs   facts about the ring's operations, and theorems about its objects
  <--- MpmcQueueProofs, DupFilterSinkProofs
ThreadPoolProofs, RotatingFileSinkProofs, TimedFileSinkProofs, LoggerProofs,
RegistryProofs    theorems about the specifications
MC...             instances for TLC
```

### `CircularQ`, `CircularQObjects`, `OverrunQueue`

`CircularQ` has the member functions of `circular_q` as operators on a record with
the fields of the class, in `size_t` arithmetic modulo `SizeMod`. `TakeFront` is
what `dequeue_for` does with the front item: moved out, then popped, so that the
slot holds a moved-from value. `CircularQObjects` is a program that makes any
sequence of calls on several objects (`ObjectsSpec`); `pop_front` is only called on a non-empty
queue, as its callers ensure. `OverrunQueue` is the promise: a sequence with a
capacity that drops its first element when it is exceeded, and counts.

| Code | Action or operator |
| --- | --- |
| `circular_q(size_t)`, `circular_q()` | `New`, `Disabled` |
| `push_back`, `pop_front`, `front`, `at` | `PushBack`, `PopFront`, `Front`, `At` |
| `empty`, `full`, `size` | `Empty`, `Full`, `Size` |
| copy and move constructors and assignments, `copy_moveable` | `Copy`, `Move` |

### `MpmcQueue`, `MessageQueue`

`MessageQueue` is the queue with atomic calls. `MpmcQueue` has the mutex, the two
condition variables and a program counter for each thread:

| Code | Action |
| --- | --- |
| `enqueue`, `enqueue_nowait`, `dequeue_for` are called | `CallEnqueue`, `CallEnqueueNowait`, `CallDequeue` |
| `unique_lock` (also on return from a wait) | `Acquire` |
| `wait` with the predicate false | `BlockProducer`, `BlockConsumer` |
| the change of the queue, and the end of the inner block | `PushItem`, `TakeItem` |
| `dequeue_for` returns false | `ReturnFalse` |
| `notify_one` and return | `NotifyPush`, `NotifyPop` |
| `wait_for` times out; a wait returns for no reason | `Timeout`, `SpuriousWakeup` |

`MinGW` selects the branch that notifies with the mutex held. The refinement maps
the contents of the ring to `items`, its counter to `overruns`, and the marker
slot to `leftover`: an item that an overrun gives up stays alive in the vector
until the next push, and with it the logger that a message owns.

### `ThreadPool`

The asynchronous pipeline over `MessageQueue`. That the calls of the queue may be
single steps here is what `MpmcQueue` shows; a blocking post is then a step that is
only enabled when there is room.

| Code | Action |
| --- | --- |
| `async_logger::sink_it_`, `flush_`: lock the weak reference, or throw | `Log`, `Flush` (`Call`) |
| `post_log`, `post_flush`, `post_async_msg_` | `Post` |
| the locked reference goes out of scope, running the destructor if it was the last | `ReleasePool` |
| the registry lets go of the pool | `ReleaseOwner` |
| `~thread_pool`: the loop that posts, the join and the members' destructors | `PostTerminate`, `Join` |
| `process_next_msg_` up to the switch | `TakeMessage` |
| one sink in `backend_sink_it_`, one in `backend_flush_` | `SinkLog`, `SinkFlush` |
| the end of these loops, with `should_flush_` | `AfterSinks`, `AfterFlush` |

A dequeue that times out changes nothing and the worker goes round, so it is not an
action. A sink's `log` and `flush` are one step each because `base_sink` holds its
mutex. Sinks may throw `std::exception`, `MaxFailures` times in a behaviour; an
exception of another type, which the code rethrows and which ends the process on a
worker thread, is not modelled. Tickets, `done`, `dropped`, `written`, `flushed` and
`failed` are history: the code has no such state.

### `FileHelper`, `RotatingFileSink`, `TimedFileSink`

`FileHelper` has the files of a directory and the stream that a `file_helper` has
open. A file is there or not, holds the numbers of its messages and has a size. What
`fwrite` has taken stays in `buffer` until `fflush` or `fclose` passes it on, and is
lost if the process ends first; `stored` is the history of what was passed on.
`Open`, `OpenThrows`, `Close`, `Flush` and `Write` are the member functions; both
outcomes of a truncating open that fails (before or after the file was emptied) are
possible.

`RotatingFileSink` has the files `log` (0), `log.1`, ..., `log.max_files`. Every call
of the file system is a step of its own, and the process may end before any of them:

| Code | Action |
| --- | --- |
| constructor, with `rotate_on_open` | `Construct`, `ConstructThrows` |
| `sink_it_` up to the decision | `SinkIt` |
| `rotate_`: `close`; a file that is not there; `remove`, `rename` of one file | `RotateClose`; `SkipMissing`; `RemoveTarget`, `Rename` |
| the second failed rename, then `reopen(true)` and the throw | `RenameFails`, `Recover` |
| `reopen(true)` at the end | `Reopen`, `ReopenThrows` |
| `write` | `WriteMessage`, `WriteThrows` |
| `flush_`, destructor | `FlushSink`, `Destroy` |
| the members' destructors when the constructor throws | `Abandon` |
| the process ends, at any place (`interruptions` counts the rotations that do not end) | `Crash` |

`TimedFileSink` is the daily and the hourly sink: `Period` is the day or the hour,
`RotateAt` the rotation instant in it, and a file's name is the number of its
period. The clock may go on between any two steps, because each function reads it
anew. A message carries the time at which it was made.

| Code | Action or operator |
| --- | --- |
| constructor: open; `next_rotation_tp_`; `init_filenames_q_` | `Construct`, `ConstructThrows`; `ConstructRotation`; `ConstructQueue` |
| `sink_it_`: decision; open; next rotation; write | `SinkIt`; `OpenNext`, `OpenNextThrows`; `SetRotation`; `WriteMessage`, `WriteThrows` |
| `delete_old_` | `DeleteOld`, `DeleteOldThrows` |
| `next_rotation_tp_`, `init_filenames_q_` | `NextRotation`, `KeptFiles` |

Left out: a failing `fclose` or `fflush`, other programs that change the files, time
zones, the change to summer time (which makes a day of 23 or 25 hours), and a clock
that is set back.

### `Backtracer`, `Logger`

`Logger` is a synchronous logger that threads share, in the build with structured
parameters: `log` returns an executor, and the message is delivered when the last
executor it was moved to is destroyed. Because an error handler runs inside the
call that failed and may use the logger again, a thread has a stack of calls
(`Frame`), and each step belongs to the innermost one. `Backtracer` has the flag, the
queue (the drop-oldest queue that `circular_q` implements) and the mutex.

| Code | Action or operator |
| --- | --- |
| `log`, `log_`: the level is read; then the tracer's flag, and the executor is made | `CallLog`; `ReadEnabled` |
| formatting throws | `FormatThrows` |
| `executor::operator()`, its move constructor, its destructor | `AddParams`, `MoveExecutor`, `Destroy` |
| `executor_callback`: the sinks, then `push_back` | (through `Destroy`) `LogToSink`, `PushTrace` |
| one sink in `sink_it_`, in `flush_`; the end of these loops | `LogToSink`, `FlushSink`; `AfterSinks`, `AfterFlush` |
| `flush` | `CallFlush` |
| `dump_backtrace_`: the mark; `foreach_pop`: the lock, each message, the end | `CallDump`; `LockTracer`, `NextTraced`, `AfterSinkIt` |
| the `catch` clauses: the handler runs (`error`), returns, or an exception leaves | `SinkThrows`; `HandlerReturns`, `ExceptionLeaves` |
| `set_level`, `flush_on`, `enable_backtrace`, `disable_backtrace` | `Configure` |

An error handler may call `log`, `flush` and `dump_backtrace`, to any depth that the
bounds allow. A handler that traces or dumps during a dump waits for the mutex that
its own thread holds: this is `WaitsForItself`, where the specification lets the
system stop (see Observations). A handler that calls `enable_backtrace` or
`disable_backtrace` would wait in the same way and is not modelled. In the build
without structured parameters there is no executor: the message is delivered at
once, which are the behaviours without `AddParams` and `MoveExecutor`.

### `PeriodicWorker`, `Registry`

`PeriodicWorker` is the thread that calls a function at intervals, with its wait, its
predicate and its destructor step by step. `Registry` is the registry, whose flusher
is such a worker, together with the two factories.

| Code | Action |
| --- | --- |
| `synchronous_factory::create`; `initialize_logger` | `Create`; `Initialize` |
| `async_factory_impl::create`: the pool; the sink, which may throw; the logger | `CreateAsync`; `SinkThrows`; `InitializeAsync` |
| a logger made without the registry; `register_logger` | `MakeLogger`; `RegisterLogger` |
| `set_default_logger`, with a logger and with none | `SetDefaultLogger`, `SetNoDefaultLogger` |
| `drop`, `drop_all` | `Drop`, `DropAll` |
| `set_level`, `set_levels` as `load_levels` calls it, `flush_on` and the settings like it | `SetLevel`, `SetLevels`, `FlushOn` |
| `set_automatic_registration`, `init_thread_pool` | `SetAutomaticRegistration`, `InitThreadPool` |
| `flush_every`: the new worker, then the destructor of the old | `FlushEvery`; `StopClear`, `StopNotify`, `StopJoin` |
| `shutdown`: the flusher; the map; the pool | `Shutdown` and the same; `ShutdownMap`; `ShutdownPool` |
| the worker's thread: predicate, wait, time out, function | `Evaluate`, `WaitEnds`, `AfterTimeout`; `BeginPass`, `FlushLogger`, `FlushThrows`, `EndPass` |

Who holds `logger_map_mutex_`, `flusher_mutex_` and `tp_mutex_` follows from where the
threads are (`MapFree`, `FlusherFree`, `PoolFree`). A pool is a number; an asynchronous
logger has a weak reference to one, so it throws when the registry has let go of it.
What the pool does when it is destroyed is `ThreadPool`'s matter: the registry's
reference is `Owner` there.

### `TcpSink`, `RingbufferSink`, `DupFilterSink`

`TcpSink` has the connections and what `::send` took, part by part; `RingbufferSink`
keeps messages in a `CircularQ` and formats them with the time that the formatter has
cached; `DupFilterSink` composes them: a duplicate filter with both as its children,
while another logger writes straight to the TCP sink.

| Code | Action or operator |
| --- | --- |
| `filter_` and `sink_it_` of the duplicate filter | `Passes`; `Skip`, `Pass`, `AfterSkipped`, `AfterMessage` |
| the loop over the children in `sink_it_`, `flush_`, `set_formatter_` | `PassBy`, `VisitRing`, `VisitTcp`, `FlushOrFormat`, `AfterOther` |
| `add_sink`, `remove_sink`, `set_sinks` | `AddSink`, `RemoveSink`, `SetSinks` |
| `tcp_sink::sink_it_` from another logger | `LogToTcp` |
| `connect`, which may throw | `TcpConnects`, `TcpConnectFails` |
| `::send` takes some parts; returns 0; fails | `TcpSends`; `TcpSendsNothing`; `TcpSendFails` |
| `ringbuffer_sink::sink_it_`, `last_raw`, `last_formatted` | `RingSinkIt`, `LastRaw`, `LastFormatted` |
| `pattern_formatter::format`, `clone` | `Format`, `RingSetFormatter` |

The filter's mutex is held while its children are called and the TCP sink's while it
connects and sends, so threads that log straight to the TCP sink get in between the
announcement of skipped messages and the message that ended them. An exception of a
child leaves the filter before its fields are set. A removed child that is added
again counts as new (`missed`, `told`).

Definitions with a comment that begins with *Fault* are variants with a plausible
bug. No specification uses them; each was substituted for the definition that
follows it to see that the properties notice.

## The runs

| Run | Instance | Shows |
| --- | --- | --- |
| `circular_q` | two objects, two items, `size_t` of four values, capacities 0 to 3 | the ring implements `OverrunQueue` |
| `mpmc_queue` | 2 producers, 2 consumers, 1 place, 2 items each, 2 timeouts or spurious wakeups | atomicity, no lost wakeup, calls return, the queue drains |
| `thread_pool` | 2 clients, 2 workers, 1 place, blocking and overrunning logger, 2 calls each | conservation, safe destruction, terminate messages, draining |
| `thread_pool_single` | blocking loggers, 1 worker, 2 sinks, 2 levels, 1 exception, 2 places | delivery to every sink, order, what a flush covers |
| `thread_pool_fair` | as `thread_pool`, loggers without sinks | the destructor returns, every message settles |
| `rotating_sink` | 2 rotated files, limit 4, messages of 2 and 5, 5 messages, with and without `rotate_on_open`, any failures, 2 ends of the process | order, size, what may be lost, when it rotates |
| `timed_sink` | 4 periods of 2, 2 files kept, 4 messages up to a period late, any failures | order, which files are kept, who may meet a closed stream |
| `timed_sink_date` | late messages, nothing fails, the clock stands still during calls (`SpecInstantCalls`) | **violated**: a message goes to the file of an earlier date |
| `logger` | 2 threads, 2 sinks, backtraces of 1 or 2, 2 messages, 2 dumps, 2 executors for a message, 1 change or exception | delivery and tracing exactly once, what a dump shows, who holds the tracer's mutex |
| `registry` | 2 threads, 2 names, 3 loggers, 3 calls, 2 flushers, 2 tables of levels | default logger, settings, flushers, shutdown; every call returns |
| `registry_flush` | the same | **violated**: a pass of the flusher meets a logger whose pool is gone |
| `sinks` | 2 threads, messages of 2 parts, 2 connections, ring of 2, 3 messages and 4 calls, 1 change of the children | framing of connections, no silent skip, times in the ring |

The bounds let the interesting cases happen. In the ring, four values of `size_t`
give the marker-only queue, the wrap of both indices, the wrap of the counter and
the capacity that wraps to a disabled queue. In the queue, one place makes every
thread wait, and two consumers and two producers can steal each other's wakeups;
that more places and threads are no different is what the proofs show. In the pool, one
place is enough for overruns of blocking loggers' messages, two clients let one be
inside a post while the other ends its own, and two workers let a terminate message
be taken while another worker is in a sink. `SizeMod` is larger than the number
of overruns there, the wrap being checked in the ring.

For the rotating sink the limit is such that two small messages fill a file exactly,
three exceed it, and a large one exceeds it alone; five messages fill every file and
lose one. With two rotated files the loop has a first and a last turn; that a turn in the
middle is no different is what the proofs show (three files were checked as well). Four
periods with two files to keep delete twice.

In the logger, two messages let a backtrace of one overrun and a dump show both of a
backtrace of two; one change or exception suffices for each race that the
properties are about (the level or the backtrace changes between two steps of a
call; a sink throws in a call or in a dump, and its handler logs or dumps), and the
proofs cover what two of them do to the mutex. In the registry, three calls by two
threads let two of them overlap with a third's result in place: a creation or a
replaced flusher inside a shutdown, two shutdowns at once. Loggers made by hand do
not count as calls. Among the sinks, four messages let two be skipped, the announcement
fail and the next message try again; the ring of two overwrites; two children at
most (`AddSink`) with both orders.

### Fairness

Threads that have begun a call keep running (weak fairness of their steps, which for
a blocked post means: if the queue has room for good). Consumers and workers loop, as
`worker_loop_` does. Nothing obliges a client to call, the registry to let go of the
pool, a wait to time out or a sink to throw. Weak fairness of `Acquire` and of a
blocked post would not be enough against clients that call without end: the mutex and
the condition variables promise no order, and a waiter can be overtaken for ever.
The runs make a bounded number of calls (`Quota`, `MaxCalls`), so what
`EnqueueReturns` shows is that no call waits for good once the others stop, not that
nobody starves under endless traffic.

In `Registry`, threads inside a call and workers inside a round have strong fairness:
their steps wait for mutexes that others hold for a bounded time and then release, and
a flusher lets a second or more pass between two passes, so that it cannot keep a
thread from `logger_map_mutex_` for ever. Nothing obliges an interval to end
(`Waiting`) or a user to call, so `CallsReturn` shows that a destructor does not depend
on the interval. `Logger`, the sinks and the file sinks state no fairness: their
properties are about safety.

## The proofs

`CircularQProofs` proves, for every set of items, every set of objects and every
width of `size_t`:

* `ObjectsTypeCorrect`: the indices of every object stay inside its vector. `ObjectsOK` is
  inductive as it stands, because the only callers of `PopFront` and `TakeFront` see
  a non-empty queue.
* `QueriesCorrect`: `empty`, `full` and `size` agree. It follows from the shape.
* `RingImplementsOverrunQueue`: every step of a ring is a step of the drop-oldest
  queue. The lemmas `PushWithRoom`, `PushWhenFull` and `PopContents` say what the
  operations do to the contents, on top of facts about `%` near its modulus.

The assumptions are those of the modules: an item is not the moved-from value,
`SizeMod` is at least two, and capacities are of type `size_t`. The proofs about the
queue and about the sinks extend this module for its facts about rings.

`MpmcQueueProofs` proves, for any finite sets of producers and consumers, any
capacity that `q_max_items + 1` does not wrap, and both builds:

* `TypeCorrect` and `MutexExcludes`: the mutex is held by exactly the thread that is
  in the critical section, and the waiters of a condition variable are the threads
  that wait. The inductive invariant is `Inv`: `TypeOK`, `CallsOK` (what a thread may
  be doing, by its role, and that a producer past its quota posts nothing), and
  `VacantCleared` (a slot outside the ring holds a moved-from value, except the one
  that an overrun has just given up), which the refinement of `leftover` needs.
* `BlockingKeepsItems`: a blocking enqueue never overruns, because the mutex is held
  from the predicate to the push.
* `CallsAreAtomic`: the queue implements `MessageQueue`, so `ThreadPool` may use its
  calls as single steps.
* `WakeupsAreNotLost`: `NoLostWakeup` is inductive relative to `Inv`. It counts: the
  items are at most the pending notifications plus the consumers on their way, as
  long as somebody waits; every step changes both sides alike.

`ThreadPoolProofs` proves, for any number of clients, workers (1 to 1000), loggers and
sinks, any policies and any capacity, 0 included, the safety properties of the
pipeline that the runs check. The argument goes in layers, each inductive relative
to those before it:

* `TypeCorrect` and `DestructorIsAlone` are inductive by themselves.
* `Order`: tickets increase along the queue, and what has left it has a lower ticket
  than what is in it. All else rests on this.
* `TerminateInv`: no terminate message exists while the pool is alive; they come
  last; there is one for each worker that has not left; a worker has left only if
  one is finished with. `EveryWorkerIsTold` is a part of it. Together with `Order` it
  gives the lemma `EmptyAtJoin`: when every worker has left, the queue is empty.
* `Accounts`: conservation, which holds across the destruction of the queue because of
  `EmptyAtJoin`. `NothingLostOrDoubled` and `DestroyedDrained` follow.
* `LoopInv`, `DoneInv`: what the loops over the sinks have done so far;
  `EverySinkIsServed` follows.
* `FlushInv`: with one worker, what is finished with is older than what is in hand,
  and what is written now is newer than every flush that is finished with;
  `OneWorkerKeepsOrder` and `OneWorkerFlushes` follow.

`BlockingLosesNothing` needs only the types. So does `NoPlaceNoEnd`, which is about what
goes wrong: a pool whose queue was constructed with no place at all is never destroyed,
since the first terminate message of the destructor waits for ever. The bounds
`MaxCalls` and `MaxFailures` are constants of the specification, so the theorems hold
for every value of them.

`RotatingFileSinkProofs` proves, for any number of files, any limit, any sizes of
messages, whatever fails and wherever the process ends:

* `TypeCorrect` and `StreamIsOpen`. `Inv` adds `Shape` to the types: where the stream
  and the files are at each place of the program. During the loop the place that a
  file is to move to is free, except at the start, where the oldest file may be
  there. A sink that could not reopen the log has no stream, but it remembers a size
  over the limit, so it rotates before it writes again.
* `OrderIsKept`: `Order` says in addition that all that was stored has smaller
  numbers than what comes next.
* `OldestIsLost`: unless a rename fails, what is in the files is an upper part of what
  ever reached one. Only the oldest file is removed, because of `Shape`.
* `SizeIsLimited`: `Accounted` (no bytes without messages) and `Sized`:
  `current_size_` is at least the size of the log while the log is open.
* `PlacesUsed`. That at most one place for each unfinished rotation is without a file is
  not inductive once something has been lost: the step that loses the first message makes
  a claim about all places. The count of the holes, the free places with an older file
  above them, holds from the beginning and carries it (`Places`). A rotation moves one
  hole down through the files and closes it at the end; if it is cut short the hole
  stays, and is counted as an interruption. A message is lost only from the last place,
  and when that one is taken every free place is a hole.
* `SizeAloneRotates`, an action property: `Exact` says that as long as writing works
  `current_size_` is the length of the log, buffer included, unless the constructor has
  rotated or the sink has no stream.

`TimedFileSinkProofs` proves, for any period, any rotation instant in it, any number
of files and messages, however late messages come and whatever fails:

* `TypeCorrect`: among other things, the queue of kept names never exceeds `max_files`.
* `FilesAlwaysInOrder`. The invariant `Order` says why lateness does no harm to the
  order of files: files with contents are no later than the one that is open, and
  none of them is later than the period of the next rotation, so a message that makes
  the sink rotate belongs to no earlier period than any contents.
* `OnlyLateEverFindNoStream`: a sink without a stream rotates at the next message that
  is not late. It needs that the rotation time then is not after the latest message.
* `LastFilesRetained`, for rotation at the start of the period only (`RotateAt = 0`, as
  in the hourly sink and the default daily one): it fails otherwise (see Observations).
  `KnownInOrder`: the names that the sink knows are before the next rotation, so that a
  file opened by a rotation is later than all in the queue, which is in order. `Kept`:
  of the known names the latest `max_files` have a file, and others only what could not
  be written or removed. The lemmas count the names that are later than the one that
  the full queue gives up.

`LoggerProofs` proves, for any threads, sinks, levels and parameters, and error
handlers that call the logger to any depth:

* `TypeCorrect`, with the shape of the calls in each place (`Shaped`): of the executors
  of a message only the last has a context.
* `MutexFollowsDumps`: the tracer's mutex is held by exactly the thread that is in
  `foreach_pop`. The strengthening is that it is there at most once on its stack
  (`LockInv`), since it would have to wait for itself before it entered again, and that
  nobody else takes away the message that a dump is showing (`FrontInv`).
* `Delivered` (the property `DeliveredOnce`): however often executors are moved, sinks
  and error handlers fail and the configuration changes, each message reaches each sink
  that `log()` found it for once, with all its parameters, flushed if its level asks for
  it. The strengthening (`Delivery`) says what has become of a message in each place of
  the call that carries it (`Carries`): nothing while the caller holds the executor, the
  sinks before the loop's place while it is delivered, all of them when it is about to be
  traced. A message has one such call at most (`CarriersOK`), and a step of another call
  changes nothing for it (`Same`, `SameKept`).
* `BacktraceIsShown` (the property `BacktraceShown`): `Dumping` says that the queue holds
  an increasing part of what was traced, in which what was shown comes before what is
  still there; that one frame at most shows the front message, the one with the mutex;
  and that the sinks it has passed have been shown that message or have thrown.

`RegistryProofs` proves, for any threads, names, levels and tables, any number of
loggers, pools, flushers and calls, the safety properties that the run checks, in five
parts that are inductive one after the other:

* `ConfigOK`, `PoolOK` and `MapInv` give `TypeCorrect` and `DefaultRegistered`.
* `WorkerInv`: `FlusherAlwaysOwned` rests on `flusher_mutex_`: only one thread stops a
  flusher, and the registry's own is never among the stopped ones.
* `SettingsAlwaysAgree` is inductive relative to the map: each operation changes the
  table and the loggers in one critical section.
* `ShutdownInv`: what `shutdown` has cleaned stays clean although it works in three
  critical sections; `ShutdownAlwaysCleans` follows, as an action property.

`DupFilterSinkProofs` proves the safety properties of the run `sinks`, for any threads,
messages, levels of the children and times, any size of the ring, any number of parts
of a message, connections and changes, and whatever a child throws. The invariant has
four parts:

* `Threading`: each mutex is with one thread at most, and a thread is at a child of the
  list; the list cannot change meanwhile. `TypesHold` needs it for the TCP sink.
* `RingInv`: the ring is well formed and holds logged messages and announcements only
  (by the facts of `CircularQProofs` about pushing), and the formatter's cache is empty
  or stands for the second that it names. `OwnTimeFormatted` follows although the cache
  is a recursive function: `CachesFacts` shows that a function with that equation exists,
  and that the first message with another's time would follow one with its own.
* `TcpInv`: the connection in use is the latest; what is out of the message that is being
  sent is the end of its stream; nothing is out of a message that is still to be sent;
  otherwise the stream ends with a whole message. `StreamsFramed` is the rest of it.
* `FilterInv`: what a child has missed is at most what it was told of plus the counter;
  a thread that delivers the announcement has told the children that its loop has
  passed, and one that delivers the message has told them all. `SkipsTold` follows.

The assumptions are those of the modules: every time has a second other than 0, an
announcement is an item and its payload that of no message, the bound on connections
admits the one that the constructor may make, and the children are one
TCP sink and one ring buffer, which may be in the list in any order and more than once.

All safety and action properties of the runs are theorems now. Model-checked only is
liveness (`EnqueueReturns`, `QueueDrains`, `DestructorReturns`, `EveryMessageSettles`,
`CallsReturn`), which is out of the prover's reach, and the two runs that end in a
violation.

## Findings

Each of these has a run that ends in the behaviour described:

* `timed_sink_date`: the timed sinks take the name of a file from the message and the
  next rotation from the clock (`sinks/daily_file_sink.h:108-110`). The first message of
  a day makes the sink rotate. If it waits in the queue of an asynchronous logger until
  after the following midnight, the sink opens the file of the message's day and sets
  the next rotation to the midnight after, so the messages of the new day go to the
  earlier day's file. Late messages of a day whose file is already open do no such harm:
  they come before the next rotation and just go to the open file. In the trace, with
  periods of two ticks, the message of time 3 is handled at time 4, opens file 1 and
  sets the next rotation to 6; then the message of time 4 is written to file 1. The run
  lets the clock stand still during calls, so lateness alone is to blame.
* `registry_flush`: `flush` of an asynchronous logger throws when its pool is gone
  (`async_logger-inl.h:48`), and from the flusher's thread nobody catches it
  (`details/periodic_worker-inl.h:29`), which ends the process. Calling
  `init_thread_pool` again while such a logger is registered is enough.

## Observations

What was seen on the way and has no run of its own. Some of it shows in an operator or
in the condition of a property, some needs another instance of an existing run.

*Queue and pool.*

* A `thread_pool` with `q_max_items` = 0 cannot be destroyed
  (`details/thread_pool-inl.h:44`): the constructor checks the number of threads but not
  the size of the queue. `NoPlaceNoEnd` proves it; with `QMaxItems = 0` in
  `MCThreadPoolFair.cfg`, `DestructorReturns` fails.
* `details/mpmc_blocking_q.h:8` says that `enqueue_nowait` returns false when there is
  no room; the function returns nothing and overruns the oldest item (`Overrun`).

*File sinks.*

* With `rotate_on_open`, `rotating_file_sink` keeps counting the size of the file that
  it has just renamed away (`sinks/rotating_file_sink-inl.h:34-38`), and rotates again
  too early, which costs the oldest file; `RotatesBySizeAlone` excepts it.
* When `rotating_file_sink` cannot reopen the log after a rotation, each further
  message rotates again without a log to move, so the old files move up and, after
  `max_files` such messages, only one is left, as `log.max_files`. The files stay
  in order and the oldest are the ones lost.
* When a rename fails twice, the log is truncated on purpose, and its messages are
  lost while older ones are kept; `OnlyTheOldestIsLost` excepts this.
* A daily sink that is started before the rotation instant of the day opens the same
  file again at that instant and queues its name twice (`sinks/daily_file_sink.h:181`):
  it keeps one file too few, or, with `max_files` 1, deletes the current one. With
  `RotateAt = 1` and `MaxFiles = 1` in `MCTimedFileSink.cfg`, `RetainsLastFiles` fails.
* If a timed sink cannot open the new file, a late message, which does not ask for a
  rotation, is given to `fwrite` with a null stream (`details/file_helper-inl.h:91`);
  `OnlyLateFindNoStream` says that no other message is.
* With the clock going on during calls, a late message is not needed for what
  `timed_sink_date` shows: a period that ends between lines 108 and 110 of
  `sinks/daily_file_sink.h`, or between lines 80 and 87, in the constructor, which reads
  the clock again for the rotation, has the same effect. With `SPECIFICATION Spec` in
  `MCTimedFileSinkDate.cfg`, `RotatesByDate` fails in that way.
* A timed sink that cannot write the message that made it rotate skips the deletion,
  and the file is never deleted; `RetainsLastFiles` excepts this, and a constructor
  inside which a period ends, which does not find the file that it has opened.

*Logger.*

* A handler (or a sink) that traces or dumps while its own thread is in `foreach_pop`
  waits for itself (`details/backtracer-inl.h:60`): `WaitsForItself`.
* An exception that leaves `foreach_pop` leaves the message in front in the queue; the
  next dump shows it again to the sinks that already had it (`BacktraceOnce`).

*Registry.*

* `spdlog.h:128-131` says that the default API may not be used while
  `set_default_logger` is called; `drop`, `drop_all` and `shutdown` let go of the
  default logger too, and are as unsafe for a thread that uses the raw pointer
  (`details/registry-inl.h:108`).
* An asynchronous logger whose creation overlaps with a shutdown is left registered
  without a pool, or a new pool survives the shutdown (`details/registry-inl.h:252`);
  `ShutdownCleans` is therefore about what there was when it was called.
* `set_levels` forgets the levels that an earlier call configured, while `set_level`
  keeps the table (`details/registry-inl.h:172-180`, `271-290`): a logger created after
  `set_level` may get the level of its entry, which the existing ones have lost
  (`overridden`).
* `cfg/env.h:12` announces that unknown levels fall back to info; they are ignored
  (`cfg/helpers-inl.h`). The `*=off` of `cfg/env.h:20` names a logger called `*`.

*Other sinks.*

* `sinks/dup_filter_sink.h:16` speaks of identical messages; only the payload and the time
  count (`Passes`). Logger, level and parameters may differ, and a message below the level
  of a child may suppress one above it. The example in line 34 announces 3 skipped
  messages where the code counts 2.
* The announcement has level info, so a child that takes higher levels only is not
  told (`SkipsAreTold`). After a child has thrown, the same number may be announced
  again to the children that have heard it.
* A `::send` that returns 0 ends the message as if all had been sent
  (`details/tcp_client.h:137`); `StreamsAreFramed` leaves such connections out
  (`gaveUp`). What the system has taken and the network loses, the sink does not see.
* `pattern_formatter` starts with second 0 in its cache and a zeroed broken-down time,
  so that a message of the first second of 1970 would be written with it;
  `DupFilterAssumption` leaves that second out.
* `json::dump` throws on text that is not UTF-8, and of two populators with the same
  key the order of pointers decides which one wins.

## Not modelled

* *Formatting and layout of text* (`pattern_formatter` but for its cached time,
  `json_formatter`, `populators`, `fmt_helper`): sequential code that turns a message
  into characters. No state but the caches survives a call; the cached offset of the
  time zone, which is up to ten seconds old by design, is left out.
* *Vendored libraries* (`json.h`, `fmt/bundled`), about four fifths of the lines under
  `src/`. They are third-party code without a part in what this system does
  concurrently, over time or under failure, and the model treats their results as
  given. Of spdlog's own code about half is formatting, platform sinks and wrappers
  of the kind described here. The share of all lines that the models cover is
  therefore small.
* *Console, syslog, Android, Qt, MongoDB, Windows sinks, `udp_sink`*: each call formats
  a message and makes one call of the platform. `basic_file_sink` is a `file_helper`
  with no state of its own.
* *`log_msg_buffer`*: that views point into the buffer's own storage after a move is
  a matter of pointers, which records do not have.
* *`full_formatter`'s own cache* of the date and time as text
  (`pattern_formatter-inl.h:946`), which is kept by the second like the broken-down time
  of the pattern. Only the latter is modelled (`FormatsOwnTime`).
* *Parts of modelled components*: `clone`, `swap` and copying of loggers and
  backtracers; `set_formatter` and `set_error_handler` of a logger; the default error
  handler's limit of one report in a second; changes of the vector that `sinks()`
  returns; user functions in `apply_all` and `on_thread_start`; the parsing of level
  strings; time zones, summer time and a clock that is set back.
* *Error handlers on worker threads.* In `ThreadPool` a sink's exception stays with its
  sink; what a handler does with other loggers there has no bound.

## Plan

Done: the queue, the pool and the asynchronous logger; the rotating and the timed file
sinks; the logger with executor and backtracer; the registry with factories, flusher
and shutdown; the filtering, network and ring buffer sinks; a theorem for every safety
property that a run checks.

Left, in the order of what it would add:

1. Registry and `ThreadPool` composed: shutdown releasing the pool that workers drain.
2. Error handlers on worker threads that log to another asynchronous logger.
3. An abstract specification of what the file sinks promise, a window on the log, and
   that both implement it.
4. `clone` and `swap` of a logger with the copied backtracer.
