# A verification project for Mseastar

Mseastar is a C++ re-implementation of the Seastar framework: one *reactor* per
core runs tasks to completion, cores share nothing and talk through
single-producer single-consumer rings, and everything that waits (disk, network,
timers, other cores) is a future whose continuation is a task. On top of it the
repository has an HTTP server and a memcached server. This directory models what
depends on orders of steps nobody can test, model-checks it with TLC and proves
the main results about the reactor's core with TLAPS.

All paths below are relative to `src/include/future/` unless they say otherwise;
`cc` is `future_all12.cc` and `hh` is `future_all12.hh`.

## 1. Inventory

| Component | State it keeps | Operations | Talks to | Hard part | What makes it correct |
|---|---|---|---|---|---|
| ring `spsc_queue` (smp.hh:28) | `_head`, `_tail`, `_buffer` | `push`, `pop` | two threads | interleaved index and slot accesses, wrap-around | no slot is accessed by both; a bounded FIFO |
| `smp_message_queue` (smp.hh:104, cc:3318-3442) | two rings, `_tx`, `_completed_fifo`, counters | `submit`, `process_incoming`, `respond`, `process_completions` | ring, tasks, the other reactor | partial batches, full rings | items start in order, none lost, all answered |
| sleep and wakeup (cc:1506-1532, 1959-1998, 3377-3389, 5838-5853) | `_sleeping`, barrier lock, signal mask | `try_enter_interrupt_mode`, `sleep`, `maybe_wakeup` | rings, signals, `membarrier` | store buffers, signals, several producers | no message waits for a sleeping reactor |
| futures and tasks (future.hh) | `future_state`, promise and future pointers | `then`, `set_value`, `forward_to`, moves, destruction | task list | objects that point at each other and move | each future shows its outcome, no error disappears |
| loops, joins, gates, shared futures (distributed.hh:14-346, cc:1809-1926, 2318-2358) | counters and states shared by continuations | `repeat`, `do_until`, `parallel_for_each`, `when_all`, `with_gate`, ... | futures | calls that end in any order, throw, fail, never end | the join resolves once, after the last, with an error if there was one |
| threads (cc:2268-2432, 3149-3311, 3457-3515) | contexts, links between them, preempted list | `get`, `yield`, `join`, `async` | task list, timers | who returns to whom | one thread at a time, all come back |
| pollers (cc:1298-1355, 5741-5811) | `_pollers` | register, move, replace, deregister | reactor loop | destruction while the list is walked | no dead poller is called, each live one is |
| epoll backend, `pollable_fd` (cc:1356-1466, 2069-2215, 6542-6657) | `events_requested/epoll/known` | `readable`, `abort_fd`, `wait_and_process`, reads, writes, accept, connect | kernel, fibers | readiness guessed, abort against completion | who waits is watched, and answered when it is ready |
| timers (timer.hh, cc:3076-3130, 3700-3742, 5494-5643, 5800-5831) | the wheel, the expired list, the alarm, `_lowres_next_timeout` | `arm`, `rearm`, `cancel`, `complete_timers` | reactor loop, signals, callbacks | bucket arithmetic, callbacks that change timers | exactly the due timers expire; none is forgotten |
| semaphore, `condition_variable`, `expiring_fifo` | units, waiters with timers | `wait`, `signal`, `broadcast`, expiry | timers, promises | timeout against grant | units exact, each waiter answered once |
| disk I/O (io_queue.hh, cc:1232-1296, 5556-5597) | class queues, two semaphores, `_pending_aio` | `queue`, `submit_io`, `flush_pending_aio`, `process_io` | kernel aio, sleep | units across four tasks, partial and failed submission | no unit lost, each request once, in order, answered |
| syscall thread pool (cc:5675-5712, 5777-5799) | two rings, room semaphore, idle flag | `submit_item`, `work`, `complete` | kernel thread, sleep | store buffer of the thread | every call completes |
| files and handles (cc:6766-7716) | descriptor, shared count | open, `dup`, `close`, calls | disk I/O, syscall thread | shared between reactors | closed once, by the last |
| directories (cc:7424-7523, 7730-7950) | a buffer of entries; the tree | `list_directory`, `recursive_touch_directory`, `check_direct_io_support` | syscall thread, stream | callers that leave, failing calls, several at once | every entry once; what a caller was told of is there |
| streams (stream.hh, hh:1831-2076, cc:2935-3060) | buffers, reads ahead, writes behind | `read*`, `skip`, `consume`, `write`, `flush`, `close` | files, sockets | answers in any order, errors behind | data in order, errors reported, close waits |
| packets, deleters, buffers (packet.hh, util/deleter.hh, temp_buffer.hh) | shared chains of blocks | `share`, `append`, `trim_*`, `release` | allocator, other cores | ownership chains that are cut | each reads its data, each block freed once |
| memory (cc:4851-5474) | page spans, pools, cross-cpu lists | `allocate`, `free`, `reclaim`, `shrink` | all threads | frees from other cores, reclaim inside an allocation | spans and lists exact, nothing freed twice |
| sockets (cc:6069-6205) | listening sockets, handoff tables | `accept`, `abort_accept`, `connect` | epoll, message queue | handoff across cores | each connection reaches one reactor |
| UDP channel (cc:6208-6426) | a descriptor, two headers, two promises | `receive`, `send`, `close` | epoll | calls that overlap | a datagram and its buffer belong to one call |
| sharded services (distributed.hh:318-741, cc:2475-2535) | instances, references | `start`, `stop`, `invoke_on*`, `local_shared`, `foreign_ptr` | message queue | stop with calls under way | stopped once, freed on their core |
| memcached (`src/include/memcached`) | cache, slab classes, pages, timers | commands, expiry, eviction, reclaim | timers, streams, allocator, shards | items held by answers | the lists agree, answers keep their items |
| HTTP (`src/include/HTTP`) | connections, queue of replies (queue_.hh) | accept, read, respond, stop | streams, sockets | pipelining, client loss, stop | replies in order, stop once and at the end |
| startup, resources (cc:4085-4405, `src/include/resource`) | options, cpus, memory, I/O queues | `configure`, `allocate` | threads | what is used before it is there | every reactor gets its share, or the start is refused |
| logging, JSON, utilities | formatting, containers | | | none that a model would find | |

`PROJECT.json` lists every component with its status, and under "hazards" what
is hard to test, line by line, with the properties that cover it.

## 2. Modules

```
BoundedFifo <--implements-- SpscRing <- SpscRingProofs
SmpQueue <- SmpQueueProofs          (its two rings are the FIFO that SpscRing implements)
SmpQueue, Futures, Loops                            <- MCSmpQueue
Futures, SequenceCounts <- FuturesProofs
ReactorSleep, PollableFd, Pollers, Threads, SequenceCounts <- ReactorProofs
ReactorSleep, PollableFd                            <- MCReactorSleep
TimerSet <- ReactorTimers <- SteadyTimers <- TimedSemaphore
            ReactorTimers <- LowresTimers
LowresTimers, Threads, Pollers, Startup, Sharded, UdpChannel <- MCLowresTimers
Semaphore <- IoQueue, SyscallPool
IoQueue, SyscallPool, FileHandles                   <- DiskIo
DiskIo, SequenceCounts <- DiskIoProofs
Sharded, SequenceCounts <- ShardedProofs
Packets <- Buffers
CpuPages, Buffers, FileInput, FileOutput, Directories <- MCMemory
Slab <- MemCache <- Memcached --implements--> CacheMap
OutputStream <- HttpServer
HttpServer, SequenceCounts <- HttpServerProofs
```

An operator whose name ends in `_mut` is wrong on purpose: it is the plausible
mistake with which a run shows that a property notices it.

An MC module with several *workloads* lets `Init` pick one of them; the others
stand still. This is done only where nothing passes between the parts but what
the model of each already lets its environment do (its header says what), so
that interleaving them would repeat states and show nothing.

Two facts of the code shape all modules. `need_preempt()` returns true (cc:99),
so every continuation becomes a task, also of a future that is ready. And
`run_tasks()` empties the task list before the pollers run (cc:4074-4083).

### The reactor

**SpscRing** models `push()` and `pop()`, one shared access per step. The
refinement to `BoundedFifo` maps the slots between `_head` and `_tail` to a
sequence; operations take effect at the store of the index.

**SmpQueue** is one `smp_message_queue`, from `submit()` to the deletion of the
work item, with the two threads moving in steps of one ring operation.

**ReactorSleep** models the idle loop and `maybe_wakeup()` over a memory in which
a producer's stores are buffered and reach memory in any order, at the latest
with a system call or the sleeper's `systemwide_memory_barrier()`, which executes
a fence on every thread, one thread per step. Only *that* a ring holds items is
kept. The pollers after `smp_pollfn` may refuse at any time
(`LaterPollerRefuses`). **PollableFd** is the wait itself: events requested,
watched and remembered by guess, and the calls of fibers that wait for them. Its
descriptors are one socket and one listener; every call of the source on a
descriptor is there.

**Futures** has promises, futures and continuations as places that are moved,
forwarded, set, chained, dropped and destroyed with an exception inside; places
are used again. A body does not return a future that waits for itself. **Loops**
has the forms built on them, one use at a time; nesting is the contract of the
futures they return. Two waits for ever are stated, not excluded: a function that
throws inside `with_gate()` (cc:2355), and a stop condition of `do_until()` that
throws after the first round (distributed.hh:79).

**Threads** are stacks that enter each other and return to who entered them last.
`next_scheduling_point()` keeps a function-local static that all reactors share;
one reactor is modelled. A second `yield()` of a thread whose group has no time
left fails the assertion of `get_future()`: `ThreadsExact` says exactly when.
**Pollers** is the list with the tasks that change it, while `poll_once()` walks
it by index.

**TimerSet** holds the timer wheel as operators on a record. **ReactorTimers**
adds timers, tasks and `complete_timers()`: while the expired list is walked each
callback is a phase in which timers are armed, canceled and destroyed.
**SteadyTimers** adds the alarm and its signal, **LowresTimers** the cached
`_lowres_next_timeout`; its first timer is the periodic `load_timer`, which
`reactor::run()` arms before the loop and cancels after it (its callback touches
no timer, so that a callback phase of it which does is one more behaviour, not one
less). Canceling a timer of the batch being run goes through an
iterator nobody assigned: the model ends the process there (`EraseUnassigned`).
**TimedSemaphore** puts the waiters of a semaphore or condition variable on these
timers. A dead entry stays in the list behind a live front; a waiter that times
out in front does not wake the next, who waits for the next `signal()`. A
`signal()` from a callback of the same batch would be an `EraseUnassigned`, and
is not in the workload.

**Semaphore** gives `wait()` and `signal()` as operators. **IoQueue** composes
two of them with the class queues, the batch, the kernel and the loop:
`io_submit()` takes a prefix, refuses the first request with EBADF, or ends with
EAGAIN. Accumulated costs are floating point; any queued class may be next.
**SyscallPool** is the thread with its store buffer: it may load
`_main_thread_idle` before its completed call is visible. The reactor then sleeps
over the call until the next alarm, at most the 1 s of `load_timer`; the comment
at hh:1483 says that this cannot be. `CallsExact` allows exactly this one
(`AtMostOneMissed`). **FileHandles** is who holds a descriptor; when
`make_file_impl()` throws (cc:7370) nobody closes it. **DiskIo** composes the
three with the reactor's loop, in which a poller's refusal keeps it awake.

### Data

**CpuPages**: spans of pages, and over them the pools of small objects and the
calls. Every call of the owner is one action, a free from another cpu a load and
a compare-and-swap. An object is one page, size classes are left out. A failing allocation does not look at the
cross-cpu list, and is modelled so.

**Packets**, **Buffers**: chains of deleters, fragments with
internal data and headroom, and the holders that share, cut, join and give them
away. `append()` on a shared chain (deleter.hh:221) moves its rest out of the
others' reach: the history variable `heap.cut` names the blocks for which memory
is then freed while read, and nothing else is allowed to be. `trim_back()` adds
what it cuts to the headroom of internal data (packet.hh:530), so that a header
then overwrites data (`under`). `packet_data_source::get()` (cc:3554) reads and
releases in an unspecified order (`early`).

**FileInput**, **FileOutput**: streams over read-ahead and write-behind. The
exact statement of what is wrong in them is part of the property: a `close()`
after a `skip()` that cut a read under way, a skip past the end inside an issued
read (hh:1989), one beyond the length (hh:1979), a partial buffer lost by
`read_exactly()` (stream.hh:1522), an endless default `skip()` at the end
(cc:5652); an error is reported once, puts after it are dropped with success, a
short `dma_write` is taken for a full one (cc:3012), and a write after an
unaligned flush fails its assertion. **Directories** has `list_directory()`,
whose error is lost: a promise that is destroyed tells nobody (hh:420), so `done()`
waits for ever. Only a `file_impl` of the program's own can be listed, as
`make_file_impl()` throws for all but block devices (cc:7277). For the same reason
`recursive_touch_directory()` always fails at its first flush (`sync_directory()`, cc:7931)
and `check_direct_io_support()` once it has opened its file: what is modelled is
what they leave behind (directories, test files, descriptors) when several fibers
run them. The durability of what was made is no question, as nothing is ever
reported as made.

**UdpChannel**: one header and one promise per direction, used in a task after
the wait. Calls that overlap take each other's buffers: freed twice, used after
being freed, a failed assertion, a closed descriptor. A call that waits while
another of its direction does overwrites its promise (cc:1378): the continuations
of the earlier one are destroyed with it (hh:420), so that it never ends and its
buffer is never freed (`lost`). Each is reached by the workload and stated exactly. The server of memcached makes one call at a time, and
for it there is no exception. `cmsg_with_pktinfo` (cc:6249) declares a type where
it means a member, so the destination of a datagram is never filled in; it is
left out.

### Services

**Startup** is the main thread and the threads of the other cpus, with barriers.
Stated exactly: fewer cpus in the set than shards index out of a vector; a set
without cpu 0 fails an assertion, as coordinators are looked for on the first
cpus; `--smp 0` divides by zero; the other threads look at their network stack
before it is set (cc:4355), a null reference that the compiler may fold or not,
which is a choice here. `reactor::stop()` does nothing (cc:4089), so the program
goes on for ever.

**Sharded** is a service on two cores with one caller, one loan and two starts.
The last reference dropped on another core without `foreign_ptr` resolves the
wrong core's promise; the property says what may then happen. `map_reduce()` is
commented out in the source.

**HttpServer** is the sharded server over the POSIX sockets: accept loops,
handoff, the reading and the responding fiber, with a `queue_` of replies and
**OutputStream** (the batched flush of a socket) between them. A responding fiber
that fails leaves its reader waiting (`Orphaned`, httpd.hh:163); an abort between
readiness and the next `accept()` is lost (`AbortMissed`, cc:6085); a server
without listener and connection never reports its stop; a connection handed to a
stopped shard is parked for ever (cc:6159). `EverythingEnds` holds but for these.

**Slab**, **MemCache**, **Memcached**: the pages and classes, the cache with
expiry and versions, and connections of two cores whose answers hold items. It
implements **CacheMap**, a map from keys to versions. An item that leaves the
cache while an answer holds it returns to the LRU list with its last reference;
an eviction then unlinks it from where it no longer is (slab.hh:44, :348). A
one-object class lists a used page as free (slab.hh:226). `CacheExact` says which
answers and allocations may end the server.

## 3. Runs

| Run | Asks | Bounds, and why they suffice |
|---|---|---|
| spsc_ring | no data race, refinement of the FIFO, delivery | 4 slots, 3 items: indexes wrap, the ring is empty, full and in between; the proof covers every capacity |
| reactor_sleep | no lost wakeup, cleared flag means signal, signals seen, items noticed; `WaitersWatched` | 2 reactors that send to each other and sleep (proved for any number); one socket with 2 units each way, one listener with a backlog of 1 |
| smp_queue | order, one place, counters, all answered; `FuturesExact`; `LoopsExact` | 4 items, ring of 2, batches of 2: partial and full; 2 promises, 3 futures, 2 continuations: chains of two forwards; 3 calls or iterations in a loop, 2 takers of a shared future |
| smp_queue_fill | violation, see below | 6 items: the producer refills the ring during a batch |
| steady_timers | alarm covers every timer, callbacks never early, every timer fires; `SemaphoreExact` | 2 timers, one may be periodic, times below 8, clock up to 3: set, reset, replaced and fired alarms; 3 waiters, one with a deadline, 2 units |
| lowres_timers | `TimersInPlace`, `ExpiresExactlyTheDue`, `TimeoutNotLate`; `ThreadsExact`; `PollersExact`; `StartupExact`; `ShardedExact`; `DatagramsExact` | 2 timers and `load_timer`, clock up to 4: several in a bucket, spliced at different bits; 3 threads, 2 of them in groups; 2 pollers; 3 cpus with 264 command lines; 2 cores, 2 starts, 3 kinds of service; 3 calls, 2 datagrams, 1 send in the socket buffer |
| steady_signal, cancel_expired | violations, see below | 2 timers |
| io_queue | units, order, places, sleep, calls, closes, all answered | 5 requests, 4 and 2 units, batches of 2, 2 classes, one bad descriptor; 3 calls on rings of 2; 3 opens of 2 file objects: waiters on every semaphore, partial, refused and failed submissions, a handle that outlives its file |
| memcached | `CacheExact`, refinement of `CacheMap` | 3 requests on 3 keys, 2 pages, 2 classes, 2 connections of 2 cores: evictions, expiries, and reclaims and replacements under an answer. An eviction from the LRU list while an answer holds an item of the class takes more requests than the bound; a reclaim, which erases the same way, is reached |
| http | `StreamExact`, `ServerExact`, `EverythingEnds` | 2 shards, 2 connections, 3 connections and requests together, a queue of 1, buffers of 2: full queues, partial writes, handoffs |
| allocator | `MemoryExact`; `BuffersExact`; `StreamsAreExact` | 6 pages, 3 lists, 2 remote cpus (symmetric), pools of 2 pages; 2 packets and 2 buffers, 6 blocks, 5 calls; a file of 5 units, alignment 2, buffers of 4, 3 calls; directories of 2 and 3 entries; 2 fibers that touch or check paths of 1 to 3 names |

A property named `...Exact` joins what must hold of one component with the exact
conditions under which the code breaks it: it fails if the component goes wrong
in any other case.

`CHECK_DEADLOCK FALSE` stands where the modelled part may stop: all requests made
and answered and the reactor asleep, the clock at its horizon, a stream closed,
or the process dead. In lowres_timers deadlock is checked: a start that hangs, or
threads that wait for each other, would be one.

### Fairness

* spsc_ring: a thread that began an operation finishes it, and the consumer keeps
  polling; nobody has to push.
* smp_queue, first workload: both reactors keep polling; a response gets its turn
  between two polls because `run_tasks()` empties the task list.
* reactor_sleep, first workload: a thread that is not blocked goes on, a pending
  unmasked signal is delivered, buffered stores drain. The loop has strong
  fairness against its own pushes, which are finitely many between two of its
  steps. No event and no message is assumed.
* steady_timers: time passes, the kernel fires a due alarm, callbacks return and
  the signal poller comes round again.
* io_queue: the reactor and the syscall thread go on (the alarm of `load_timer`,
  set for every second at cc:3855, wakes a reactor that sleeps), the kernel
  completes what it took and does not answer EAGAIN for ever.
* http: only the reactors' own steps (`WF_vars(ReactorStep)`). Nothing is assumed
  of clients or of handoffs.

### What the violation runs show

* **FillInArray** (cc:3406): `process_queue()` pops while the producer refills
  the ring, so a batch may fill all of `items[queue_length + PrefetchCnt]`, and
  the fill of the prefetch slots after it writes past the end.
* **ExpirySignals** (cc:3830): when a callback cancels the last queued timer, its
  set is empty at the end of `complete_timers()` and no alarm is set, but `_next`
  keeps that timer's expiry. A timer armed later for a later time lowers nothing,
  so `add_timer()` sets no alarm either (cc:3089), and no signal comes when it
  expires, although the comment at cc:3085 says that one does. This is why
  `AlarmCovers` and `EveryTimerFires` are checked with callbacks that arm but do
  not drop (`CallbacksDrop`): within that boundary no timer is lost. The
  low-resolution clock has the same code and is spared, with no such boundary,
  because `load_timer` keeps its set from being empty (`TimeoutNotLate`).
* **CancelSucceeds** (cc:3115): `expired_it` is never assigned, so canceling a
  timer of the batch erases through a null iterator.

## 4. Theorems

Proved by TLAPS for all values of the constants, from the named assumptions of
the modules only: sizes and lengths are positive numbers, bounds are numbers,
there are finitely many files, and names differ from each other. Each inductive
invariant was first checked by TLC as an invariant of its run.

* `SpscRingProofs`: `Inv` (types, the size never above what the program counters
  allow, the copy in flight equals the slot) is inductive. From it follow
  `TypeCorrect`, `NoDataRaceHolds`, and `RingImplementsFifo`: every behaviour of
  the ring is one of the bounded FIFO. The arithmetic of the wrap-around is in
  `RingArithmetic` and `SlotArithmetic`, the effect of the two publishing steps
  in `PublishTailContents` and `PublishHeadContents`.
* `ReactorProofs`: `IInv` is inductive for any set of reactors and routes.
  `NoLostWakeup` alone is not: it needs to be known before the reactor blocks.
  `FencedIsCovered` says that after the barrier has fenced a producer, an item
  still in its buffer was pushed after the flag went up, so the producer will see
  the flag; `PolledIsCovered` says the same of the items that became visible
  after the last poll looked at the ring; `ClearedMeansNotified` closes the case
  that someone else has already taken the flag down. From `IInv` follow
  `TypeCorrect`, `NoLostWakeupHolds`, `ClearedMeansNotifiedHolds`,
  `BarrierLockHolds` (the lock has at most one holder; no run repeats it) and
  `SignalsSeenBeforeSleepHolds`.
* `SmpQueueProofs`: `IInv` is inductive for every ring length, batch size and
  prefetch count and any number of items. `StartedInOrder` is an equality of
  concatenations; its inductive form `InRuns` says by index that every sequence
  on the way holds a run of consecutive numbers beginning where the sequence
  ahead of it ends. `Counted` adds to `QueueLengthExact` what a batch has moved
  or popped and not yet counted, `BatchesReset` says that this is nothing between
  batches. There is one lemma per action. From `IInv` follow `TypeCorrect`,
  `StartedInOrderHolds` and `QueueLengthExactHolds`. The way back has no order:
  `Accounted` says that what is on it has no duplicates and, with the requests
  that are executing and those that are answered, is exactly what was started.
  With `InRuns` it gives `ExactlyOnePlaceHolds`.
* Also in `ReactorProofs`, of the epoll backend (`FdInv`): for any number of sockets, `WaitersWatched` needs to know
  that a closed descriptor's state is blank (`ClosedIsBlank`), that whoever waits
  or goes on has its descriptor open (`UsersHaveIt`), and that nobody guesses a
  listener to be ready (`ListenerNotGuessed`). The last is why `accept()` finds a
  connection when it is woken, though it does not look whether it is to try again.
* And of the pollers (`PollersSound`), for any number of them: `PollersExact` needs
  to relate three things at once. A variable that holds a live poll function is
  the only one that does, and either its function is in the list or a queued
  task names that variable (`SlotSound`); a function that is gone is in no list,
  a dummy is in the list with a task to take it out (`FnSound`); a task that is
  not cancelled names a variable that still waits for it (`JobSound`). The last is
  what moving a poller would break if its task were not told.
* And of the threads (`ThreadsSound`), for any number of them. `Nested` has the way
  back from the current context: a sequence in which every context that was entered
  occurs once and each is linked to the one before. Entering a context makes it one
  longer (`NestEntered`), `switch_out()` one shorter (`NestLeft`), and that it ends
  at the reactor's own context is why `link` is never stale. `ContextSound` says
  that a thread is out if and only if it waits for an event, is preempted, has a
  task or joins a thread that has not ended, and never for two of them; that
  `join()` is only of another thread, by one thread; and that what `async()` keeps
  is freed by a task of a thread that is over. So whoever destroys a thread finds it
  over: its owner would still be waiting otherwise. From it follows
  `ThreadsExactHolds`, with the one assertion that can fail (`AbortSound`).
* `SequenceCounts`: lemmas on how many entries of a sequence are of a kind, and
  what appending, concatenating, taking the head or a part does to that number;
  and the same for which entry is ahead of which (`Has`, `Ahead`).
* `DiskIoProofs`: the I/O queue, the aio context and the syscall thread pass
  requests and calls through a dozen sequences. The invariant counts:
  `RequestsCounted` and `CallsCounted` say that the places of a request or call,
  summed over all of them, are one; `FairUnits`, `AioUnits` and `RoomUnits` say
  for each semaphore that the free units and those of the tasks, requests and
  calls that carry one make its total; `WorkQueued` that there are as many
  dispatchers as queued requests, which is why `execute_one()` never pops an empty
  class. These sums are inductive, and every action moves one entry from one term
  to another, or a batch of them. `Resting` says what a reactor on its way to
  sleep has seen (no tasks, all aio units free) and `Missed` what the thread may
  hold back, with `Sane`: nobody waits for a free unit. From `IInv` (`InvHolds`)
  follow `RequestsExactHolds`, `CallsExactHolds` and `NoSleepOverIoHolds`. In the
  last the reactor's own sums say it all: no task and all aio units free leave
  nothing in the kernel, so that all units of the fair queue are free, nobody
  waits for one, and the classes are empty. `IssuedInOrderHolds` needs an order
  in place of counts: `InOrder` says of two requests of one class that the later
  one is not ahead in the queue, among the tasks, in the wait or in the batch of
  the earlier one, and in no stage that follows. Three facts of the sums carry it:
  a request that is not made is nowhere (`Unmade`), nobody has a free unit while
  another waits for one (`Sane`, in `StartOrder`), and the waiters that get units
  are the first of the list and keep their order as tasks (`IssueOrder`).
* The last part of `DiskIoProofs`: `ClosedByTheLast` speaks of open descriptors, the shared
  count of the handles and the calls on their way. `SharesExact` says that a
  counted file or handle has a count equal to the number of holders of its
  descriptor and an uncounted one is the only holder, so `fetch_add(-1)` tells
  the truth about who is the last. `OpensExact` and `ClosesExact` say that an
  open() or close() on its way has a descriptor of its own which nobody has, and
  whether the thread has made the close() is read off `BeforeCount`, the number of
  its places ahead of the thread, with the counting invariant. From both
  (`FilesHold`) follows `ClosedByTheLastHolds`.
* `HttpServerProofs`: the two fibers of a connection share the queue of replies,
  and the writing fiber shares the stream with the flush poller; the proof is by
  two facts about each connection. `QueueSound` says that a promise is outstanding
  only for what is not there, and that a fiber which runs on, or is going to,
  finds the space or the reply it was promised: `notFull` and `notEmpty` are the
  memory of who took what in between. `StreamSound` orders the parts of a stream:
  who has a put, that a flush is never scheduled while the writing fiber is in one,
  and that the wire followed by what the stream still holds (`Unsent`) is what was
  written, as long as the socket is whole (`Whole`); each operation of the stream
  moves data between the parts of that concatenation. `Follows` is what a step may
  do to one connection; a step of one leaves the others as they are (`OnlyStep`).
  `StoppedIsQuiet` is inductive by itself, given that connections come from
  clients (`Known`). From `IInv` follow `ServerExactHolds` and `StreamExactHolds`.
* `ShardedProofs`: a service on any number of cores, with any number of callers.
  `start()` and `stop()` wait for all cores, and what makes that wait end is that
  every core still waited for is accounted for exactly once: by its request on the
  way, its answer on the way, an instance that is stopping, one that is held, or a
  release that is on its way (`Token`, one number per core). `CoreSound` adds to it
  the references of an instance, which are those of its slot, of calls, of the loan
  and of releases on their way; `CallSound` says where each call is. An action of
  the model runs several functions in a row, and between two of them these sums are
  off by what the first has taken and the next will put back, so that `Sound` has
  three sets of debts as parameters (`owes`, `spare` and `missing`) and there is one
  lemma for each operator of the module (`CreateSound`, `StopSound`, `ReleaseSound`,
  ...), composed along the calls. The invariant `Right` is `Sound` without debts
  while nothing has crashed, and says which crash it was after one (`CrashOK`). From
  it follows `ShardedExactHolds`; `NotHanging` reads its part about waiting off the
  tokens.
* `FuturesProofs`: any number of promises, futures and continuations. `FuturesExact`
  says that each future and each continuation shows the outcome of the promise it
  stands for; to keep it one must know who is going to resolve that promise. `Sound`
  says so: no two promises resolve one cell (`Distinct`); a promise has the state
  itself or in the one continuation that waits, and is then the only one to wake it
  (`PromiseSound`); a future without a promise has the outcome, or the promise was
  broken (`FutureSound`); a continuation waits for a promise that is there, has the
  outcome and one task, or runs (`ContSound`, `Tasked`); and an error is reported, or
  in an object (`ErrorsSound`). A task is a sequence of members of the classes, and
  in between a continuation waits for nothing yet, the state of a future is taken
  though it is there, or an error is in nobody's hands but the code's: these are the
  parameters `loose`, `spent` and `hand` of `Sound`, with `run`, the continuation
  that runs. There is one lemma for each member (`MovePromiseSound`,
  `SetSound`, `ForwardSound`, ...), and `forward_to()`, where one promise
  takes the place of another, needs that the body did not return what waits for it
  (`WaitingFor`), since a cell would else be its own.

Only model-checked, and why:

* all liveness (`Delivered`, `Noticed`, `Answered`, `EveryTimerFires`, `Served`,
  `EverythingEnds`): fairness and ENABLED are out of the prover's reach;
* the timers and what is built on them, `LoopsExact`, memcached with the refinement
  of `CacheMap`, the allocator, packets and streams: their modules fold over
  sequences or define functions by recursion, and what those compute for every
  input needs induction over data;
* `StartupExact` and `DatagramsExact`: no obstacle of principle, not yet proved
  (section 6).

## 5. Not modelled

* Dead code of this commit: `execution_stage` (cc:402-780), the vector form of
  `when_all()`, `map_reduce()` (a comment), `reserve()` and `broken()` of
  semaphores, `run_exit_tasks()`, the abort source of semaphores
  (`_stop_requested` is never signalled, so `sleep_abortable()` always runs its
  time), `chunked_fifo.hh`, `shared_ptr.hh`, `util/temporary_buffer.hh`, the
  eventfd mode of aio (cc:4006). `posix_file_impl`'s bulk reads throw
  (cc:6796-6842), `append_challenged_posix_file_impl` throws in its constructor
  (cc:6947).
* Generated parsers (`ascii.hh`, `request_parser.hh`), routes, handlers and
  headers of HTTP, statistics and arithmetic of memcached: data, without order.
* Costs, shares and weights of I/O classes; statistics everywhere.
* SO_REUSEPORT listeners; `set_max_size()`, `abort()` and `consume()` of
  `queue_`, which the servers do not call; zero-copy writes with batched flushes.
* The task quota timer, CPU-stall detection, thread affinity, huge pages, heap
  profiling; `bad_alloc` outside the allocator.
* Overflow of memcached's 16-bit reference counts, the order of a multi-get over
  shards, `foreign_ptr`'s move-assignment, which releases on the wrong core
  (cc:2530), a service started twice without a stop.
* Logging, JSON, string and container utilities: no state that others rely on.

## 6. Plan

1. *Proofs*: `StartupExact` and `DatagramsExact`. Components whose modules fold or
   use recursion need induction, which goes through for sets of numbers
   (`NatLessThanWellFounded` with `WFMin`), and come after these.
2. *Models*: the poller of low-resolution timers as a part of sleep; the network
   stack's `listen()` with SO_REUSEPORT; registration of I/O priority classes;
   the abort of `queue_`.
3. *Abstract specifications*: an I/O queue that is a set of requests served once
   and in class order, implemented by `IoQueue`; a request-reply channel
   implemented by `SmpQueue`; a set of deadlines implemented by `ReactorTimers`.
