------------------------------ MODULE IoQueue ------------------------------
(***************************************************************************)
(* The disk I/O of one coordinator reactor: io_queue and fair_queue        *)
(* (io_queue.hh), and the reactor's aio context (future_all12.cc).         *)
(*                                                                         *)
(* A request waits in its priority class for one of the fair queue's       *)
(* Capacity units, then for one of the aio context's MaxAio units, then in *)
(* _pending_aio for io_submit().  Every continuation is a task of its own  *)
(* (need_preempt() is always true), tasks run in order and all of them run *)
(* before the pollers do.  Which class is next depends on accumulated      *)
(* costs; here it is any queued class.                                     *)
(***************************************************************************)
EXTENDS Semaphore, FiniteSets

CONSTANTS
    Classes,      \* the priority classes
    Capacity,     \* of the fair queue
    MaxAio,       \* reactor::max_aio
    BatchLimit,   \* min(max_aio / 4, capacity / 2), see submit_io()
    MaxRequests,  \* bound: how many requests are made
    BadRequests   \* the requests on a descriptor the kernel refuses

ASSUME IoAssumption ==
    /\ Capacity \in Nat \ {0}
    /\ MaxAio \in Nat \ {0}
    /\ BatchLimit \in Nat
    /\ MaxRequests \in Nat

Requests == 1 .. MaxRequests
NoRequest == 0

VARIABLES
    arrived,   \* the requests so far are 1 .. arrived
    classOf,   \* the class of each of them
    queues,    \* priority_class::_queue
    handles,   \* the classes in fair_queue::_handles, those with _queued
    fairSem,   \* fair_queue::_sem
    aioSem,    \* reactor::_io_context_available
    tasks,     \* reactor::_pending_tasks, those of the I/O queue
    pending,   \* reactor::_pending_aio
    inKernel,  \* submitted and not completed
    events,    \* completed, not yet collected by io_getevents()
    answered,  \* the caller's future is resolved
    phase,     \* of reactor::run(): "tasks"; "aio": process_io() has polled;
               \* "polled": all pollers up to smp_pollfn have; "flush",
               \* "pollflush": in flush_pending_aio(), from a task and from
               \* aio_batch_submit_pollfn; other phases are DiskIo's
    asleep     \* reactor::sleep() is in wait_and_process()

ioVars == <<arrived, classOf, queues, handles, fairSem, aioSem, tasks, pending,
            inKernel, events, answered, phase, asleep>>

classVars == <<arrived, classOf, queues, handles>>
kernelVars == <<pending, inKernel, events>>

-----------------------------------------------------------------------------
(* What a task goes on with: fair_queue::execute_one() after its wait, the *)
(* request's own continuation, submit_io() after its wait, and the         *)
(* finally() of fair_queue::queue().                                       *)
TaskKinds == {"execute", "start", "prepare", "finally"}
Task(kind, r) == [kind |-> kind, req |-> r]
Tasks == [kind : TaskKinds, req : Requests \union {NoRequest}]

NextTask(kind) == phase = "tasks" /\ ~asleep /\ tasks # <<>> /\ Head(tasks).kind = kind

Finallys(rs) == [i \in 1 .. Len(rs) |-> Task("finally", rs[i])]

IoInit ==
    /\ arrived = 0
    /\ classOf \in [Requests -> Classes]
    /\ queues = [c \in Classes |-> <<>>]
    /\ handles = {}
    /\ fairSem = NewSemaphore(Capacity)
    /\ aioSem = NewSemaphore(MaxAio)
    /\ tasks = <<>>
    /\ pending = <<>> /\ inKernel = {} /\ events = <<>>
    /\ answered = {}
    /\ phase = "tasks"
    /\ asleep = FALSE

(* Operators whose names end in _mut are wrong on purpose: each is a       *)
(* plausible mistake in the definition after it that a property catches.   *)

(* io_queue::queue_request() on the coordinator, and fair_queue::queue():  *)
(* a fiber asks, or a message of another reactor, which ends a sleep.      *)
Queue(c) ==
    /\ phase \in {"tasks", "polled"} /\ arrived < MaxRequests /\ classOf[arrived + 1] = c
    /\ arrived' = arrived + 1
    /\ queues' = [queues EXCEPT ![c] = Append(@, arrived + 1)]
    /\ handles' = handles \union {c}
    /\ fairSem' = AfterWait(fairSem, Task("execute", NoRequest))
    /\ tasks' = tasks \o ReadyAfterWait(fairSem, Task("execute", NoRequest))
    /\ asleep' = FALSE
    /\ UNCHANGED <<classOf, aioSem, kernelVars, answered, phase>>

(* The rest of execute_one(): pops classes until one has a request, wakes  *)
(* that request and puts the class back if it has more.                    *)
Execute(c) ==
    /\ NextTask("execute")
    /\ c \in handles /\ queues[c] # <<>>
    /\ tasks' = Append(Tail(tasks), Task("start", Head(queues[c])))
    /\ queues' = [queues EXCEPT ![c] = Tail(@)]
    /\ \E skipped \in SUBSET {d \in handles : queues[d] = <<>>} :
           handles' = (handles \ skipped) \ (IF Tail(queues[c]) = <<>> THEN {c} ELSE {})
    /\ UNCHANGED <<arrived, classOf, fairSem, aioSem, kernelVars, answered, phase, asleep>>

(* submit_io() up to its wait for the aio context.                         *)
Start ==
    /\ NextTask("start")
    /\ LET w == Task("prepare", Head(tasks).req) IN
           /\ aioSem' = AfterWait(aioSem, w)
           /\ tasks' = Tail(tasks) \o ReadyAfterWait(aioSem, w)
    /\ UNCHANGED <<classVars, fairSem, kernelVars, answered, phase, asleep>>

(* The rest of submit_io().  It submits at once when requests wait for the *)
(* fair queue or when the batch is big enough.                             *)
Prepare ==
    /\ NextTask("prepare")
    /\ pending' = Append(pending, Head(tasks).req)
    /\ tasks' = Tail(tasks)
    /\ phase' = IF fairSem.waiters # <<>> \/ Len(pending) + 1 >= BatchLimit
                THEN "flush" ELSE "tasks"
    /\ UNCHANGED <<classVars, fairSem, aioSem, inKernel, events, answered, asleep>>

(* The finally() of fair_queue::queue(), and the answer to the caller.     *)
Finally ==
    /\ NextTask("finally")
    /\ fairSem' = AfterSignal(fairSem, 1)
    /\ tasks' = Tail(tasks) \o Granted(fairSem, 1)
    /\ answered' = answered \union {Head(tasks).req}
    /\ UNCHANGED <<classVars, aioSem, kernelVars, phase, asleep>>

-----------------------------------------------------------------------------
(* process_io(): collects what the kernel has completed.                   *)
PollIo ==
    LET n == IF Len(events) <= MaxAio THEN Len(events) ELSE MaxAio IN
    /\ phase = "tasks" /\ ~asleep /\ tasks = <<>>
    /\ tasks' = Finallys(SubSeq(events, 1, n)) \o Granted(aioSem, n)
    /\ aioSem' = AfterSignal(aioSem, n)
    /\ events' = SubSeq(events, n + 1, Len(events))
    /\ phase' = "aio"
    /\ UNCHANGED <<classVars, fairSem, pending, inKernel, answered, asleep>>

(* A poller that waits for a full batch.                                   *)
PollAio_mut ==
    /\ phase = "aio"
    /\ phase' = IF Len(pending) >= BatchLimit THEN "pollflush" ELSE "polled"
    /\ UNCHANGED <<classVars, fairSem, aioSem, tasks, kernelVars, answered, asleep>>

(* aio_batch_submit_pollfn::poll().                                        *)
PollAio ==
    /\ phase = "aio"
    /\ phase' = "pollflush"
    /\ UNCHANGED <<classVars, fairSem, aioSem, tasks, kernelVars, answered, asleep>>

Flushing == phase \in {"flush", "pollflush"}
AfterFlush == IF phase = "flush" THEN "tasks" ELSE "polled"

(* One round of flush_pending_aio(): io_submit() takes the first k.        *)
SubmitBatch(k) ==
    /\ Flushing /\ k \in 1 .. Len(pending)
    /\ \A i \in 1 .. k : pending[i] \notin BadRequests
    /\ inKernel' = inKernel \union {pending[i] : i \in 1 .. k}
    /\ pending' = SubSeq(pending, k + 1, Len(pending))
    /\ UNCHANGED <<classVars, fairSem, aioSem, tasks, events, answered, phase, asleep>>

(* An EBADF that keeps the unit of the aio context.                        *)
SubmitBad_mut ==
    /\ Flushing /\ pending # <<>> /\ Head(pending) \in BadRequests
    /\ tasks' = Append(tasks, Task("finally", Head(pending)))
    /\ pending' = Tail(pending)
    /\ UNCHANGED <<classVars, fairSem, aioSem, inKernel, events, answered, phase, asleep>>

(* io_submit() refuses the first request with EBADF, which fails it.       *)
SubmitBad ==
    /\ Flushing /\ pending # <<>> /\ Head(pending) \in BadRequests
    /\ tasks' = Append(tasks, Task("finally", Head(pending))) \o Granted(aioSem, 1)
    /\ aioSem' = AfterSignal(aioSem, 1)
    /\ pending' = Tail(pending)
    /\ UNCHANGED <<classVars, fairSem, inKernel, events, answered, phase, asleep>>

(* io_submit() fails with EAGAIN, or nothing is left: the flush returns.   *)
SubmitAgain ==
    /\ Flushing /\ pending # <<>>
    /\ phase' = AfterFlush
    /\ UNCHANGED <<classVars, fairSem, aioSem, tasks, kernelVars, answered, asleep>>

FlushDone ==
    /\ Flushing /\ pending = <<>>
    /\ phase' = AfterFlush
    /\ UNCHANGED <<classVars, fairSem, aioSem, tasks, kernelVars, answered, asleep>>

(* A poller that lets the reactor sleep once everything is submitted.      *)
MaySleep_mut == pending = <<>>

(* io_pollfn::try_enter_interrupt_mode(): no unit is taken (_aio_eventfd   *)
(* is never set).                                                          *)
MaySleep == aioSem.units = MaxAio

(* The kernel.                                                             *)
KernelComplete(r) ==
    /\ r \in inKernel
    /\ inKernel' = inKernel \ {r}
    /\ events' = Append(events, r)
    /\ UNCHANGED <<classVars, fairSem, aioSem, tasks, pending, answered, phase, asleep>>

Flush == (\E k \in Requests : SubmitBatch(k)) \/ SubmitBad \/ SubmitAgain \/ FlushDone

IoReactor ==
    \/ \E c \in Classes : Execute(c)
    \/ Start \/ Prepare \/ Finally
    \/ PollIo \/ PollAio \/ Flush

-----------------------------------------------------------------------------
TasksOf(kind) == {i \in 1 .. Len(tasks) : tasks[i].kind = kind}

(* Part of RequestsExact: each execute_one() finds a request.  The units   *)
(* granted or waited for are as many as the requests queued, and exactly   *)
(* the classes with requests are in _handles, so that neither does the     *)
(* assertion in pop_priority_class() fail nor is a class forgotten.        *)
PopFindsWork ==
    /\ handles = {c \in Classes : queues[c] # <<>>}
    /\ Cardinality(TasksOf("execute")) + Len(fairSem.waiters)
          = Cardinality(UNION {{<<c, i>> : i \in 1 .. Len(queues[c])} : c \in Classes})

(* Part of RequestsExact: all of the fair queue's units are free or held   *)
(* by a request on its way from execute_one() to its finally(), and those  *)
(* of the aio context, free or held by one between its grant and           *)
(* process_io().                                                           *)
UnitsExact ==
    LET submitted == Len(pending) + Cardinality(inKernel) + Len(events) IN
    /\ fairSem.units + Cardinality(UNION {TasksOf(kind) : kind \in TaskKinds})
          + Len(aioSem.waiters) + submitted = Capacity
    /\ aioSem.units + Cardinality(TasksOf("prepare")) + submitted = MaxAio

(* The stages of a request, in order, and its place in each.               *)
Places(r) ==
    {<<0, i>> : i \in {j \in 1 .. Len(queues[classOf[r]]) : queues[classOf[r]][j] = r}}
    \union {<<1, i>> : i \in {j \in TasksOf("start") : tasks[j].req = r}}
    \union {<<2, i>> : i \in {j \in 1 .. Len(aioSem.waiters) : aioSem.waiters[j].req = r}}
    \union {<<3, i>> : i \in {j \in TasksOf("prepare") : tasks[j].req = r}}
    \union {<<4, i>> : i \in {j \in 1 .. Len(pending) : pending[j] = r}}
    \union (IF r \in inKernel THEN {<<5, 0>>} ELSE {})
    \union {<<6, i>> : i \in {j \in 1 .. Len(events) : events[j] = r}}
    \union {<<7, i>> : i \in {j \in TasksOf("finally") : tasks[j].req = r}}
    \union (IF r \in answered THEN {<<8, 0>>} ELSE {})

(* Part of RequestsExact: a request that was made is in one place.         *)
EachOnce ==
    \A r \in Requests : Cardinality(Places(r)) = (IF r <= arrived THEN 1 ELSE 0)

(* Whatever part of a batch io_submit() takes, refuses or fails            *)
(* (future_all12.cc:1232), no request is lost, submitted twice or answered *)
(* twice, and no unit is lost or made: so pending fits in iocbs[max_aio],  *)
(* and the kernel's context never overflows.                               *)
RequestsExact == PopFindsWork /\ UnitsExact /\ EachOnce

(* Requests of one class reach io_submit() in the order they were made: no *)
(* request overtakes another in the queue, as a task, in the wait for the  *)
(* aio context or in the batch.                                            *)
IssuedInOrder ==
    \A s \in 1 .. arrived : \A r \in 1 .. s - 1 :
        classOf[r] = classOf[s] =>
            \A p \in Places(r), q \in Places(s) :
                p[1] >= 5 \/ p[1] > q[1] \/ (p[1] = q[1] /\ p[2] < q[2])

(* The reactor does not block over I/O: nothing but another reactor would  *)
(* wake it, so all requests made must have been answered.                  *)
NoSleepOverIo == asleep => answered = 1 .. arrived
=============================================================================
