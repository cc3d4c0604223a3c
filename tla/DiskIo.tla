------------------------------- MODULE DiskIo -------------------------------
(***************************************************************************)
(* The files of one reactor: reads and writes go through the I/O queue and *)
(* the kernel's aio, everything else through the syscall thread, and both  *)
(* keep the reactor from sleeping in their own way.  Files are shared      *)
(* through handles; a fiber closes or drops a file only when what it asked *)
(* of it has been answered, as file::close() demands of its caller.        *)
(***************************************************************************)
EXTENDS IoQueue, SyscallPool, FileHandles

CONSTANT MaxCalls    \* bound: how many calls are made

ASSUME CallsAssumption == MaxCalls \in Nat \ {0, 1}

Calls == 1 .. MaxCalls

(* Bound: the numbers of requests and calls that go together, and whether  *)
(* handles are used with them.                                             *)
Load(r, c, shared) == [requests |-> r, calls |-> c, handles |-> shared]

Workloads ==
    {Load(MaxRequests, 0, FALSE), Load(2, 1, FALSE), Load(0, MaxCalls, FALSE),
     Load(1, 1, TRUE), Load(0, 2, TRUE)}

VARIABLES
    workload,   \* of this behaviour
    fileOf,     \* the file each request is made through
    made,       \* the calls so far are 1 .. made
    call,       \* what each of them is, on which file and descriptor
    returned    \* the calls whose future is resolved

callVars == <<made, call, returned>>
vars == <<ioVars, poolVars, fileVars, workload, fileOf, callVars>>

NoCall == [op |-> "none", of |-> "none", fd |-> NoDescriptor]

Init ==
    /\ workload \in Workloads
    /\ IoInit /\ PoolInit /\ FilesInit
    /\ classOf[1] = CHOOSE c \in Classes : TRUE    \* classes are alike
    /\ \A r \in Requests : r > workload.requests => classOf[r] = classOf[1]
    /\ fileOf = [r \in Requests |-> NoObject]
    /\ made = 0 /\ call = [c \in Calls |-> NoCall] /\ returned = {}

(* What the file still does for its user.                                  *)
Busy(o) ==
    \/ \E r \in 1 .. arrived : fileOf[r] = o /\ r \notin answered
    \/ \E c \in 1 .. made : call[c].of = o /\ c \notin returned

FiberRuns == phase = "tasks" /\ ~asleep

-----------------------------------------------------------------------------
(* read_dma() and write_dma(): the descriptor is copied into the request.  *)
(* A message of another reactor that asks wakes this one.                  *)
Request(o, c) ==
    /\ IsFile(o) /\ arrived < workload.requests
    /\ Queue(c)
    /\ fileOf' = [fileOf EXCEPT ![arrived + 1] = o]
    /\ idle' = FALSE
    /\ UNCHANGED <<room, threadVars, fileVars, workload, callVars>>

(* thread_pool::submit(), up to the wait for room.                         *)
Submit(op, o, fd) ==
    /\ FiberRuns /\ made < workload.calls
    /\ made' = made + 1
    /\ call' = [call EXCEPT ![made'] = [op |-> op, of |-> o, fd |-> fd]]
    /\ room' = AfterWait(room, Task("push", made'))
    /\ tasks' = tasks \o ReadyAfterWait(room, Task("push", made'))
    /\ UNCHANGED <<classVars, fairSem, aioSem, kernelVars, answered, phase, asleep,
                   threadVars, idle, workload, fileOf, returned>>

(* remove_file(), rename_file() and the other calls on paths.              *)
CallPath == Submit("path", NoObject, NoDescriptor) /\ UNCHANGED fileVars

(* open_file_dma() and open_directory().                                   *)
CallOpenFile == Submit("open", NextFree, opened + 1) /\ Await

(* flush(), stat(), truncate(), discard(), size(): the thread reads _fd.   *)
CallOnFile(o) ==
    /\ IsFile(o) /\ ~Busy(o)
    /\ Submit("use", o, object[o].fd)
    /\ UNCHANGED fileVars

(* close() of the last file of a descriptor.                               *)
CloseLast(o) ==
    /\ IsFile(o) /\ ~Busy(o) /\ IsLast(o)
    /\ Submit("close", NoObject, object[o].fd)
    /\ GiveUp(o)
    /\ UNCHANGED <<open, opened>>

(* close() while others have the descriptor.                               *)
CloseShared(o) ==
    /\ FiberRuns
    /\ IsFile(o) /\ ~Busy(o) /\ ~IsLast(o)
    /\ GiveUp(o)
    /\ UNCHANGED <<open, opened, ioVars, poolVars, workload, fileOf, callVars>>

Share ==
    /\ FiberRuns /\ workload.handles
    /\ \/ \E o \in Objects : Dup(o, NextFree) \/ Clone(o, NextFree)
       \/ \E o \in Objects : ToFile(o) \/ (~Busy(o) /\ Destroy(o))
    /\ UNCHANGED <<ioVars, poolVars, workload, fileOf, callVars>>

-----------------------------------------------------------------------------
(* The tasks of calls: the push, and what follows the answer.              *)
PushCall ==
    /\ NextTask("push")
    /\ Push(Head(tasks).req)
    /\ tasks' = Tail(tasks)
    /\ UNCHANGED <<classVars, fairSem, aioSem, kernelVars, answered, phase, asleep,
                   fileVars, workload, fileOf, callVars>>

(* The fiber goes on.                                                      *)
Return ==
    /\ NextTask("return")
    /\ LET c == call[Head(tasks).req] IN
           IF c.op = "open" THEN NewFile(c.of, c.fd) ELSE UNCHANGED fileVars
    /\ returned' = returned \union {Head(tasks).req}
    /\ tasks' = Tail(tasks)
    /\ UNCHANGED <<classVars, fairSem, aioSem, kernelVars, answered, phase, asleep,
                   poolVars, workload, fileOf, made, call>>

Returns == [i \in 1 .. Len(completed) |-> Task("return", completed[i])]

(* The reactor's part of complete(), in syscall_pollfn and as the handler  *)
(* of SIGUSR1.                                                             *)
CompleteCalls ==
    /\ Complete
    /\ tasks' = tasks \o Returns \o PushesGranted
    /\ UNCHANGED <<toThread, started, thread, taken, stored>>

HandleSignal ==
    /\ phase = "aio" /\ notified
    /\ CompleteCalls
    /\ notified' = FALSE
    /\ UNCHANGED <<classVars, fairSem, aioSem, kernelVars, answered, phase, asleep,
                   idle, fileVars, workload, fileOf, callVars>>

(* The last of the pollers here.  After a round that found nothing the     *)
(* reactor may try to sleep; the pollers left out may find something too.  *)
PollCalls ==
    /\ phase = "polled"
    /\ CompleteCalls
    /\ phase' \in (IF tasks' = <<>> THEN {"tasks", "idle"} ELSE {"tasks"})
    /\ UNCHANGED <<classVars, fairSem, aioSem, kernelVars, answered, asleep,
                   idle, notified, fileVars, workload, fileOf, callVars>>

-----------------------------------------------------------------------------
(* reactor::sleep(), up to syscall_pollfn, which raises its flag, unless   *)
(* io_pollfn or signal_pollfn refuses.                                     *)
EnterSleep ==
    /\ phase = "idle"
    /\ idle' = (MaySleep /\ ~notified)
    /\ phase' = IF idle' THEN "entering" ELSE "tasks"
    /\ UNCHANGED <<classVars, fairSem, aioSem, tasks, kernelVars, answered, asleep,
                   room, threadVars, fileVars, workload, fileOf, callVars>>

(* It polls again, and refuses if that finds a call.                       *)
Raced ==
    /\ phase = "entering" /\ completed # <<>>
    /\ CompleteCalls
    /\ idle' = FALSE
    /\ phase' = "tasks"
    /\ UNCHANGED <<classVars, fairSem, aioSem, kernelVars, answered, asleep,
                   notified, fileVars, workload, fileOf, callVars>>

(* A reactor that raises its flag and does not look again.                 *)
Block_mut ==
    /\ phase = "entering"
    /\ asleep' = TRUE
    /\ phase' = "tasks"
    /\ UNCHANGED <<classVars, fairSem, aioSem, tasks, kernelVars, answered,
                   poolVars, fileVars, workload, fileOf, callVars>>

(* The pollers after it do not refuse, and wait_and_process() is called.   *)
Block ==
    /\ phase = "entering" /\ completed = <<>>
    /\ asleep' = TRUE
    /\ phase' = "tasks"
    /\ UNCHANGED <<classVars, fairSem, aioSem, tasks, kernelVars, answered,
                   poolVars, fileVars, workload, fileOf, callVars>>

(* A later poller refuses, or the reactor wakes: by SIGUSR1, or at the     *)
(* latest by the alarm of load_timer, which run() arms every second.       *)
Awaken ==
    /\ phase = "entering" \/ asleep
    /\ asleep' = FALSE /\ idle' = FALSE
    /\ phase' = "tasks"
    /\ UNCHANGED <<classVars, fairSem, aioSem, tasks, kernelVars, answered,
                   room, threadVars, fileVars, workload, fileOf, callVars>>

-----------------------------------------------------------------------------
(* The syscall thread, and what its calls do in the kernel.                *)
MakeCall ==
    /\ Process
    /\ LET c == call[Head(taken)] IN
         CASE c.op = "open" -> CallOpen(c.fd)
           [] c.op = "close" -> CallClose(c.fd)
           [] OTHER -> UNCHANGED fileVars

Thread ==
    /\ MakeCall \/ ((ReadEventfd \/ Take \/ Notify \/ Drain) /\ UNCHANGED fileVars)
    /\ UNCHANGED <<ioVars, workload, fileOf, callVars>>

Io(action) == action /\ UNCHANGED <<poolVars, fileVars, workload, fileOf, callVars>>

ReactorStep ==
    \/ Io(IoReactor)
    \/ PushCall \/ Return \/ HandleSignal \/ PollCalls
    \/ EnterSleep \/ Raced \/ Block \/ Awaken

Fibers ==
    \/ \E o \in Objects, c \in Classes : Request(o, c)
    \/ CallPath
    \/ CallOpenFile
    \/ \E o \in Objects : CallOnFile(o) \/ CloseLast(o) \/ CloseShared(o)
    \/ Share

Next ==
    \/ Fibers
    \/ ReactorStep
    \/ Thread
    \/ \E r \in Requests : Io(KernelComplete(r))

(* The reactor goes on and its alarm wakes it, the thread goes on, the     *)
(* kernel completes what it took and does not answer EAGAIN for ever.      *)
Spec == Init /\ [][Next]_vars
FairSpec == Spec /\ WF_vars(ReactorStep) /\ WF_vars(Thread)
                 /\ SF_vars(\E k \in Requests : Io(SubmitBatch(k)))
                 /\ SF_vars(Io(SubmitBad))
                 /\ \A r \in Requests : WF_vars(Io(KernelComplete(r)))

-----------------------------------------------------------------------------
(* The stages of a call, in order, and its place in each.                  *)
InRings == toThread \o taken \o stored \o completed

CallPlaces(c) ==
    {<<0, i>> : i \in {j \in 1 .. Len(room.waiters) : room.waiters[j].req = c}}
    \union {<<1, i>> : i \in {j \in TasksOf("push") : tasks[j].req = c}}
    \union {<<2, i>> : i \in {j \in 1 .. Len(InRings) : InRings[j] = c}}
    \union {<<3, i>> : i \in {j \in TasksOf("return") : tasks[j].req = c}}
    \union (IF c \in returned THEN {<<4, 0>>} ELSE {})

(* A call that was made is in one place, and the calls that have room are  *)
(* as many as the rings take: no push overruns a ring and no batch the     *)
(* arrays tmp_buf of work() and complete(), whose length is that of the    *)
(* rings.                                                                  *)
CallsFit ==
    /\ room.units + Cardinality(TasksOf("push")) + Len(InRings) = QueueLength
    /\ \A c \in Calls : Cardinality(CallPlaces(c)) = (IF c <= made THEN 1 ELSE 0)

(* The reactor sleeps over at most one finished call that nobody will      *)
(* announce: the last of a batch, whose store was still in the thread's    *)
(* buffer when the reactor looked and the thread read the flag.            *)
AtMostOneMissed ==
    asleep /\ ~notified /\ ~WillNotify => Len(completed \o stored) <= 1

(* The rings to the syscall thread and back are counted, and what their    *)
(* unfenced flag may miss is bounded (future_all12.cc:5677-5730).          *)
CallsExact == CallsFit /\ AtMostOneMissed

(* The descriptors a request or a call on its way works on.                *)
Closing == {c \in 1 .. made : call[c].op = "close" /\ c \notin returned}
BeforeThread(c) ==
    \/ \E i \in 1 .. Len(tasks) : tasks[i] = Task("push", c)
    \/ \E i \in 1 .. Len(room.waiters) : room.waiters[i] = Task("push", c)
    \/ \E i \in 1 .. Len(toThread \o taken) : (toThread \o taken)[i] = c

(* A descriptor is open as long as a file or handle has it, a close() that *)
(* will be made is the only one and nobody has its descriptor, and a       *)
(* descriptor nobody has and nobody closes is one whose file::file() threw.*)
ClosedByTheLast ==
    /\ \A o \in Objects : IsFile(o) \/ IsHandle(o) => object[o].fd \in open
    /\ \A c \in Closing : BeforeThread(c) =>
           /\ call[c].fd \in open
           /\ Holders(call[c].fd) = {}
           /\ \A d \in Closing \ {c} : call[d].fd # call[c].fd
    /\ \A fd \in open \cap Accepted :
           \/ Holders(fd) # {}
           \/ \E c \in Closing : call[c].fd = fd
           \/ \E c \in 1 .. made : call[c].op = "open" /\ call[c].fd = fd /\ c \notin returned

(* Every request and every call is answered in the end, so that the files  *)
(* come to rest: a request that waits in a batch below the limit, behind a *)
(* full context or behind a refused one, and a call that waits for room.   *)
Served == []<>(answered = 1 .. arrived /\ returned = 1 .. made)
=============================================================================
