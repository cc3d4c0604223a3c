---------------------------- MODULE DiskIoProofs ----------------------------
(***************************************************************************)
(* The I/O queue, kernel aio and the syscall thread, for any number of     *)
(* requests, calls, classes, units and ring lengths. The inductive         *)
(* invariant counts: every request and every call is in exactly one of its *)
(* places (RequestsCounted, CallsCounted), the units of the three          *)
(* semaphores are with the places that hold one (FairUnits, AioUnits,      *)
(* RoomUnits), and there are as many dispatchers as queued requests        *)
(* (WorkQueued). With what holds while the reactor goes to sleep (Resting) *)
(* and of notifications that the syscall thread skipped (Missed) it        *)
(* implies RequestsExact, CallsExact and NoSleepOverIo.                    *)
(*                                                                         *)
(* IssuedInOrder is about places and not numbers: InOrder says of any two  *)
(* requests of one class that in no stage the later one is ahead of the    *)
(* other, or in a stage that follows the other's.                          *)
(*                                                                         *)
(* ClosedByTheLast comes last: the counts of who shares a descriptor.      *)
(***************************************************************************)
EXTENDS DiskIo, SequenceCounts

ExecuteTask == Task("execute", NoRequest)
RequestTasks == [kind : {"start", "prepare", "finally"}, req : Requests]
CallTasks == [kind : {"push", "return"}, req : Calls]
IoTasks == {ExecuteTask} \union RequestTasks
AnyTask == IoTasks \union CallTasks

Prepares == [kind : {"prepare"}, req : Requests]
Pushes == [kind : {"push"}, req : Calls]

(* Where the items are and what they are.                                  *)
IoTypes ==
    /\ arrived \in 0 .. MaxRequests
    /\ classOf \in [Requests -> Classes]
    /\ queues \in [Classes -> Seq(Requests)]
    /\ \A c \in Classes : \A i \in 1 .. Len(queues[c]) : classOf[queues[c][i]] = c
    /\ fairSem \in Semaphores({ExecuteTask})
    /\ aioSem \in Semaphores(Prepares)
    /\ pending \in Seq(Requests) /\ events \in Seq(Requests)
    /\ inKernel \subseteq Requests /\ answered \subseteq Requests

CallTypes ==
    /\ made \in 0 .. MaxCalls
    /\ room \in Semaphores(Pushes)
    /\ toThread \in Seq(Calls) /\ taken \in Seq(Calls)
    /\ stored \in Seq(Calls) /\ completed \in Seq(Calls)
    /\ returned \subseteq Calls

Types == IoTypes /\ CallTypes /\ tasks \in Seq(AnyTask)

Queued == UNION {{<<c, i>> : i \in 1 .. Len(queues[c])} : c \in Classes}

WorkQueued ==
    /\ handles = {c \in Classes : queues[c] # <<>>}
    /\ IsFiniteSet(Queued)
    /\ Count(tasks, {ExecuteTask}) + Len(fairSem.waiters) = Cardinality(Queued)

Submitted == Len(pending) + Cardinality(inKernel) + Len(events)

FairUnits ==
    fairSem.units + Count(tasks, IoTasks) + Len(aioSem.waiters) + Submitted = Capacity
AioUnits == aioSem.units + Count(tasks, Prepares) + Submitted = MaxAio

TasksFor(r) == [kind : {"start", "prepare", "finally"}, req : {r}]

(* The places of a request that has left its queue.                        *)
OnItsWay(r) ==
    Count(tasks, TasksFor(r)) + Count(aioSem.waiters, TasksFor(r))
        + Count(pending, {r}) + Indicator(r \in inKernel)
        + Count(events, {r}) + Indicator(r \in answered)

RequestCount(r) == Count(queues[classOf[r]], {r}) + OnItsWay(r)

RequestsCounted == \A r \in Requests : RequestCount(r) = Indicator(r <= arrived)

WithThread == Len(toThread) + Len(taken) + Len(stored) + Len(completed)
RoomUnits == room.units + Count(tasks, Pushes) + WithThread = QueueLength

TasksOfCall(c) == [kind : {"push", "return"}, req : {c}]

InThread(c) ==
    Count(toThread, {c}) + Count(taken, {c}) + Count(stored, {c}) + Count(completed, {c})

CallCount(c) ==
    Count(room.waiters, TasksOfCall(c)) + Count(tasks, TasksOfCall(c))
        + InThread(c) + Indicator(c \in returned)

CallsCounted == \A c \in Calls : CallCount(c) = Indicator(c <= made)

(* Nobody waits for a unit that is free.                                   *)
Sane(sem) == sem.units > 0 => sem.waiters = <<>>

Resting ==
    /\ asleep => phase = "tasks" /\ idle
    /\ phase = "idle" => tasks = <<>>
    /\ phase = "entering" \/ asleep => tasks = <<>> /\ aioSem.units = MaxAio
    /\ Sane(fairSem) /\ Sane(aioSem)
    /\ phase = "entering" => idle

Missed ==
    /\ thread # "calling" => taken = <<>>
    /\ Len(stored) <= 1
    /\ AtMostOneMissed

IoParts == WorkQueued /\ FairUnits /\ AioUnits /\ RequestsCounted
CallParts == RoomUnits /\ CallsCounted

IInv == Types /\ IoParts /\ CallParts /\ Resting /\ Missed
-----------------------------------------------------------------------------
(* Semaphores: what wait() and signal() hand out and keep.                 *)
LEMMA Exchange ==
    ASSUME NEW a \in Nat, NEW b \in Nat, NEW c \in Nat, NEW d \in Nat, NEW n \in Nat,
           NEW m \in Nat, b + m = a + n, d + n = c + m
    PROVE  b + d = a + c
OBVIOUS

(* A semaphore starts with its units and nobody waiting.                   *)
LEMMA NewSem ==
    ASSUME NEW W, NEW n \in Nat
    PROVE  /\ NewSemaphore(n) \in Semaphores(W)
           /\ NewSemaphore(n).units = n /\ NewSemaphore(n).waiters = <<>>
BY DEF NewSemaphore, Semaphores

(* wait() gives a unit to the caller or queues it, one of the two.         *)
LEMMA WaitSem ==
    ASSUME NEW W, NEW sem \in Semaphores(W), NEW w \in W
    PROVE  /\ AfterWait(sem, w) \in Semaphores(W)
           /\ ReadyAfterWait(sem, w) \in Seq({w})
           /\ AfterWait(sem, w).units + Len(ReadyAfterWait(sem, w)) = sem.units
           /\ Len(AfterWait(sem, w).waiters) + Len(ReadyAfterWait(sem, w))
                  = Len(sem.waiters) + 1
           /\ \/ /\ ReadyAfterWait(sem, w) = <<w>>
                 /\ AfterWait(sem, w).waiters = sem.waiters
                 /\ sem.waiters = <<>>
              \/ /\ ReadyAfterWait(sem, w) = <<>>
                 /\ AfterWait(sem, w).waiters = Append(sem.waiters, w)
                 /\ AfterWait(sem, w).units = sem.units
                 /\ ~MayProceed(sem)
<1>0. sem.units \in Nat /\ sem.waiters \in Seq(W) /\ Len(sem.waiters) \in Nat
  BY DEF Semaphores
<1>1. CASE MayProceed(sem)
  <2>1. AfterWait(sem, w) = [sem EXCEPT !.units = @ - 1] /\ ReadyAfterWait(sem, w) = <<w>>
    BY <1>1 DEF AfterWait, ReadyAfterWait
  <2>2. /\ AfterWait(sem, w) \in Semaphores(W)
        /\ AfterWait(sem, w).units = sem.units - 1
        /\ AfterWait(sem, w).waiters = sem.waiters /\ sem.waiters = <<>>
    BY <1>0, <1>1, <2>1 DEF MayProceed, Semaphores
  <2>3. Len(<<w>>) = 1 /\ <<w>> \in Seq({w}) /\ Len(<<>>) = 0  OBVIOUS
  <2> QED BY <1>0, <2>1, <2>2, <2>3
<1>2. CASE ~MayProceed(sem)
  <2>1. /\ AfterWait(sem, w) = [sem EXCEPT !.waiters = Append(@, w)]
        /\ ReadyAfterWait(sem, w) = <<>>
    BY <1>2 DEF AfterWait, ReadyAfterWait
  <2>2. Append(sem.waiters, w) \in Seq(W) /\ Len(Append(sem.waiters, w)) = Len(sem.waiters) + 1
    BY <1>0, AppendProperties
  <2>3. /\ AfterWait(sem, w) \in Semaphores(W)
        /\ AfterWait(sem, w).units = sem.units
        /\ AfterWait(sem, w).waiters = Append(sem.waiters, w)
    BY <1>0, <2>1, <2>2 DEF Semaphores
  <2>4. Len(<<>>) = 0 /\ <<>> \in Seq({w})  OBVIOUS
  <2> QED BY <1>0, <1>2, <2>1, <2>2, <2>3, <2>4
<1> QED BY <1>1, <1>2

(* The caller of wait() is counted once, ready or waiting.                 *)
LEMMA WaitCount ==
    ASSUME NEW W, NEW sem \in Semaphores(W), NEW w \in W, NEW kind
    PROVE  Count(AfterWait(sem, w).waiters, kind) + Count(ReadyAfterWait(sem, w), kind)
               = Count(sem.waiters, kind) + Indicator(w \in kind)
<1> DEFINE a == AfterWait(sem, w).waiters
           b == ReadyAfterWait(sem, w)
<1>0. sem.waiters \in Seq(W)  BY DEF Semaphores
<1>1. \/ b = <<w>> /\ a = sem.waiters
      \/ b = <<>> /\ a = Append(sem.waiters, w)
  BY WaitSem
<1>2. Count(sem.waiters, kind) \in Nat /\ Indicator(w \in kind) \in Nat
  BY <1>0, CountType DEF Indicator
<1> HIDE DEF a, b
<1>3. CASE b = <<w>> /\ a = sem.waiters  BY <1>3, CountOne DEF a, b
<1>4. CASE b = <<>> /\ a = Append(sem.waiters, w)
  <2>1. Count(b, kind) = 0  BY <1>4, CountEmpty
  <2>2. Count(a, kind) = Count(sem.waiters, kind) + Indicator(w \in kind)
    BY <1>0, <1>4, CountAppend
  <2> QED BY <1>2, <2>1, <2>2 DEF a, b
<1> QED BY <1>1, <1>3, <1>4

(* signal(1) gives the unit to the first that waits or keeps it.           *)
LEMMA SignalSem ==
    ASSUME NEW W, NEW sem \in Semaphores(W), NEW n \in Nat
    PROVE  /\ AfterSignal(sem, n) \in Semaphores(W) /\ Granted(sem, n) \in Seq(W)
           /\ AfterSignal(sem, n).units + Len(Granted(sem, n)) = sem.units + n
           /\ Len(AfterSignal(sem, n).waiters) + Len(Granted(sem, n)) = Len(sem.waiters)
           /\ AfterSignal(sem, n).units > 0 => AfterSignal(sem, n).waiters = <<>>
           /\ sem.waiters = Granted(sem, n) \o AfterSignal(sem, n).waiters
<1> DEFINE g == GrantCount(sem, n)
           ws == sem.waiters
<1>0. sem.units \in Nat /\ ws \in Seq(W) /\ Len(ws) \in Nat  BY DEF Semaphores
<1>1. /\ g \in 0 .. Len(ws) /\ g <= sem.units + n
      /\ g < sem.units + n => g = Len(ws)
  BY <1>0 DEF GrantCount
<1> HIDE DEF g
<1>2. /\ SubSeq(ws, 1, g) \in Seq(W) /\ Len(SubSeq(ws, 1, g)) = g
      /\ SubSeq(ws, g + 1, Len(ws)) \in Seq(W)
      /\ Len(SubSeq(ws, g + 1, Len(ws))) = Len(ws) - g
  BY <1>0, <1>1, CountSplit
<1>3. /\ Granted(sem, n) = SubSeq(ws, 1, g)
      /\ AfterSignal(sem, n).units = (sem.units + n) - g
      /\ AfterSignal(sem, n).waiters = SubSeq(ws, g + 1, Len(ws))
      /\ AfterSignal(sem, n)
             = [units |-> (sem.units + n) - g, waiters |-> SubSeq(ws, g + 1, Len(ws))]
  BY DEF Granted, AfterSignal, g
<1>4. (sem.units + n) - g \in Nat  BY <1>0, <1>1
<1>5. AfterSignal(sem, n) \in Semaphores(W)  BY <1>2, <1>3, <1>4 DEF Semaphores
<1>6. AfterSignal(sem, n).units > 0 => AfterSignal(sem, n).waiters = <<>>
  <2> SUFFICES ASSUME AfterSignal(sem, n).units > 0
               PROVE  SubSeq(ws, g + 1, Len(ws)) = <<>>
    BY <1>3
  <2>1. g = Len(ws)  BY <1>0, <1>1, <1>3
  <2> QED BY <1>0, <2>1, SubSeqEmpty
<1>7. ws = SubSeq(ws, 1, g) \o SubSeq(ws, g + 1, Len(ws))
  <2>1. /\ 1 \in 1 .. Len(ws) + 1 /\ g \in 1 - 1 .. Len(ws) /\ Len(ws) \in g .. Len(ws)
    BY <1>0, <1>1
  <2> QED BY <1>0, <2>1, ConcatAdjacentSubSeq, SubSeqFull
<1>8. /\ AfterSignal(sem, n).units + Len(Granted(sem, n)) = sem.units + n
      /\ Len(AfterSignal(sem, n).waiters) + Len(Granted(sem, n)) = Len(ws)
  <2>1. Len(Granted(sem, n)) = g /\ Len(AfterSignal(sem, n).waiters) = Len(ws) - g
    BY <1>2, <1>3
  <2>2. AfterSignal(sem, n).units = (sem.units + n) - g  BY <1>3
  <2> QED BY ONLY <1>0, <1>1, <2>1, <2>2, n \in Nat
<1> QED BY <1>2, <1>3, <1>5, <1>6, <1>7, <1>8

(* signal() moves a waiter to the tasks and loses none.                    *)
LEMMA SignalCount ==
    ASSUME NEW W, NEW sem \in Semaphores(W), NEW n \in Nat, NEW kind
    PROVE  Count(AfterSignal(sem, n).waiters, kind) + Count(Granted(sem, n), kind)
               = Count(sem.waiters, kind)
<1> DEFINE a == AfterSignal(sem, n).waiters
           b == Granted(sem, n)
<1>1. a \in Seq(W) /\ b \in Seq(W) /\ sem.waiters = b \o a
  BY SignalSem DEF Semaphores
<1> HIDE DEF a, b
<1>2. Count(b \o a, kind) = Count(b, kind) + Count(a, kind)  BY <1>1, CountConcat
<1>3. Count(b, kind) \in Nat /\ Count(a, kind) \in Nat  BY <1>1, CountType
<1> QED BY <1>1, <1>2, <1>3 DEF a, b

(* wait() leaves nobody waiting for a unit that is free.                   *)
LEMMA WaitSane ==
    ASSUME NEW W, NEW sem \in Semaphores(W), NEW w \in W, Sane(sem)
    PROVE  Sane(AfterWait(sem, w))
<1>1. sem.units \in Nat  BY DEF Semaphores
<1>2. CASE MayProceed(sem)
  <2>1. sem.waiters = <<>>  BY <1>2 DEF MayProceed
  <2>2. AfterWait(sem, w).waiters = sem.waiters  BY <1>2 DEF AfterWait, Semaphores
  <2> QED BY <2>1, <2>2 DEF Sane
<1>3. CASE ~MayProceed(sem)
  <2>1. AfterWait(sem, w).units = sem.units  BY <1>3 DEF AfterWait, Semaphores
  <2>2. ~(sem.units > 0)  BY <1>1, <1>3 DEF Sane, MayProceed
  <2> QED BY <2>1, <2>2 DEF Sane
<1> QED BY <1>2, <1>3

(* signal() leaves nobody waiting for a unit that is free.                 *)
LEMMA SignalSane ==
    ASSUME NEW W, NEW sem \in Semaphores(W), NEW n \in Nat
    PROVE  Sane(AfterSignal(sem, n))
BY SignalSem DEF Sane

-----------------------------------------------------------------------------
(* The run queue.                                                          *)
LEMMA Kinds ==
    /\ ExecuteTask \in IoTasks /\ ExecuteTask \notin RequestTasks
    /\ ExecuteTask \notin Prepares /\ ExecuteTask.kind = "execute"
    /\ Prepares \subseteq RequestTasks /\ Pushes \subseteq CallTasks
    /\ IoTasks \subseteq AnyTask /\ CallTasks \subseteq AnyTask
    /\ RequestTasks \subseteq IoTasks
    /\ IoTasks \intersect CallTasks = {}
    /\ \A r \in Requests : TasksFor(r) \subseteq RequestTasks /\ ExecuteTask \notin TasksFor(r)
    /\ \A c \in Calls : TasksOfCall(c) \subseteq CallTasks
BY DEF ExecuteTask, IoTasks, RequestTasks, CallTasks, Prepares, Pushes, AnyTask,
       Task, TasksFor, TasksOfCall

(* Which task is of which kind.                                            *)
LEMMA TaskFacts ==
    ASSUME NEW r \in Requests, NEW kind \in {"start", "prepare", "finally"}
    PROVE  /\ Task(kind, r) \in RequestTasks
           /\ Task(kind, r) \in IoTasks /\ Task(kind, r) \in AnyTask
           /\ Task(kind, r) # ExecuteTask /\ Task(kind, r) \notin CallTasks
           /\ Task(kind, r) \in Prepares <=> kind = "prepare"
           /\ \A q \in Requests : Task(kind, r) \in TasksFor(q) <=> q = r
BY DEF ExecuteTask, IoTasks, RequestTasks, CallTasks, Prepares, AnyTask, Task, TasksFor

(* The tasks of calls are no tasks of requests.                            *)
LEMMA CallTaskFacts ==
    ASSUME NEW c \in Calls, NEW kind \in {"push", "return"}
    PROVE  /\ Task(kind, c) \in CallTasks /\ Task(kind, c) \in AnyTask
           /\ Task(kind, c) \notin IoTasks
           /\ Task(kind, c) \in Pushes <=> kind = "push"
           /\ \A d \in Calls : Task(kind, c) \in TasksOfCall(d) <=> d = c
BY DEF ExecuteTask, IoTasks, RequestTasks, CallTasks, Pushes, AnyTask, Task, TasksOfCall

(* The task that runs, by its kind.                                        *)
LEMMA TaskThatRuns ==
    ASSUME Types, NEW kind, NextTask(kind)
    PROVE  /\ tasks # <<>> /\ Head(tasks) \in AnyTask /\ Head(tasks).kind = kind
           /\ phase = "tasks" /\ ~asleep
           /\ kind = "execute" => Head(tasks) = ExecuteTask
           /\ kind \in {"start", "prepare", "finally"} =>
                  /\ Head(tasks).req \in Requests
                  /\ Head(tasks) = Task(kind, Head(tasks).req)
           /\ kind \in {"push", "return"} =>
                  /\ Head(tasks).req \in Calls
                  /\ Head(tasks) = Task(kind, Head(tasks).req)
<1>1. tasks # <<>> /\ Head(tasks).kind = kind /\ phase = "tasks" /\ ~asleep
  BY DEF NextTask
<1>2. tasks \in Seq(AnyTask)  BY DEF Types, IoTypes, CallTypes
<1>3. Head(tasks) \in AnyTask  BY <1>1, <1>2, HeadThenTail
<1> QED
  BY <1>1, <1>3 DEF AnyTask, IoTasks, ExecuteTask, RequestTasks, CallTasks, Task

(* What becomes of the counts when the head of a sequence goes and others  *)
(* are added.                                                              *)
LEMMA HeadGoes ==
    ASSUME NEW S, NEW s \in Seq(S), s # <<>>, NEW more \in Seq(S), NEW kind
    PROVE  /\ Tail(s) \o more \in Seq(S)
           /\ Count(Tail(s) \o more, kind) + Indicator(Head(s) \in kind)
                  = Count(s, kind) + Count(more, kind)
<1> DEFINE rest == Tail(s)
<1>1. rest \in Seq(S)  BY HeadThenTail
<1>2. Count(s, kind) = Indicator(Head(s) \in kind) + Count(rest, kind)  BY CountHead
<1> HIDE DEF rest
<1>3. /\ rest \o more \in Seq(S)
      /\ Count(rest \o more, kind) = Count(rest, kind) + Count(more, kind)
  BY <1>1, CountConcat
<1>4. Count(rest, kind) \in Nat /\ Count(more, kind) \in Nat
      /\ Indicator(Head(s) \in kind) \in Nat
  BY <1>1, CountType DEF Indicator
<1>5. Count(rest \o more, kind) + Indicator(Head(s) \in kind)
          = Count(s, kind) + Count(more, kind)
  BY <1>2, <1>3, <1>4
<1> QED BY <1>3, <1>5 DEF rest

(* A task runs, and more become runnable.                                  *)
LEMMA TaskRuns ==
    ASSUME Types, tasks # <<>>, NEW more \in Seq(AnyTask), tasks' = Tail(tasks) \o more
    PROVE  /\ tasks' \in Seq(AnyTask)
           /\ \A kind : /\ Count(tasks, kind) \in Nat /\ Count(more, kind) \in Nat
                         /\ Count(tasks', kind) \in Nat
                         /\ Count(tasks', kind) + Indicator(Head(tasks) \in kind)
                                = Count(tasks, kind) + Count(more, kind)
<1>1. tasks \in Seq(AnyTask)  BY DEF Types
<1>2. tasks' \in Seq(AnyTask)  BY <1>1, HeadGoes
<1>3. ASSUME NEW kind
      PROVE  /\ Count(tasks, kind) \in Nat /\ Count(more, kind) \in Nat
             /\ Count(tasks', kind) \in Nat
  BY <1>1, <1>2, CountType
<1>4. ASSUME NEW kind
      PROVE  Count(tasks', kind) + Indicator(Head(tasks) \in kind)
                 = Count(tasks, kind) + Count(more, kind)
  BY <1>1, HeadGoes
<1> QED BY <1>2, <1>3, <1>4

(* What the tasks count when the first one of them has run.                *)
LEMMA TaskEnds ==
    ASSUME Types, tasks # <<>>, tasks' = Tail(tasks)
    PROVE  /\ tasks' \in Seq(AnyTask)
           /\ \A kind : /\ Count(tasks, kind) \in Nat /\ Count(tasks', kind) \in Nat
                         /\ Count(tasks', kind) + Indicator(Head(tasks) \in kind)
                                = Count(tasks, kind)
<1>1. Tail(tasks) \in Seq(AnyTask) /\ <<>> \in Seq(AnyTask)
  BY HeadThenTail DEF Types
<1>2. tasks' = Tail(tasks) \o <<>>  BY <1>1, ConcatEmptySeq
<1> DEFINE none == <<>>
<1>3. none \in Seq(AnyTask) /\ tasks' = Tail(tasks) \o none /\ \A kind : Count(none, kind) = 0
  BY <1>1, <1>2, CountEmpty
<1> HIDE DEF none
<1>4. ASSUME NEW kind
      PROVE  /\ Count(tasks, kind) \in Nat /\ Count(tasks', kind) \in Nat
             /\ Count(tasks', kind) + Indicator(Head(tasks) \in kind)
                    = Count(tasks, kind) + Count(none, kind)
  BY <1>3, TaskRuns
<1>5. ASSUME NEW kind
      PROVE  Count(tasks', kind) + Indicator(Head(tasks) \in kind) = Count(tasks, kind)
  BY <1>3, <1>4
<1>6. tasks' \in Seq(AnyTask)  BY <1>1
<1> QED BY <1>4, <1>5, <1>6

(* What the tasks count when others are added at the end.                  *)
LEMMA TasksCome ==
    ASSUME Types, NEW more \in Seq(AnyTask), tasks' = tasks \o more
    PROVE  /\ tasks' \in Seq(AnyTask)
           /\ \A kind : /\ Count(tasks, kind) \in Nat /\ Count(more, kind) \in Nat
                         /\ Count(tasks', kind) = Count(tasks, kind) + Count(more, kind)
<1>1. tasks \in Seq(AnyTask)  BY DEF Types
<1>2. ASSUME NEW kind
      PROVE  Count(tasks, kind) \in Nat /\ Count(more, kind) \in Nat
  BY <1>1, CountType
<1> QED BY <1>1, <1>2, CountConcat

(* The counts of the invariant are natural numbers.                        *)
LEMMA Numbers ==
    ASSUME Types
    PROVE  /\ fairSem.units \in Nat /\ Len(fairSem.waiters) \in Nat
           /\ aioSem.units \in Nat /\ Len(aioSem.waiters) \in Nat
           /\ room.units \in Nat
           /\ Len(pending) \in Nat /\ Len(events) \in Nat
           /\ IsFiniteSet(inKernel) /\ Cardinality(inKernel) \in Nat
           /\ Len(toThread) \in Nat /\ Len(taken) \in Nat
           /\ Len(stored) \in Nat /\ Len(completed) \in Nat
           /\ arrived \in Nat /\ made \in Nat
           /\ Submitted \in Nat
<1>1. /\ fairSem.units \in Nat /\ Len(fairSem.waiters) \in Nat
      /\ aioSem.units \in Nat /\ Len(aioSem.waiters) \in Nat
      /\ room.units \in Nat
  BY DEF Types, IoTypes, CallTypes, Semaphores
<1>2. /\ Len(pending) \in Nat /\ Len(events) \in Nat
      /\ Len(toThread) \in Nat /\ Len(taken) \in Nat
      /\ Len(stored) \in Nat /\ Len(completed) \in Nat
  BY DEF Types, IoTypes, CallTypes
<1>3. arrived \in Nat /\ made \in Nat
  BY IoAssumption, CallsAssumption DEF Types, IoTypes, CallTypes
<1>4. IsFiniteSet(inKernel) /\ Cardinality(inKernel) \in Nat
  <2>1. IsFiniteSet(Requests)  BY IoAssumption, UpTo DEF Requests
  <2>2. inKernel \in SUBSET Requests  BY DEF Types, IoTypes, CallTypes
  <2> QED BY <2>1, <2>2, FS_Subset, FS_CardinalityType
<1>5. Submitted \in Nat  BY <1>2, <1>4 DEF Submitted
<1> QED BY <1>1, <1>2, <1>3, <1>4, <1>5

(* A count in any sequence is a natural number.                            *)
LEMMA CountNumbers ==
    ASSUME Types, NEW kind
    PROVE  /\ Count(tasks, kind) \in Nat /\ Count(fairSem.waiters, kind) \in Nat
           /\ Count(aioSem.waiters, kind) \in Nat /\ Count(room.waiters, kind) \in Nat
           /\ Count(pending, kind) \in Nat /\ Count(events, kind) \in Nat
           /\ Count(toThread, kind) \in Nat /\ Count(taken, kind) \in Nat
           /\ Count(stored, kind) \in Nat /\ Count(completed, kind) \in Nat
           /\ \A c \in Classes : Count(queues[c], kind) \in Nat
<1>1. /\ tasks \in Seq(AnyTask) /\ fairSem.waiters \in Seq({ExecuteTask})
      /\ aioSem.waiters \in Seq(Prepares) /\ room.waiters \in Seq(Pushes)
  BY DEF Types, IoTypes, CallTypes, Semaphores
<1>2. /\ pending \in Seq(Requests) /\ events \in Seq(Requests)
      /\ toThread \in Seq(Calls) /\ taken \in Seq(Calls)
      /\ stored \in Seq(Calls) /\ completed \in Seq(Calls)
      /\ \A c \in Classes : queues[c] \in Seq(Requests)
  BY DEF Types, IoTypes, CallTypes
<1>3. /\ Count(tasks, kind) \in Nat /\ Count(fairSem.waiters, kind) \in Nat
      /\ Count(aioSem.waiters, kind) \in Nat /\ Count(room.waiters, kind) \in Nat
  BY <1>1, CountType
<1> QED BY <1>2, <1>3, CountType

(* The counts of the places of one request are natural numbers.            *)
LEMMA RequestNumbers ==
    ASSUME Types, NEW r \in Requests
    PROVE  /\ classOf[r] \in Classes
           /\ Count(queues[classOf[r]], {r}) \in Nat /\ Count(tasks, TasksFor(r)) \in Nat
           /\ Count(aioSem.waiters, TasksFor(r)) \in Nat
           /\ Count(pending, {r}) \in Nat /\ Count(events, {r}) \in Nat
           /\ Indicator(r \in inKernel) \in Nat /\ Indicator(r \in answered) \in Nat
           /\ OnItsWay(r) \in Nat
<1>1. classOf[r] \in Classes  BY DEF Types, IoTypes
<1>2. /\ Count(queues[classOf[r]], {r}) \in Nat /\ Count(tasks, TasksFor(r)) \in Nat
      /\ Count(aioSem.waiters, TasksFor(r)) \in Nat
      /\ Count(pending, {r}) \in Nat /\ Count(events, {r}) \in Nat
      /\ Indicator(r \in inKernel) \in Nat /\ Indicator(r \in answered) \in Nat
  BY <1>1, CountNumbers DEF Indicator
<1>3. OnItsWay(r) \in Nat  BY <1>2 DEF OnItsWay
<1> QED BY <1>1, <1>2, <1>3

-----------------------------------------------------------------------------
(* What the steps of one half leave alone in the other.                    *)
LEMMA IoFrame ==
    ASSUME IoParts,
           UNCHANGED <<arrived, classOf, queues, handles, fairSem, aioSem,
                       pending, inKernel, events, answered>>,
           \A kind \in SUBSET IoTasks : Count(tasks', kind) = Count(tasks, kind)
    PROVE  IoParts'
<1>1. /\ Count(tasks', IoTasks) = Count(tasks, IoTasks)
      /\ Count(tasks', Prepares) = Count(tasks, Prepares)
      /\ Count(tasks', {ExecuteTask}) = Count(tasks, {ExecuteTask})
      /\ \A r \in Requests : Count(tasks', TasksFor(r)) = Count(tasks, TasksFor(r))
  BY Kinds
<1>2. Submitted' = Submitted /\ Queued' = Queued  BY DEF Submitted, Queued
<1>3. \A r \in Requests : RequestCount(r)' = RequestCount(r)
  BY <1>1 DEF RequestCount, OnItsWay
<1> QED BY <1>1, <1>2, <1>3
        DEF IoParts, WorkQueued, FairUnits, AioUnits, RequestsCounted

(* Steps of the I/O queue that leave the calls as they are.                *)
LEMMA CallFrame ==
    ASSUME CallParts,
           UNCHANGED <<made, room, toThread, taken, stored, completed, returned>>,
           \A kind \in SUBSET CallTasks : Count(tasks', kind) = Count(tasks, kind)
    PROVE  CallParts'
<1>1. /\ Count(tasks', Pushes) = Count(tasks, Pushes)
      /\ \A c \in Calls : Count(tasks', TasksOfCall(c)) = Count(tasks, TasksOfCall(c))
  BY Kinds
<1>2. WithThread' = WithThread /\ \A c \in Calls : CallCount(c)' = CallCount(c)
  BY <1>1 DEF WithThread, CallCount, InThread
<1> QED BY <1>1, <1>2 DEF CallParts, RoomUnits, CallsCounted

(* Steps that leave the queues and the dispatchers as they are.            *)
LEMMA WorkFrame ==
    ASSUME WorkQueued, UNCHANGED <<queues, handles>>,
           Count(tasks', {ExecuteTask}) + Len(fairSem'.waiters)
               = Count(tasks, {ExecuteTask}) + Len(fairSem.waiters)
    PROVE  WorkQueued'
<1>1. Queued' = Queued  BY DEF Queued
<1> QED BY <1>1 DEF WorkQueued

(* Steps that leave the count of every request as it is.                   *)
LEMMA RequestsFrame ==
    ASSUME RequestsCounted, UNCHANGED <<arrived, classOf, queues>>,
           \A q \in Requests : OnItsWay(q)' = OnItsWay(q)
    PROVE  RequestsCounted'
BY DEF RequestsCounted, RequestCount

(* queue(): a request comes, with a dispatcher that asks for a unit.       *)
LEMMA QueueStep ==
    ASSUME IInv, NEW c \in Classes, Queue(c), idle' = FALSE,
           UNCHANGED <<room, threadVars, callVars>>
    PROVE  IInv'
<1> DEFINE r == arrived + 1
           more == ReadyAfterWait(fairSem, ExecuteTask)
<1>0. Types /\ IoParts /\ CallParts /\ Resting /\ Missed  BY DEF IInv
<1>1. /\ phase \in {"tasks", "polled"} /\ arrived < MaxRequests /\ classOf[r] = c
      /\ arrived' = r
      /\ queues' = [queues EXCEPT ![c] = Append(@, r)]
      /\ handles' = handles \union {c}
      /\ fairSem' = AfterWait(fairSem, ExecuteTask)
      /\ tasks' = tasks \o more
      /\ asleep' = FALSE
      /\ UNCHANGED <<classOf, aioSem, kernelVars, answered, phase>>
  BY DEF Queue, ExecuteTask
<1>2. UNCHANGED <<pending, inKernel, events, made, room, toThread, taken, stored,
                  completed, returned, thread>>
  BY <1>1 DEF kernelVars, threadVars, callVars
<1>3. r \in Requests /\ r \in 0 .. MaxRequests /\ arrived \in Nat /\ r = arrived + 1
  <2>1. arrived \in Nat /\ MaxRequests \in Nat  BY <1>0, Numbers, IoAssumption
  <2>2. arrived < MaxRequests /\ r = arrived + 1  BY <1>1
  <2> HIDE DEF r
  <2>3. r \in 1 .. MaxRequests /\ r \in 0 .. MaxRequests  BY ONLY <2>1, <2>2
  <2> QED BY <2>1, <2>2, <2>3 DEF Requests
<1> HIDE DEF r
<1>4. /\ fairSem' \in Semaphores({ExecuteTask}) /\ more \in Seq({ExecuteTask})
      /\ fairSem'.units + Len(more) = fairSem.units
      /\ Len(fairSem'.waiters) + Len(more) = Len(fairSem.waiters) + 1
      /\ Len(more) \in Nat
  <2>1. fairSem \in Semaphores({ExecuteTask}) /\ ExecuteTask \in {ExecuteTask}
    BY <1>0 DEF Types, IoTypes, CallTypes
  <2>2. more \in Seq({ExecuteTask})  BY <2>1, WaitSem
  <2> QED BY <1>1, <2>1, <2>2, WaitSem
<1> HIDE DEF more
<1>5. /\ queues' \in [Classes -> Seq(Requests)]
      /\ Len(queues'[c]) = Len(queues[c]) + 1 /\ queues'[c] # <<>>
      /\ \A i \in 1 .. Len(queues[c]) : queues'[c][i] = queues[c][i]
      /\ queues'[c][Len(queues[c]) + 1] = r
      /\ \A d \in Classes \ {c} : queues'[d] = queues[d]
      /\ Len(queues[c]) \in Nat
  <2>1. queues \in [Classes -> Seq(Requests)] /\ queues[c] \in Seq(Requests)
    BY <1>0 DEF Types, IoTypes, CallTypes
  <2> QED BY <1>1, <1>3, <2>1, AppendProperties
<1>6. more \in Seq(AnyTask) /\ tasks' \in Seq(AnyTask)
  <2>1. more \in Seq(AnyTask)  BY <1>4, Kinds, SeqMonotonic
  <2> QED BY <1>0, <1>1, <2>1, ConcatProperties DEF Types, IoTypes, CallTypes
<1>7. \A kind : Count(tasks', kind) = Count(tasks, kind) + Count(more, kind)
  BY <1>0, <1>1, <1>6, CountConcat DEF Types, IoTypes, CallTypes
<1>8. \A kind : /\ ExecuteTask \in kind => Count(tasks', kind) = Count(tasks, kind) + Len(more)
                /\ ExecuteTask \notin kind => Count(tasks', kind) = Count(tasks, kind)
  <2> SUFFICES ASSUME NEW kind
               PROVE  /\ ExecuteTask \in kind => Count(tasks', kind) = Count(tasks, kind) + Len(more)
                      /\ ExecuteTask \notin kind => Count(tasks', kind) = Count(tasks, kind)
    OBVIOUS
  <2>1. Count(tasks, kind) \in Nat  BY <1>0, CountNumbers
  <2>2. ExecuteTask \in kind => Count(more, kind) = Len(more)  BY <1>4, CountAll
  <2>3. ExecuteTask \notin kind => Count(more, kind) = 0  BY <1>4, CountNone
  <2> QED BY <1>7, <2>1, <2>2, <2>3
<1>9. Types'
  <2>1. ASSUME NEW d \in Classes, NEW i \in 1 .. Len(queues'[d])
        PROVE  classOf[queues'[d][i]] = d
    <3>1. CASE d # c  BY <1>0, <1>5, <3>1 DEF Types, IoTypes, CallTypes
    <3>2. CASE d = c /\ i # Len(queues[c]) + 1
      <4>1. i \in 1 .. Len(queues[c])  BY <1>5, <3>2
      <4> QED BY <1>0, <1>5, <3>2, <4>1 DEF Types, IoTypes, CallTypes
    <3>3. CASE d = c /\ i = Len(queues[c]) + 1  BY <1>1, <1>5, <3>3
    <3> QED BY <3>1, <3>2, <3>3
  <2>2. /\ arrived' \in 0 .. MaxRequests /\ classOf' \in [Requests -> Classes]
        /\ aioSem' \in Semaphores(Prepares) /\ answered' \subseteq Requests
        /\ pending' \in Seq(Requests) /\ events' \in Seq(Requests)
        /\ inKernel' \subseteq Requests
    BY <1>0, <1>1, <1>2, <1>3 DEF Types, IoTypes, CallTypes
  <2>3. CallTypes'  BY <1>0, <1>2 DEF Types, CallTypes
  <2>4. classOf' = classOf  BY <1>1
  <2> QED BY <1>4, <1>5, <1>6, <2>1, <2>2, <2>3, <2>4 DEF Types, IoTypes
<1>10. WorkQueued'
  <2>1. handles' = {d \in Classes : queues'[d] # <<>>}
    BY <1>0, <1>1, <1>5 DEF IoParts, WorkQueued
  <2>2. Queued' = Queued \union {<<c, Len(queues[c]) + 1>>}
    <3>1. ASSUME NEW d \in Classes, NEW i \in 1 .. Len(queues'[d])
          PROVE  <<d, i>> \in Queued \union {<<c, Len(queues[c]) + 1>>}
      BY <1>5 DEF Queued
    <3>2. ASSUME NEW d \in Classes, NEW i \in 1 .. Len(queues[d])
          PROVE  i \in 1 .. Len(queues'[d])
      BY <1>5
    <3>3. Len(queues[c]) + 1 \in 1 .. Len(queues'[c])  BY <1>5
    <3> QED BY <3>1, <3>2, <3>3 DEF Queued
  <2>3. <<c, Len(queues[c]) + 1>> \notin Queued  BY <1>5 DEF Queued
  <2>4. IsFiniteSet(Queued') /\ Cardinality(Queued') = Cardinality(Queued) + 1
    BY <1>0, <2>2, <2>3, FS_AddElement DEF IoParts, WorkQueued
  <2>5. Count(tasks', {ExecuteTask}) = Count(tasks, {ExecuteTask}) + Len(more)
    BY <1>8
  <2>6. /\ Count(tasks, {ExecuteTask}) \in Nat /\ Len(fairSem.waiters) \in Nat
        /\ Count(tasks, {ExecuteTask}) + Len(fairSem.waiters) = Cardinality(Queued)
    BY <1>0, Numbers, CountNumbers DEF IoParts, WorkQueued
  <2>7. Len(fairSem'.waiters) \in Nat  BY <1>4 DEF Semaphores
  <2>8. Count(tasks', {ExecuteTask}) + Len(fairSem'.waiters) = Cardinality(Queued')
    <3>1. Len(fairSem'.waiters) + Len(more) = Len(fairSem.waiters) + 1  BY <1>4
    <3>2. Len(more) \in Nat /\ Cardinality(Queued') = Cardinality(Queued) + 1
      BY <1>4, <2>4
    <3> DEFINE t == Count(tasks, {ExecuteTask})
               t2 == Count(tasks', {ExecuteTask})
               l == Len(fairSem.waiters)
               l2 == Len(fairSem'.waiters)
               k == Cardinality(Queued)
               k2 == Cardinality(Queued')
               n == Len(more)
    <3>3. /\ t \in Nat /\ l \in Nat /\ l2 \in Nat /\ n \in Nat
          /\ t2 = t + n /\ t + l = k /\ l2 + n = l + 1 /\ k2 = k + 1
      BY <2>5, <2>6, <2>7, <3>1, <3>2
    <3> HIDE DEF t, t2, l, l2, k, k2, n
    <3>4. t2 + l2 = k2  BY ONLY <3>3
    <3> QED BY <3>4 DEF t2, l2, k2
  <2> QED BY <2>1, <2>4, <2>8 DEF WorkQueued
<1>11. Submitted' = Submitted  BY <1>2 DEF Submitted
<1>12. FairUnits'
  <2>1. Count(tasks', IoTasks) = Count(tasks, IoTasks) + Len(more)  BY <1>8, Kinds
  <2>2. fairSem'.units \in Nat /\ Count(tasks, IoTasks) \in Nat
    BY <1>0, <1>4, CountNumbers DEF Semaphores
  <2>3. fairSem'.units + (Count(tasks, IoTasks) + Len(more))
            = fairSem.units + Count(tasks, IoTasks)
    BY <1>4, <2>2
  <2> QED BY <1>0, <1>1, <1>11, <2>1, <2>3 DEF IoParts, FairUnits
<1>13. AioUnits'
  <2>1. Count(tasks', Prepares) = Count(tasks, Prepares)  BY <1>8, Kinds
  <2> QED BY <1>0, <1>1, <1>11, <2>1 DEF IoParts, AioUnits
<1>14. RequestsCounted'
  <2> SUFFICES ASSUME NEW q \in Requests
               PROVE  RequestCount(q)' = Indicator(q <= r)
    BY <1>1 DEF RequestsCounted
  <2>1. Count(tasks', TasksFor(q)) = Count(tasks, TasksFor(q))  BY <1>8, Kinds
  <2>2. Count(queues'[classOf[q]], {q}) = Count(queues[classOf[q]], {q}) + Indicator(q = r)
    <3>1. CASE classOf[q] = c
      <4>1. queues'[c] = Append(queues[c], r) /\ queues[c] \in Seq(Requests)
        BY <1>0, <1>1 DEF Types, IoTypes, CallTypes
      <4>2. Count(Append(queues[c], r), {q}) = Count(queues[c], {q}) + Indicator(r \in {q})
        BY <1>3, <4>1, CountAppend
      <4> QED BY <3>1, <4>1, <4>2 DEF Indicator
    <3>2. CASE classOf[q] # c
      <4>1. q # r /\ classOf[q] \in Classes
        BY <1>0, <1>1, <3>2 DEF Types, IoTypes, CallTypes
      <4>2. Count(queues[classOf[q]], {q}) \in Nat  BY <1>0, <4>1, CountNumbers
      <4> QED BY <1>5, <3>2, <4>1, <4>2 DEF Indicator
    <3> QED BY <3>1, <3>2
  <2>3. RequestCount(q) = Indicator(q <= arrived)
    BY <1>0 DEF IoParts, RequestsCounted
  <2>4. Indicator(q <= r) = Indicator(q <= arrived) + Indicator(q = r)
    BY <1>3 DEF Indicator, Requests
  <2>5. RequestCount(q)' = RequestCount(q) + Indicator(q = r)
    <3>1. /\ Count(queues[classOf[q]], {q}) \in Nat /\ OnItsWay(q) \in Nat
          /\ Indicator(q = r) \in Nat
      BY <1>0, RequestNumbers DEF Indicator
    <3>2. OnItsWay(q)' = OnItsWay(q)  BY <1>1, <1>2, <2>1 DEF OnItsWay
    <3>3. RequestCount(q)' = Count(queues'[classOf[q]], {q}) + OnItsWay(q)
      BY <1>1, <3>2 DEF RequestCount
    <3> QED BY <2>2, <3>1, <3>3 DEF RequestCount
  <2> QED BY <2>3, <2>4, <2>5
<1>15. CallParts'
  <2>1. \A kind \in SUBSET CallTasks : Count(tasks', kind) = Count(tasks, kind)
    BY <1>8, Kinds
  <2> QED BY <1>0, <1>2, <2>1, CallFrame
<1>16. Resting'
  <2>1. Sane(fairSem')
    BY <1>0, <1>1, WaitSane DEF Types, IoTypes, CallTypes, Resting
  <2> QED BY <1>0, <1>1, <2>1 DEF Resting, Sane
<1>17. Missed'  BY <1>0, <1>1, <1>2 DEF Missed, AtMostOneMissed
<1> QED BY <1>9, <1>10, <1>12, <1>13, <1>14, <1>15, <1>16, <1>17 DEF IInv, IoParts

(* A dispatcher with its unit takes the next request of a class.           *)
LEMMA ExecuteStep ==
    ASSUME IInv, NEW c \in Classes, Execute(c), UNCHANGED <<poolVars, callVars>>
    PROVE  IInv'
<1> DEFINE r == Head(queues[c])
           start == Task("start", r)
<1>0. Types /\ IoParts /\ CallParts /\ Resting /\ Missed  BY DEF IInv
<1>1. /\ NextTask("execute") /\ c \in handles /\ queues[c] # <<>>
      /\ tasks' = Append(Tail(tasks), start)
      /\ queues' = [queues EXCEPT ![c] = Tail(@)]
      /\ UNCHANGED <<arrived, classOf, fairSem, aioSem, kernelVars, answered, phase, asleep>>
  BY DEF Execute
<1>2. UNCHANGED <<pending, inKernel, events, made, room, toThread, taken, stored,
                  completed, returned, notified, started, thread, idle>>
  BY <1>1 DEF kernelVars, poolVars, threadVars, callVars
<1>3. /\ tasks # <<>> /\ Head(tasks) = ExecuteTask /\ phase = "tasks" /\ ~asleep
  BY <1>0, <1>1, TaskThatRuns
<1>4. /\ queues \in [Classes -> Seq(Requests)] /\ queues[c] \in Seq(Requests)
      /\ r \in Requests /\ r = queues[c][1] /\ Tail(queues[c]) \in Seq(Requests)
      /\ Len(queues[c]) \in Nat /\ Len(queues[c]) > 0
      /\ Len(Tail(queues[c])) = Len(queues[c]) - 1
      /\ \A i \in 1 .. Len(queues[c]) - 1 : Tail(queues[c])[i] = queues[c][i + 1]
  <2>1. queues \in [Classes -> Seq(Requests)] /\ queues[c] \in Seq(Requests)
    BY <1>0 DEF Types, IoTypes
  <2> QED BY <1>1, <2>1, HeadThenTail
<1>5. /\ \A i \in 1 .. Len(queues[c]) : classOf[queues[c][i]] = c
      /\ classOf[r] = c
  <2>1. \A i \in 1 .. Len(queues[c]) : classOf[queues[c][i]] = c
    BY <1>0 DEF Types, IoTypes
  <2>2. 1 \in 1 .. Len(queues[c])  BY <1>4
  <2> QED BY <1>4, <2>1, <2>2
<1>6. \A q \in Requests : Count(queues[c], {q}) = Indicator(q = r) + Count(Tail(queues[c]), {q})
  <2>1. ASSUME NEW q \in Requests
        PROVE  Count(queues[c], {q}) = Indicator(r \in {q}) + Count(Tail(queues[c]), {q})
    BY <1>1, <1>4, CountHead
  <2> QED BY <2>1 DEF Indicator
<1>7. /\ start \in AnyTask /\ start \in IoTasks /\ start # ExecuteTask
      /\ start \notin Prepares /\ start \notin CallTasks
      /\ \A q \in Requests : start \in TasksFor(q) <=> q = r
  BY <1>4, TaskFacts
<1> HIDE DEF r, start
<1>8. /\ tasks' \in Seq(AnyTask)
      /\ \A kind : /\ Count(tasks, kind) \in Nat /\ Count(tasks', kind) \in Nat
                    /\ Count(tasks', kind) + Indicator(ExecuteTask \in kind)
                           = Count(tasks, kind) + Indicator(start \in kind)
  <2>1. Tail(tasks) \in Seq(AnyTask)  BY <1>0, <1>3, HeadThenTail DEF Types
  <2>2. tasks' = Tail(tasks) \o <<start>> /\ <<start>> \in Seq(AnyTask)
    BY <1>1, <1>7, <2>1, AppendIsConcat
  <2> QED BY <1>0, <1>3, <2>2, TaskRuns, CountOne
<1>9. /\ Count(tasks', {ExecuteTask}) + 1 = Count(tasks, {ExecuteTask})
      /\ Count(tasks', IoTasks) = Count(tasks, IoTasks)
      /\ Count(tasks', Prepares) = Count(tasks, Prepares)
      /\ \A q \in Requests :
             Count(tasks', TasksFor(q)) = Count(tasks, TasksFor(q)) + Indicator(q = r)
      /\ \A kind \in SUBSET CallTasks : Count(tasks', kind) = Count(tasks, kind)
  <2>1. Count(tasks', {ExecuteTask}) + 1 = Count(tasks, {ExecuteTask})
    BY <1>7, <1>8 DEF Indicator
  <2>2. Count(tasks', IoTasks) = Count(tasks, IoTasks)
    BY <1>7, <1>8, Kinds DEF Indicator
  <2>3. Count(tasks', Prepares) = Count(tasks, Prepares)
    BY <1>7, <1>8, Kinds DEF Indicator
  <2>4. ASSUME NEW q \in Requests
        PROVE  Count(tasks', TasksFor(q)) = Count(tasks, TasksFor(q)) + Indicator(q = r)
    BY <1>7, <1>8, Kinds DEF Indicator
  <2>5. ASSUME NEW kind \in SUBSET CallTasks
        PROVE  Count(tasks', kind) = Count(tasks, kind)
    <3>1. ExecuteTask \notin kind /\ start \notin kind  BY <1>7, Kinds
    <3> QED BY <1>8, <3>1 DEF Indicator
  <2> QED BY <2>1, <2>2, <2>3, <2>4, <2>5
<1>10. /\ queues' \in [Classes -> Seq(Requests)] /\ queues'[c] = Tail(queues[c])
       /\ \A d \in Classes \ {c} : queues'[d] = queues[d]
  BY <1>1, <1>4
<1>11. Types'
  <2>1. ASSUME NEW d \in Classes, NEW i \in 1 .. Len(queues'[d])
        PROVE  classOf[queues'[d][i]] = d
    <3>1. CASE d # c  BY <1>0, <1>10, <3>1 DEF Types, IoTypes
    <3>2. CASE d = c
      <4>1. i \in 1 .. Len(queues[c]) - 1 /\ i + 1 \in 1 .. Len(queues[c])
        BY <1>4, <1>10, <3>2
      <4>2. queues'[c][i] = queues[c][i + 1]  BY <1>4, <1>10, <4>1
      <4> QED BY <1>5, <3>2, <4>1, <4>2
    <3> QED BY <3>1, <3>2
  <2>2. classOf' = classOf  BY <1>1
  <2>3. IoTypes'  BY <1>0, <1>1, <1>2, <1>10, <2>1, <2>2 DEF Types, IoTypes
  <2>4. CallTypes'  BY <1>0, <1>2 DEF Types, CallTypes
  <2> QED BY <1>8, <2>3, <2>4 DEF Types
<1>12. WorkQueued'
  <2>1. handles' = {d \in Classes : queues'[d] # <<>>}
    <3>1. handles = {d \in Classes : queues[d] # <<>>}
      BY <1>0 DEF IoParts, WorkQueued
    <3>2. handles' = handles \ (IF Tail(queues[c]) = <<>> THEN {c} ELSE {})
      BY <3>1 DEF Execute
    <3> QED BY <1>1, <1>10, <3>1, <3>2
  <2>2. Queued' = Queued \ {<<c, Len(queues[c])>>}
    <3>0. Len(queues[c]) \in Nat  BY <1>4
    <3>1. ASSUME NEW d \in Classes, NEW i \in 1 .. Len(queues'[d])
          PROVE  i \in 1 .. Len(queues[d]) /\ <<d, i>> # <<c, Len(queues[c])>>
      <4>1. CASE d = c
        <5>1. i \in 1 .. Len(queues[c]) - 1  BY <1>4, <1>10, <4>1
        <5>2. i \in 1 .. Len(queues[c]) /\ i # Len(queues[c])  BY ONLY <3>0, <5>1
        <5> QED BY <4>1, <5>2
      <4>2. CASE d # c  BY <1>10, <4>2
      <4> QED BY <4>1, <4>2
    <3>2. ASSUME NEW d \in Classes, NEW i \in 1 .. Len(queues[d]),
                 <<d, i>> # <<c, Len(queues[c])>>
          PROVE  i \in 1 .. Len(queues'[d])
      <4>1. CASE d = c
        <5>1. i # Len(queues[c]) /\ i \in 1 .. Len(queues[c])  BY <3>2, <4>1
        <5>2. i \in 1 .. Len(queues[c]) - 1  BY ONLY <3>0, <5>1
        <5> QED BY <1>4, <1>10, <4>1, <5>2
      <4>2. CASE d # c  BY <1>10, <4>2
      <4> QED BY <4>1, <4>2
    <3>3. ASSUME NEW x \in Queued' PROVE x \in Queued \ {<<c, Len(queues[c])>>}
      <4>1. PICK d \in Classes : \E i \in 1 .. Len(queues'[d]) : x = <<d, i>>
        BY <3>3 DEF Queued
      <4>2. PICK i \in 1 .. Len(queues'[d]) : x = <<d, i>>  BY <4>1
      <4>3. i \in 1 .. Len(queues[d]) /\ <<d, i>> # <<c, Len(queues[c])>>  BY <3>1
      <4> QED BY <4>2, <4>3 DEF Queued
    <3>4. ASSUME NEW x \in Queued \ {<<c, Len(queues[c])>>} PROVE x \in Queued'
      <4>1. PICK d \in Classes : \E i \in 1 .. Len(queues[d]) : x = <<d, i>>
        BY <3>4 DEF Queued
      <4>2. PICK i \in 1 .. Len(queues[d]) : x = <<d, i>>  BY <4>1
      <4>3. i \in 1 .. Len(queues'[d])  BY <3>2, <3>4, <4>2
      <4> QED BY <4>2, <4>3 DEF Queued
    <3> QED BY <3>3, <3>4
  <2>3. <<c, Len(queues[c])>> \in Queued
    <3>1. Len(queues[c]) \in 1 .. Len(queues[c]) /\ c \in Classes  BY <1>4
    <3> DEFINE here == {<<c, i>> : i \in 1 .. Len(queues[c])}
    <3>2. <<c, Len(queues[c])>> \in here /\ here \subseteq Queued
      BY <3>1 DEF Queued
    <3> QED BY <3>2
  <2>4. IsFiniteSet(Queued') /\ Cardinality(Queued') = Cardinality(Queued) - 1
    BY <1>0, <2>2, <2>3, FS_RemoveElement DEF IoParts, WorkQueued
  <2>5. /\ Count(tasks, {ExecuteTask}) \in Nat /\ Len(fairSem.waiters) \in Nat
        /\ Count(tasks, {ExecuteTask}) + Len(fairSem.waiters) = Cardinality(Queued)
        /\ Count(tasks', {ExecuteTask}) \in Nat
    BY <1>0, <1>8, Numbers DEF IoParts, WorkQueued
  <2>6. Count(tasks', {ExecuteTask}) + Len(fairSem.waiters) = Cardinality(Queued')
    BY <1>9, <2>4, <2>5
  <2> QED BY <1>1, <2>1, <2>4, <2>6 DEF WorkQueued
<1>13. Submitted' = Submitted  BY <1>2 DEF Submitted
<1>14. FairUnits' /\ AioUnits'
  BY <1>0, <1>1, <1>9, <1>13 DEF IoParts, FairUnits, AioUnits
<1>15. RequestsCounted'
  <2> SUFFICES ASSUME NEW q \in Requests PROVE RequestCount(q)' = RequestCount(q)
    BY <1>0, <1>1 DEF IoParts, RequestsCounted
  <2>1. Count(queues[classOf[q]], {q}) = Count(queues'[classOf[q]], {q}) + Indicator(q = r)
    <3>1. CASE classOf[q] = c
      <4>1. Count(Tail(queues[c]), {q}) \in Nat  BY <1>4, CountType
      <4>2. Count(queues[c], {q}) = Indicator(q = r) + Count(Tail(queues[c]), {q})
        BY <1>6
      <4>3. Indicator(q = r) \in Nat  BY DEF Indicator
      <4>4. Count(queues[c], {q}) = Count(Tail(queues[c]), {q}) + Indicator(q = r)
        BY <4>1, <4>2, <4>3
      <4> QED BY <1>10, <3>1, <4>4
    <3>2. CASE classOf[q] # c
      <4>1. Count(queues[classOf[q]], {q}) \in Nat /\ classOf[q] \in Classes
        BY <1>0, RequestNumbers
      <4> QED BY <1>5, <1>10, <3>2, <4>1 DEF Indicator
    <3> QED BY <3>1, <3>2
  <2>2. Count(queues'[classOf[q]], {q}) \in Nat /\ Indicator(q = r) \in Nat
    <3>1. classOf[q] \in Classes  BY <1>0, RequestNumbers
    <3> QED BY <1>10, <3>1, CountType DEF Indicator
  <2>3. OnItsWay(q)' = OnItsWay(q) + Indicator(q = r)
    <3>1. Count(tasks', TasksFor(q)) = Count(tasks, TasksFor(q)) + Indicator(q = r)
      BY <1>9
    <3> DEFINE t == Count(tasks, TasksFor(q))
               w == Count(aioSem.waiters, TasksFor(q))
               p == Count(pending, {q})
               k == Indicator(q \in inKernel)
               e == Count(events, {q})
               a == Indicator(q \in answered)
    <3>2. /\ t \in Nat /\ w \in Nat /\ p \in Nat
          /\ k \in Nat /\ e \in Nat /\ a \in Nat
      BY <1>0, RequestNumbers
    <3>3. OnItsWay(q) = t + w + p + k + e + a  BY DEF OnItsWay
    <3>4. OnItsWay(q)' = (t + Indicator(q = r)) + w + p + k + e + a
      BY <1>1, <1>2, <3>1 DEF OnItsWay
    <3> HIDE DEF t, w, p, k, e, a
    <3> QED BY ONLY <2>2, <3>2, <3>3, <3>4
  <2>4. RequestCount(q)' = Count(queues'[classOf[q]], {q}) + OnItsWay(q)'
    BY <1>1 DEF RequestCount
  <2>5. OnItsWay(q) \in Nat  BY <1>0, RequestNumbers
  <2>6. RequestCount(q) = Count(queues[classOf[q]], {q}) + OnItsWay(q)
    BY DEF RequestCount
  <2> QED BY ONLY <2>1, <2>2, <2>3, <2>4, <2>5, <2>6
<1>16. CallParts'  BY <1>0, <1>2, <1>9, CallFrame
<1>17. Resting'  BY <1>0, <1>1, <1>2, <1>3 DEF Resting, Sane
<1>18. Missed'  BY <1>0, <1>1, <1>2, <1>3 DEF Missed, AtMostOneMissed
<1> QED BY <1>11, <1>12, <1>14, <1>15, <1>16, <1>17, <1>18 DEF IInv, IoParts

(* A request that is on its way is not answered yet, and not twice in the  *)
(* same place.                                                             *)
LEMMA OnePlaceOnly ==
    ASSUME Types, RequestsCounted, NEW q \in Requests
    PROVE  /\ Count(tasks, TasksFor(q)) >= 1 => q \notin answered /\ q \notin inKernel
           /\ Count(pending, {q}) >= 1 => q \notin answered /\ q \notin inKernel
           /\ q \in inKernel => q \notin answered
           /\ Count(pending, {q}) <= 1
<1>1. RequestCount(q) \in {0, 1}  BY DEF RequestsCounted, Indicator
<1>2. RequestCount(q) =
          Count(queues[classOf[q]], {q})
              + (Count(tasks, TasksFor(q)) + Count(aioSem.waiters, TasksFor(q))
                    + Count(pending, {q}) + Indicator(q \in inKernel)
                    + Count(events, {q}) + Indicator(q \in answered))
  BY DEF RequestCount, OnItsWay
<1>3. /\ Count(tasks, TasksFor(q)) + Indicator(q \in inKernel) + Indicator(q \in answered) <= 1
      /\ Count(pending, {q}) + Indicator(q \in inKernel) + Indicator(q \in answered) <= 1
  BY <1>1, <1>2, RequestNumbers
<1> QED BY <1>3, RequestNumbers DEF Indicator

(* A task of a request runs: what its going takes from the counts.         *)
LEMMA RequestTaskRuns ==
    ASSUME Types, NEW kind \in {"start", "prepare", "finally"}, NextTask(kind),
           NEW more \in Seq(AnyTask), tasks' = Tail(tasks) \o more
    PROVE  /\ tasks' \in Seq(AnyTask)
           /\ Count(tasks', {ExecuteTask})
                  = Count(tasks, {ExecuteTask}) + Count(more, {ExecuteTask})
           /\ Count(tasks', IoTasks) + 1 = Count(tasks, IoTasks) + Count(more, IoTasks)
           /\ Count(tasks', Prepares) + Indicator(kind = "prepare")
                  = Count(tasks, Prepares) + Count(more, Prepares)
           /\ \A q \in Requests :
                  Count(tasks', TasksFor(q)) + Indicator(q = Head(tasks).req)
                      = Count(tasks, TasksFor(q)) + Count(more, TasksFor(q))
           /\ \A K \in SUBSET CallTasks :
                  Count(tasks', K) = Count(tasks, K) + Count(more, K)
<1> DEFINE h == Head(tasks)
           r == Head(tasks).req
<1>1. tasks # <<>> /\ r \in Requests /\ h = Task(kind, r)  BY TaskThatRuns
<1>2. /\ h \in IoTasks /\ h # ExecuteTask /\ h \notin CallTasks
      /\ h \in Prepares <=> kind = "prepare"
      /\ \A q \in Requests : h \in TasksFor(q) <=> q = r
  BY <1>1, TaskFacts
<1>3. tasks' \in Seq(AnyTask)  BY <1>1, TaskRuns
<1>4. ASSUME NEW K
      PROVE  /\ Count(tasks, K) \in Nat /\ Count(more, K) \in Nat /\ Count(tasks', K) \in Nat
             /\ Count(tasks', K) + Indicator(h \in K) = Count(tasks, K) + Count(more, K)
  BY <1>1, TaskRuns
<1> HIDE DEF h, r
<1>5. ASSUME NEW K, h \notin K
      PROVE  Count(tasks', K) = Count(tasks, K) + Count(more, K)
  BY <1>4, <1>5 DEF Indicator
<1>6. ASSUME NEW K, h \in K
      PROVE  Count(tasks', K) + 1 = Count(tasks, K) + Count(more, K)
  BY <1>4, <1>6 DEF Indicator
<1>7. Count(tasks', {ExecuteTask}) = Count(tasks, {ExecuteTask}) + Count(more, {ExecuteTask})
  BY <1>2, <1>5
<1>8. Count(tasks', IoTasks) + 1 = Count(tasks, IoTasks) + Count(more, IoTasks)
  BY <1>2, <1>6
<1>9. Count(tasks', Prepares) + Indicator(kind = "prepare")
          = Count(tasks, Prepares) + Count(more, Prepares)
  <2>1. Indicator(kind = "prepare") = Indicator(h \in Prepares)
    BY <1>2 DEF Indicator
  <2> QED BY <1>4, <2>1
<1>10. ASSUME NEW q \in Requests
       PROVE  Count(tasks', TasksFor(q)) + Indicator(q = r)
                  = Count(tasks, TasksFor(q)) + Count(more, TasksFor(q))
  <2>1. Indicator(q = r) = Indicator(h \in TasksFor(q))  BY <1>2 DEF Indicator
  <2> QED BY <1>4, <2>1
<1>11. ASSUME NEW K \in SUBSET CallTasks
       PROVE  Count(tasks', K) = Count(tasks, K) + Count(more, K)
  <2>1. h \notin K  BY <1>2
  <2> QED BY <1>5, <2>1
<1> QED BY <1>3, <1>7, <1>8, <1>9, <1>10, <1>11 DEF r

(* What tasks of one kind add to the counts.                               *)
LEMMA MoreTasks ==
    ASSUME Types, NEW w \in AnyTask, NEW more \in Seq({w})
    PROVE  /\ more \in Seq(AnyTask) /\ Len(more) \in Nat
           /\ \A K : w \in K => Count(more, K) = Len(more)
           /\ \A K : w \notin K => Count(more, K) = 0
<1>1. more \in Seq(AnyTask)  BY SeqMonotonic
<1>2. Len(more) \in Nat  OBVIOUS
<1>3. ASSUME NEW K, w \in K PROVE Count(more, K) = Len(more)  BY <1>3, CountAll
<1>4. ASSUME NEW K, w \notin K PROVE Count(more, K) = 0  BY <1>4, CountNone
<1> QED BY <1>1, <1>2, <1>3, <1>4

(* The invariant, from what a step of the reactor that brings no request   *)
(* has to keep.                                                            *)
LEMMA IoMove ==
    ASSUME IInv, IoTypes', tasks' \in Seq(AnyTask), Resting', Missed',
           UNCHANGED <<arrived, classOf, queues, handles>>,
           UNCHANGED <<made, room, toThread, taken, stored, completed, returned>>,
           \A K \in SUBSET CallTasks : Count(tasks', K) = Count(tasks, K),
           Count(tasks', {ExecuteTask}) + Len(fairSem'.waiters)
               = Count(tasks, {ExecuteTask}) + Len(fairSem.waiters),
           fairSem'.units + Count(tasks', IoTasks) + Len(aioSem'.waiters) + Submitted'
               = fairSem.units + Count(tasks, IoTasks) + Len(aioSem.waiters) + Submitted,
           aioSem'.units + Count(tasks', Prepares) + Submitted'
               = aioSem.units + Count(tasks, Prepares) + Submitted,
           \A q \in Requests : OnItsWay(q)' = OnItsWay(q)
    PROVE  IInv'
<1>0. Types /\ IoParts /\ CallParts  BY DEF IInv
<1>1. Types'  BY <1>0 DEF Types, CallTypes
<1>2. WorkQueued'  BY <1>0, WorkFrame DEF IoParts
<1>3. FairUnits' /\ AioUnits'  BY <1>0 DEF IoParts, FairUnits, AioUnits
<1>4. RequestsCounted'  BY <1>0, RequestsFrame DEF IoParts
<1>5. CallParts'  BY <1>0, CallFrame
<1> QED BY <1>1, <1>2, <1>3, <1>4, <1>5 DEF IInv, IoParts

(* The request asks for a control block.                                   *)
LEMMA StartStep ==
    ASSUME IInv, Start, UNCHANGED <<poolVars, callVars>>
    PROVE  IInv'
<1> DEFINE r == Head(tasks).req
           w == Task("prepare", r)
           more == ReadyAfterWait(aioSem, w)
           n == Len(more)
<1>0. Types /\ Resting /\ Missed  BY DEF IInv
<1>1. /\ NextTask("start") /\ aioSem' = AfterWait(aioSem, w)
      /\ tasks' = Tail(tasks) \o more
      /\ UNCHANGED <<arrived, classOf, queues, handles, fairSem, pending, inKernel,
                      events, answered, phase, asleep>>
      /\ UNCHANGED <<made, room, toThread, taken, stored, completed, returned,
                      notified, started, thread, idle>>
  BY DEF Start, classVars, kernelVars, poolVars, threadVars, callVars
<1>2. /\ tasks # <<>> /\ Head(tasks) = Task("start", r) /\ r \in Requests
      /\ phase = "tasks" /\ ~asleep
  BY <1>0, <1>1, TaskThatRuns
<1>3. /\ w \in Prepares /\ w \in IoTasks /\ w \in AnyTask /\ w # ExecuteTask /\ w \notin CallTasks
      /\ \A q \in Requests : w \in TasksFor(q) <=> q = r
  BY <1>2, TaskFacts
<1>4. aioSem \in Semaphores(Prepares) /\ Sane(aioSem)
  BY <1>0 DEF Types, IoTypes, Resting
<1>5. /\ aioSem' \in Semaphores(Prepares) /\ more \in Seq({w}) /\ Sane(aioSem')
      /\ aioSem'.units + n = aioSem.units
      /\ Len(aioSem'.waiters) + n = Len(aioSem.waiters) + 1
  BY <1>1, <1>3, <1>4, WaitSem, WaitSane
<1>6. \A q \in Requests : Count(aioSem'.waiters, TasksFor(q)) + Count(more, TasksFor(q))
                              = Count(aioSem.waiters, TasksFor(q)) + Indicator(q = r)
  BY <1>1, <1>3, <1>4, WaitCount DEF Indicator
<1>7. /\ more \in Seq(AnyTask) /\ n \in Nat
      /\ \A K : w \in K => Count(more, K) = n
      /\ \A K : w \notin K => Count(more, K) = 0
  BY <1>0, <1>3, <1>5, MoreTasks
<1>8. /\ tasks' \in Seq(AnyTask)
      /\ Count(tasks', {ExecuteTask})
             = Count(tasks, {ExecuteTask}) + Count(more, {ExecuteTask})
      /\ Count(tasks', IoTasks) + 1 = Count(tasks, IoTasks) + Count(more, IoTasks)
      /\ Count(tasks', Prepares) + Indicator("start" = "prepare")
             = Count(tasks, Prepares) + Count(more, Prepares)
      /\ \A q \in Requests :
             Count(tasks', TasksFor(q)) + Indicator(q = r)
                 = Count(tasks, TasksFor(q)) + Count(more, TasksFor(q))
      /\ \A K \in SUBSET CallTasks :
             Count(tasks', K) = Count(tasks, K) + Count(more, K)
  BY <1>0, <1>1, <1>7, RequestTaskRuns
<1> HIDE DEF r, w, more, n
<1>9. \A K : Count(tasks, K) \in Nat /\ Count(tasks', K) \in Nat /\ Count(more, K) \in Nat
  BY <1>0, <1>7, <1>8, CountNumbers, CountType
<1>10. /\ Count(tasks', {ExecuteTask}) = Count(tasks, {ExecuteTask})
       /\ Count(tasks', IoTasks) + 1 = Count(tasks, IoTasks) + n
       /\ Count(tasks', Prepares) = Count(tasks, Prepares) + n
  <2>1. Count(more, {ExecuteTask}) = 0 /\ Count(more, IoTasks) = n /\ Count(more, Prepares) = n
    BY <1>3, <1>7
  <2>2. Indicator("start" = "prepare") = 0  BY DEF Indicator
  <2> QED BY <1>8, <1>9, <2>1, <2>2
<1>11. \A K \in SUBSET CallTasks : Count(tasks', K) = Count(tasks, K)
  <2> SUFFICES ASSUME NEW K \in SUBSET CallTasks PROVE Count(tasks', K) = Count(tasks, K)
    OBVIOUS
  <2>1. Count(more, K) = 0  BY <1>3, <1>7
  <2>2. Count(tasks', K) = Count(tasks, K) + Count(more, K)  BY <1>8
  <2> QED BY ONLY <1>9, <2>1, <2>2
<1>12. Submitted' = Submitted  BY <1>1 DEF Submitted
<1>13. /\ aioSem'.units \in Nat /\ Len(aioSem'.waiters) \in Nat
       /\ fairSem.units \in Nat /\ aioSem.units \in Nat /\ Len(aioSem.waiters) \in Nat
       /\ Submitted \in Nat
       /\ Count(tasks, IoTasks) \in Nat /\ Count(tasks', IoTasks) \in Nat
       /\ Count(tasks, Prepares) \in Nat /\ Count(tasks', Prepares) \in Nat
  <2>1. aioSem'.units \in Nat /\ Len(aioSem'.waiters) \in Nat
    BY <1>5 DEF Semaphores
  <2>2. /\ Count(tasks, IoTasks) \in Nat /\ Count(tasks', IoTasks) \in Nat
        /\ Count(tasks, Prepares) \in Nat /\ Count(tasks', Prepares) \in Nat
    BY <1>9
  <2> QED BY <1>0, <2>1, <2>2, Numbers
<1>14. Count(tasks', IoTasks) + Len(aioSem'.waiters)
           = Count(tasks, IoTasks) + Len(aioSem.waiters)
  <2>1. n \in Nat /\ Count(tasks', IoTasks) + 1 = Count(tasks, IoTasks) + n
    BY <1>7, <1>10
  <2>2. Len(aioSem'.waiters) + n = Len(aioSem.waiters) + 1  BY <1>5
  <2> DEFINE c1 == Count(tasks, IoTasks)
             c2 == Count(tasks', IoTasks)
             l1 == Len(aioSem.waiters)
             l2 == Len(aioSem'.waiters)
  <2>3. /\ c1 \in Nat /\ c2 \in Nat /\ l1 \in Nat /\ l2 \in Nat /\ n \in Nat
        /\ c2 + 1 = c1 + n /\ l2 + n = l1 + 1
    BY <1>13, <2>1, <2>2
  <2> HIDE DEF c1, c2, l1, l2
  <2>4. c2 + l2 = c1 + l1  BY ONLY <2>3
  <2> QED BY <2>4 DEF c1, c2, l1, l2
<1>15. aioSem'.units + Count(tasks', Prepares) = aioSem.units + Count(tasks, Prepares)
  <2>1. n \in Nat  BY <1>7
  <2>2. /\ aioSem'.units \in Nat /\ aioSem.units \in Nat
        /\ Count(tasks, Prepares) \in Nat /\ Count(tasks', Prepares) \in Nat
    BY <1>13
  <2>3. Count(tasks', Prepares) = Count(tasks, Prepares) + n  BY <1>10
  <2>4. aioSem'.units + n = aioSem.units  BY <1>5, <2>1, <2>2
  <2> QED BY ONLY <2>1, <2>2, <2>3, <2>4
<1>16. ASSUME NEW q \in Requests
       PROVE  OnItsWay(q)' = OnItsWay(q)
  <2>1. Count(tasks', TasksFor(q)) + Indicator(q = r)
            = Count(tasks, TasksFor(q)) + Count(more, TasksFor(q))
    BY <1>8
  <2>2. Count(aioSem'.waiters, TasksFor(q)) + Count(more, TasksFor(q))
            = Count(aioSem.waiters, TasksFor(q)) + Indicator(q = r)
    BY <1>6
  <2>3. /\ Count(aioSem'.waiters, TasksFor(q)) \in Nat
        /\ Count(aioSem.waiters, TasksFor(q)) \in Nat
    BY <1>4, <1>5, CountType DEF Semaphores
  <2>4. Indicator(q = r) \in Nat  BY DEF Indicator
  <2>5. /\ Count(tasks, TasksFor(q)) \in Nat /\ Count(tasks', TasksFor(q)) \in Nat
        /\ Count(more, TasksFor(q)) \in Nat
    BY <1>9
  <2>6. Count(tasks', TasksFor(q)) + Count(aioSem'.waiters, TasksFor(q))
            = Count(tasks, TasksFor(q)) + Count(aioSem.waiters, TasksFor(q))
    BY ONLY <2>1, <2>2, <2>3, <2>4, <2>5
  <2> QED BY <1>1, <2>6 DEF OnItsWay
<1>17. IoTypes'  BY <1>0, <1>1, <1>5 DEF Types, IoTypes
<1>18. Resting'  BY <1>0, <1>1, <1>2, <1>5 DEF Resting, Sane
<1>19. Missed'  BY <1>0, <1>1, <1>2 DEF Missed, AtMostOneMissed
<1>20. /\ fairSem'.units + Count(tasks', IoTasks) + Len(aioSem'.waiters) + Submitted'
              = fairSem.units + Count(tasks, IoTasks) + Len(aioSem.waiters) + Submitted
       /\ aioSem'.units + Count(tasks', Prepares) + Submitted'
              = aioSem.units + Count(tasks, Prepares) + Submitted
       /\ fairSem' = fairSem
  <2>1. fairSem' = fairSem  BY <1>1
  <2>2. fairSem.units + Count(tasks', IoTasks) + Len(aioSem'.waiters) + Submitted
              = fairSem.units + Count(tasks, IoTasks) + Len(aioSem.waiters) + Submitted
    <3>1. fairSem.units + (Count(tasks', IoTasks) + Len(aioSem'.waiters)) + Submitted
              = fairSem.units + (Count(tasks, IoTasks) + Len(aioSem.waiters)) + Submitted
      BY <1>14
    <3> QED BY ONLY <1>13, <3>1
  <2> QED BY <1>12, <1>15, <2>1, <2>2
<1> QED BY <1>1, <1>8, <1>10, <1>11, <1>16, <1>17, <1>18, <1>19, <1>20, IoMove

(* The last task of a request's stage: nothing else becomes runnable.      *)
LEMMA RequestTaskEnds ==
    ASSUME Types, NEW kind \in {"start", "prepare", "finally"}, NextTask(kind),
           tasks' = Tail(tasks)
    PROVE  /\ tasks' \in Seq(AnyTask)
           /\ Count(tasks', {ExecuteTask}) = Count(tasks, {ExecuteTask})
           /\ Count(tasks', IoTasks) + 1 = Count(tasks, IoTasks)
           /\ Count(tasks', Prepares) + Indicator(kind = "prepare") = Count(tasks, Prepares)
           /\ \A q \in Requests :
                  Count(tasks', TasksFor(q)) + Indicator(q = Head(tasks).req)
                      = Count(tasks, TasksFor(q))
           /\ \A K \in SUBSET CallTasks : Count(tasks', K) = Count(tasks, K)
<1> DEFINE none == <<>>
<1>1. Tail(tasks) \in Seq(AnyTask) /\ none \in Seq(AnyTask)
  BY TaskThatRuns, HeadThenTail DEF Types
<1>2. tasks' = Tail(tasks) \o none /\ \A K : Count(none, K) = 0
  BY <1>1, ConcatEmptySeq, CountEmpty
<1> HIDE DEF none
<1>3. \A K : Count(tasks, K) \in Nat  BY CountNumbers
<1>4. \A K : Count(tasks, K) + Count(none, K) = Count(tasks, K)  BY <1>2, <1>3
<1>5. /\ tasks' \in Seq(AnyTask)
      /\ Count(tasks', {ExecuteTask})
             = Count(tasks, {ExecuteTask}) + Count(none, {ExecuteTask})
      /\ Count(tasks', IoTasks) + 1 = Count(tasks, IoTasks) + Count(none, IoTasks)
      /\ Count(tasks', Prepares) + Indicator(kind = "prepare")
             = Count(tasks, Prepares) + Count(none, Prepares)
      /\ \A q \in Requests :
             Count(tasks', TasksFor(q)) + Indicator(q = Head(tasks).req)
                 = Count(tasks, TasksFor(q)) + Count(none, TasksFor(q))
      /\ \A K \in SUBSET CallTasks :
             Count(tasks', K) = Count(tasks, K) + Count(none, K)
  BY <1>1, <1>2, RequestTaskRuns
<1> QED BY <1>4, <1>5

(* The request is put into the batch for io_submit().                      *)
LEMMA PrepareStep ==
    ASSUME IInv, Prepare, UNCHANGED <<poolVars, callVars>>
    PROVE  IInv'
<1> DEFINE r == Head(tasks).req
<1>0. Types /\ Resting /\ Missed  BY DEF IInv
<1>1. /\ NextTask("prepare") /\ pending' = Append(pending, r) /\ tasks' = Tail(tasks)
      /\ phase' \in {"flush", "tasks"}
      /\ UNCHANGED <<arrived, classOf, queues, handles, fairSem, aioSem, inKernel,
                      events, answered, asleep>>
      /\ UNCHANGED <<made, room, toThread, taken, stored, completed, returned,
                      notified, started, thread, idle>>
  BY DEF Prepare, classVars, kernelVars, poolVars, threadVars, callVars
<1>2. r \in Requests /\ phase = "tasks" /\ ~asleep  BY <1>0, <1>1, TaskThatRuns
<1>3. /\ tasks' \in Seq(AnyTask)
      /\ Count(tasks', {ExecuteTask}) = Count(tasks, {ExecuteTask})
      /\ Count(tasks', IoTasks) + 1 = Count(tasks, IoTasks)
      /\ Count(tasks', Prepares) + Indicator("prepare" = "prepare") = Count(tasks, Prepares)
      /\ \A q \in Requests :
             Count(tasks', TasksFor(q)) + Indicator(q = r) = Count(tasks, TasksFor(q))
      /\ \A K \in SUBSET CallTasks : Count(tasks', K) = Count(tasks, K)
  BY <1>0, <1>1, RequestTaskEnds
<1> HIDE DEF r
<1>4. /\ pending' \in Seq(Requests) /\ Len(pending') = Len(pending) + 1
      /\ \A q \in Requests : Count(pending', {q}) = Count(pending, {q}) + Indicator(q = r)
  <2>1. pending \in Seq(Requests)  BY <1>0 DEF Types, IoTypes
  <2>2. ASSUME NEW q \in Requests
        PROVE  Count(pending', {q}) = Count(pending, {q}) + Indicator(r \in {q})
    BY <1>1, <1>2, <2>1, CountAppend
  <2> QED BY <1>1, <1>2, <2>1, <2>2, CountAppend DEF Indicator
<1>5. Submitted' = Submitted + 1 /\ Submitted \in Nat
  BY <1>0, <1>1, <1>4, Numbers DEF Submitted
<1>6. ASSUME NEW q \in Requests
      PROVE  OnItsWay(q)' = OnItsWay(q)
  <2> DEFINE i == Indicator(q = r)
             t1 == Count(tasks, TasksFor(q))
             t2 == Count(tasks', TasksFor(q))
             w == Count(aioSem.waiters, TasksFor(q))
             p1 == Count(pending, {q})
             p2 == Count(pending', {q})
             k == Indicator(q \in inKernel)
             e == Count(events, {q})
             a == Indicator(q \in answered)
  <2>1. t1 = t2 + i /\ p2 = p1 + i  BY <1>3, <1>4
  <2>2. i \in Nat /\ w \in Nat /\ p1 \in Nat /\ k \in Nat /\ e \in Nat /\ a \in Nat
    BY <1>0, RequestNumbers DEF Indicator
  <2>3. t2 \in Nat  BY <1>3, CountType
  <2>4. OnItsWay(q) = t1 + w + p1 + k + e + a  BY DEF OnItsWay
  <2>5. OnItsWay(q)' = t2 + w + p2 + k + e + a  BY <1>1 DEF OnItsWay
  <2> HIDE DEF i, t1, t2, w, p1, p2, k, e, a
  <2> QED BY ONLY <2>1, <2>2, <2>3, <2>4, <2>5
<1>7. IoTypes'  BY <1>0, <1>1, <1>4 DEF Types, IoTypes
<1>8. Resting'  BY <1>0, <1>1, <1>2 DEF Resting, Sane
<1>9. Missed'  BY <1>0, <1>1, <1>2 DEF Missed, AtMostOneMissed
<1>10. /\ fairSem'.units + Count(tasks', IoTasks) + Len(aioSem'.waiters) + Submitted'
              = fairSem.units + Count(tasks, IoTasks) + Len(aioSem.waiters) + Submitted
       /\ aioSem'.units + Count(tasks', Prepares) + Submitted'
              = aioSem.units + Count(tasks, Prepares) + Submitted
  <2> DEFINE f == fairSem.units
             u == aioSem.units
             w == Len(aioSem.waiters)
             i1 == Count(tasks, IoTasks)
             i2 == Count(tasks', IoTasks)
             p1 == Count(tasks, Prepares)
             p2 == Count(tasks', Prepares)
             s == Submitted
  <2>1. i2 + 1 = i1 /\ p2 + 1 = p1  BY <1>3 DEF Indicator
  <2>2. /\ f \in Nat /\ u \in Nat /\ w \in Nat /\ i2 \in Nat /\ p2 \in Nat /\ s \in Nat
    BY <1>0, <1>3, Numbers, CountType
  <2>3. fairSem' = fairSem /\ aioSem' = aioSem /\ Submitted' = s + 1  BY <1>1, <1>5
  <2> HIDE DEF f, u, w, i1, i2, p1, p2, s
  <2>4. f + i2 + w + (s + 1) = f + i1 + w + s /\ u + p2 + (s + 1) = u + p1 + s
    BY ONLY <2>1, <2>2
  <2> QED BY <2>3, <2>4 DEF f, u, w, i1, i2, p1, p2, s
<1> QED BY <1>1, <1>3, <1>6, <1>7, <1>8, <1>9, <1>10, IoMove

(* The unit of a request that is done goes back to the queue.              *)
LEMMA FinallyStep ==
    ASSUME IInv, Finally, UNCHANGED <<poolVars, callVars>>
    PROVE  IInv'
<1> DEFINE r == Head(tasks).req
           more == Granted(fairSem, 1)
           n == Len(more)
<1>0. Types /\ IoParts /\ Resting /\ Missed  BY DEF IInv
<1>1. /\ NextTask("finally") /\ fairSem' = AfterSignal(fairSem, 1)
      /\ tasks' = Tail(tasks) \o more /\ answered' = answered \union {r}
      /\ UNCHANGED <<arrived, classOf, queues, handles, aioSem, pending, inKernel,
                      events, phase, asleep>>
      /\ UNCHANGED <<made, room, toThread, taken, stored, completed, returned,
                      notified, started, thread, idle>>
  BY DEF Finally, classVars, kernelVars, poolVars, threadVars, callVars
<1>2. r \in Requests /\ phase = "tasks" /\ ~asleep  BY <1>0, <1>1, TaskThatRuns
<1>3. r \notin answered
  <2>1. tasks \in Seq(AnyTask) /\ tasks # <<>> /\ Head(tasks) = Task("finally", r)
    BY <1>0, <1>1, TaskThatRuns DEF Types
  <2>2. 1 \in 1 .. Len(tasks) /\ tasks[1] \in TasksFor(r)
    BY <1>2, <2>1, HeadThenTail, TaskFacts
  <2>3. Count(tasks, TasksFor(r)) >= 1  BY <2>1, <2>2, CountPositive
  <2> QED BY <1>0, <1>2, <2>3, OnePlaceOnly DEF IoParts
<1>4. /\ fairSem' \in Semaphores({ExecuteTask}) /\ more \in Seq({ExecuteTask})
      /\ Sane(fairSem') /\ fairSem'.units + n = fairSem.units + 1
      /\ Len(fairSem'.waiters) + n = Len(fairSem.waiters)
  <2>1. fairSem \in Semaphores({ExecuteTask})  BY <1>0 DEF Types, IoTypes
  <2>2. /\ AfterSignal(fairSem, 1) \in Semaphores({ExecuteTask})
        /\ Granted(fairSem, 1) \in Seq({ExecuteTask})
        /\ AfterSignal(fairSem, 1).units + Len(Granted(fairSem, 1)) = fairSem.units + 1
        /\ Len(AfterSignal(fairSem, 1).waiters) + Len(Granted(fairSem, 1))
               = Len(fairSem.waiters)
    BY ONLY <2>1, SignalSem
  <2>3. Sane(AfterSignal(fairSem, 1))  BY ONLY <2>1, SignalSane
  <2> QED BY <1>1, <2>2, <2>3
<1>5. /\ more \in Seq(AnyTask) /\ n \in Nat
      /\ \A K : ExecuteTask \in K => Count(more, K) = n
      /\ \A K : ExecuteTask \notin K => Count(more, K) = 0
  BY <1>0, <1>4, MoreTasks, Kinds
<1>6. /\ tasks' \in Seq(AnyTask)
      /\ Count(tasks', {ExecuteTask})
             = Count(tasks, {ExecuteTask}) + Count(more, {ExecuteTask})
      /\ Count(tasks', IoTasks) + 1 = Count(tasks, IoTasks) + Count(more, IoTasks)
      /\ Count(tasks', Prepares) + Indicator("finally" = "prepare")
             = Count(tasks, Prepares) + Count(more, Prepares)
      /\ \A q \in Requests :
             Count(tasks', TasksFor(q)) + Indicator(q = r)
                 = Count(tasks, TasksFor(q)) + Count(more, TasksFor(q))
      /\ \A K \in SUBSET CallTasks :
             Count(tasks', K) = Count(tasks, K) + Count(more, K)
  BY <1>0, <1>1, <1>5, RequestTaskRuns
<1> HIDE DEF r, more, n
<1>7. \A K : Count(tasks, K) \in Nat /\ Count(tasks', K) \in Nat
  BY <1>0, <1>6, CountNumbers, CountType
<1>8. /\ Count(tasks', {ExecuteTask}) = Count(tasks, {ExecuteTask}) + n
      /\ Count(tasks', IoTasks) + 1 = Count(tasks, IoTasks) + n
      /\ Count(tasks', Prepares) = Count(tasks, Prepares)
  <2>1. Count(more, {ExecuteTask}) = n /\ Count(more, IoTasks) = n /\ Count(more, Prepares) = 0
    BY <1>5, Kinds
  <2>2. Indicator("finally" = "prepare") = 0  BY DEF Indicator
  <2> QED BY <1>6, <1>7, <2>1, <2>2
<1>9. \A K \in SUBSET CallTasks : Count(tasks', K) = Count(tasks, K)
  <2> SUFFICES ASSUME NEW K \in SUBSET CallTasks PROVE Count(tasks', K) = Count(tasks, K)
    OBVIOUS
  <2>1. Count(more, K) = 0  BY <1>5, Kinds
  <2> QED BY <1>6, <1>7, <2>1
<1>10. Submitted' = Submitted  BY <1>1 DEF Submitted
<1>11. ASSUME NEW q \in Requests
       PROVE  OnItsWay(q)' = OnItsWay(q)
  <2> DEFINE i == Indicator(q = r)
             t1 == Count(tasks, TasksFor(q))
             t2 == Count(tasks', TasksFor(q))
             w == Count(aioSem.waiters, TasksFor(q))
             p == Count(pending, {q})
             k == Indicator(q \in inKernel)
             e == Count(events, {q})
             a1 == Indicator(q \in answered)
             a2 == Indicator(q \in answered')
  <2>1. t1 = t2 + i
    <3>1. Count(more, TasksFor(q)) = 0  BY <1>5, Kinds
    <3> QED BY <1>6, <1>7, <3>1
  <2>2. a2 = a1 + i  BY <1>1, <1>3 DEF Indicator
  <2>3. i \in Nat /\ w \in Nat /\ p \in Nat /\ k \in Nat /\ e \in Nat /\ a1 \in Nat
    BY <1>0, RequestNumbers DEF Indicator
  <2>4. t2 \in Nat  BY <1>7
  <2>5. OnItsWay(q) = t1 + w + p + k + e + a1  BY DEF OnItsWay
  <2>6. OnItsWay(q)' = t2 + w + p + k + e + a2  BY <1>1 DEF OnItsWay
  <2> HIDE DEF i, t1, t2, w, p, k, e, a1, a2
  <2> QED BY ONLY <2>1, <2>2, <2>3, <2>4, <2>5, <2>6
<1>12. IoTypes'  BY <1>0, <1>1, <1>2, <1>4 DEF Types, IoTypes
<1>13. Resting'  BY <1>0, <1>1, <1>2, <1>4 DEF Resting, Sane
<1>14. Missed'  BY <1>0, <1>1, <1>2 DEF Missed, AtMostOneMissed
<1>15. /\ Count(tasks', {ExecuteTask}) + Len(fairSem'.waiters)
              = Count(tasks, {ExecuteTask}) + Len(fairSem.waiters)
       /\ fairSem'.units + Count(tasks', IoTasks) + Len(aioSem'.waiters) + Submitted'
              = fairSem.units + Count(tasks, IoTasks) + Len(aioSem.waiters) + Submitted
       /\ aioSem'.units + Count(tasks', Prepares) + Submitted'
              = aioSem.units + Count(tasks, Prepares) + Submitted
  <2> DEFINE f1 == fairSem.units
             f2 == fairSem'.units
             l1 == Len(fairSem.waiters)
             l2 == Len(fairSem'.waiters)
             e1 == Count(tasks, {ExecuteTask})
             e2 == Count(tasks', {ExecuteTask})
             i1 == Count(tasks, IoTasks)
             i2 == Count(tasks', IoTasks)
             w == Len(aioSem.waiters)
             s == Submitted
  <2>1. /\ f2 + n = f1 + 1 /\ l2 + n = l1 /\ e2 = e1 + n /\ i2 + 1 = i1 + n
    BY <1>4, <1>8
  <2>2. /\ f1 \in Nat /\ l1 \in Nat /\ w \in Nat /\ s \in Nat  BY <1>0, Numbers
  <2>3. /\ e1 \in Nat /\ i1 \in Nat /\ i2 \in Nat /\ n \in Nat  BY <1>5, <1>7
  <2>4. f2 \in Nat /\ l2 \in Nat  BY <1>4 DEF Semaphores
  <2>5. aioSem' = aioSem /\ Submitted' = s /\ Count(tasks', Prepares) = Count(tasks, Prepares)
    BY <1>1, <1>8, <1>10
  <2> HIDE DEF f1, f2, l1, l2, e1, e2, i1, i2, w, s
  <2>6. e2 + l2 = e1 + l1 /\ f2 + i2 + w + s = f1 + i1 + w + s
    BY ONLY <2>1, <2>2, <2>3, <2>4
  <2> QED BY <2>5, <2>6 DEF f1, f2, l1, l2, e1, e2, i1, i2, w, s
<1> QED BY <1>1, <1>6, <1>9, <1>11, <1>12, <1>13, <1>14, <1>15, IoMove

(* The answers that are collected become tasks.                            *)
LEMMA FinallysCount ==
    ASSUME NEW rs \in Seq(Requests)
    PROVE  /\ Finallys(rs) \in Seq(RequestTasks) /\ Finallys(rs) \in Seq(AnyTask)
           /\ Count(Finallys(rs), {ExecuteTask}) = 0
           /\ Count(Finallys(rs), IoTasks) = Len(rs)
           /\ Count(Finallys(rs), Prepares) = 0
           /\ \A q \in Requests : Count(Finallys(rs), TasksFor(q)) = Count(rs, {q})
           /\ \A K \in SUBSET CallTasks : Count(Finallys(rs), K) = 0
<1> DEFINE fs == Finallys(rs)
           F == [kind : {"finally"}, req : Requests]
<1>1. Len(rs) \in Nat /\ \A i \in 1 .. Len(rs) : rs[i] \in Requests  OBVIOUS
<1>2. /\ fs \in Seq(F) /\ Len(fs) = Len(rs)
      /\ \A i \in 1 .. Len(rs) : fs[i] = Task("finally", rs[i])
  <2>1. fs = [i \in 1 .. Len(rs) |-> Task("finally", rs[i])]  BY DEF Finallys
  <2>2. \A i \in 1 .. Len(rs) : Task("finally", rs[i]) \in F  BY <1>1 DEF Task
  <2> QED BY <1>1, <2>1, <2>2
<1>3. /\ F \subseteq RequestTasks /\ F \subseteq AnyTask /\ F \subseteq IoTasks
      /\ F \intersect {ExecuteTask} = {} /\ F \intersect Prepares = {}
      /\ F \intersect CallTasks = {}
  BY DEF RequestTasks, IoTasks, AnyTask, ExecuteTask, Task, Prepares, CallTasks
<1> HIDE DEF fs, F
<1>4. fs \in Seq(RequestTasks) /\ fs \in Seq(AnyTask)  BY <1>2, <1>3, SeqMonotonic
<1>5. /\ Count(fs, {ExecuteTask}) = 0 /\ Count(fs, Prepares) = 0
      /\ Count(fs, IoTasks) = Len(rs)
  BY <1>2, <1>3, CountNone, CountAll
<1>6. ASSUME NEW K \in SUBSET CallTasks
      PROVE  Count(fs, K) = 0
  <2>1. F \intersect K = {}  BY <1>3
  <2> QED BY <1>2, <2>1, CountNone
<1>7. ASSUME NEW q \in Requests
      PROVE  Count(fs, TasksFor(q)) = Count(rs, {q})
  <2>1. \A i \in 1 .. Len(rs) : fs[i] \in TasksFor(q) <=> rs[i] \in {q}
    BY <1>1, <1>2, TaskFacts
  <2> QED BY <1>2, <2>1, CountAlike
<1> QED BY <1>4, <1>5, <1>6, <1>7 DEF fs

(* Answers are collected, and their control blocks are free again.         *)
LEMMA PollIoStep ==
    ASSUME IInv, PollIo, UNCHANGED <<poolVars, callVars>>
    PROVE  IInv'
<1> DEFINE n == IF Len(events) <= MaxAio THEN Len(events) ELSE MaxAio
           front == SubSeq(events, 1, n)
           fin == Finallys(front)
           more == Granted(aioSem, n)
           g == Len(more)
<1>0. Types /\ Resting /\ Missed  BY DEF IInv
<1>1. /\ phase = "tasks" /\ ~asleep /\ tasks = <<>> /\ phase' = "aio"
      /\ tasks' = fin \o more /\ aioSem' = AfterSignal(aioSem, n)
      /\ events' = SubSeq(events, n + 1, Len(events))
      /\ UNCHANGED <<arrived, classOf, queues, handles, fairSem, pending, inKernel,
                      answered, asleep>>
      /\ UNCHANGED <<made, room, toThread, taken, stored, completed, returned,
                      notified, started, thread, idle>>
  BY DEF PollIo, classVars, poolVars, threadVars, callVars
<1>2. n \in 0 .. Len(events) /\ n \in Nat  BY <1>0, Numbers, IoAssumption
<1> HIDE DEF n
<1>3. events \in Seq(Requests) /\ aioSem \in Semaphores(Prepares)
  BY <1>0 DEF Types, IoTypes
<1>4. /\ front \in Seq(Requests) /\ Len(front) = n
      /\ events' \in Seq(Requests) /\ Len(events') = Len(events) - n
      /\ \A q \in Requests : Count(events, {q}) = Count(front, {q}) + Count(events', {q})
  BY <1>1, <1>2, <1>3, CountSplit
<1> HIDE DEF front
<1>5. /\ fin \in Seq(AnyTask)
      /\ Count(fin, {ExecuteTask}) = 0 /\ Count(fin, IoTasks) = n /\ Count(fin, Prepares) = 0
      /\ \A q \in Requests : Count(fin, TasksFor(q)) = Count(front, {q})
      /\ \A K \in SUBSET CallTasks : Count(fin, K) = 0
  BY <1>4, FinallysCount
<1>6. /\ aioSem' \in Semaphores(Prepares) /\ more \in Seq(Prepares) /\ g \in Nat
      /\ Sane(aioSem') /\ aioSem'.units + g = aioSem.units + n
      /\ Len(aioSem'.waiters) + g = Len(aioSem.waiters)
  <2>1. /\ aioSem' \in Semaphores(Prepares) /\ more \in Seq(Prepares)
        /\ aioSem'.units + g = aioSem.units + n
        /\ Len(aioSem'.waiters) + g = Len(aioSem.waiters)
    BY <1>1, <1>2, <1>3, SignalSem
  <2>2. Sane(aioSem')  BY <1>1, <1>2, <1>3, SignalSane
  <2>3. g \in Nat  BY <2>1
  <2> QED BY <2>1, <2>2, <2>3
<1>7. \A q \in Requests : Count(aioSem'.waiters, TasksFor(q)) + Count(more, TasksFor(q))
                              = Count(aioSem.waiters, TasksFor(q))
  BY <1>1, <1>2, <1>3, SignalCount
<1>8. /\ more \in Seq(AnyTask)
      /\ Count(more, {ExecuteTask}) = 0 /\ Count(more, IoTasks) = g /\ Count(more, Prepares) = g
      /\ \A K \in SUBSET CallTasks : Count(more, K) = 0
  <2>1. Prepares \subseteq AnyTask /\ Prepares \subseteq IoTasks
        /\ Prepares \intersect {ExecuteTask} = {} /\ Prepares \intersect CallTasks = {}
    BY Kinds
  <2>2. more \in Seq(AnyTask)  BY <1>6, <2>1, SeqMonotonic
  <2>3. Count(more, {ExecuteTask}) = 0  BY <1>6, <2>1, CountNone
  <2>4. Count(more, IoTasks) = g  BY <1>6, <2>1, CountAll
  <2>5. Count(more, Prepares) = g  BY <1>6, CountAll
  <2>6. ASSUME NEW K \in SUBSET CallTasks PROVE Count(more, K) = 0
    <3>1. Prepares \intersect K = {}  BY <2>1
    <3> QED BY <1>6, <3>1, CountNone
  <2> QED BY <2>2, <2>3, <2>4, <2>5, <2>6
<1> HIDE DEF fin, more, g
<1>9. /\ tasks' \in Seq(AnyTask)
      /\ \A K : Count(tasks', K) = Count(fin, K) + Count(more, K) /\ Count(tasks, K) = 0
  <2>1. \A K : Count(tasks, K) = 0  BY <1>1, CountEmpty
  <2> QED BY <1>1, <1>5, <1>8, <2>1, CountConcat
<1>10. /\ Count(tasks', {ExecuteTask}) = 0 /\ Count(tasks', IoTasks) = n + g
       /\ Count(tasks', Prepares) = g
       /\ \A K \in SUBSET CallTasks : Count(tasks', K) = Count(tasks, K)
  BY <1>5, <1>6, <1>8, <1>9
<1>11. Submitted' + n = Submitted /\ Submitted \in Nat /\ Submitted' \in Nat
  <2> DEFINE p == Len(pending)
             k == Cardinality(inKernel)
             e1 == Len(events)
             e2 == Len(events')
  <2>1. p \in Nat /\ k \in Nat /\ e1 \in Nat  BY <1>0, Numbers
  <2>2. e2 = e1 - n /\ n \in 0 .. e1  BY <1>2, <1>4
  <2>3. Submitted = p + k + e1 /\ Submitted' = p + k + e2  BY <1>1 DEF Submitted
  <2> HIDE DEF p, k, e1, e2
  <2> QED BY ONLY <2>1, <2>2, <2>3
<1>12. ASSUME NEW q \in Requests
       PROVE  OnItsWay(q)' = OnItsWay(q)
  <2> DEFINE t1 == Count(tasks, TasksFor(q))
             t2 == Count(tasks', TasksFor(q))
             w1 == Count(aioSem.waiters, TasksFor(q))
             w2 == Count(aioSem'.waiters, TasksFor(q))
             p == Count(pending, {q})
             k == Indicator(q \in inKernel)
             e1 == Count(events, {q})
             e2 == Count(events', {q})
             a == Indicator(q \in answered)
             f == Count(front, {q})
             m == Count(more, TasksFor(q))
  <2>1. t1 = 0 /\ t2 = f + m /\ w2 + m = w1 /\ e1 = f + e2
    BY <1>4, <1>5, <1>7, <1>9
  <2>2. p \in Nat /\ k \in Nat /\ a \in Nat  BY <1>0, RequestNumbers
  <2>3. e2 \in Nat /\ f \in Nat /\ m \in Nat  BY <1>4, <1>8, CountType
  <2>4. w2 \in Nat  BY <1>6, CountType DEF Semaphores
  <2>5. OnItsWay(q) = t1 + w1 + p + k + e1 + a  BY DEF OnItsWay
  <2>6. OnItsWay(q)' = t2 + w2 + p + k + e2 + a  BY <1>1 DEF OnItsWay
  <2> HIDE DEF t1, t2, w1, w2, p, k, e1, e2, a, f, m
  <2> QED BY ONLY <2>1, <2>2, <2>3, <2>4, <2>5, <2>6
<1>13. IoTypes'  BY <1>0, <1>1, <1>4, <1>6 DEF Types, IoTypes
<1>14. Resting'  BY <1>0, <1>1, <1>6 DEF Resting, Sane
<1>15. Missed'  BY <1>0, <1>1 DEF Missed, AtMostOneMissed
<1>16. /\ Count(tasks', {ExecuteTask}) + Len(fairSem'.waiters)
              = Count(tasks, {ExecuteTask}) + Len(fairSem.waiters)
       /\ fairSem'.units + Count(tasks', IoTasks) + Len(aioSem'.waiters) + Submitted'
              = fairSem.units + Count(tasks, IoTasks) + Len(aioSem.waiters) + Submitted
       /\ aioSem'.units + Count(tasks', Prepares) + Submitted'
              = aioSem.units + Count(tasks, Prepares) + Submitted
  <2> DEFINE f == fairSem.units
             l1 == Len(aioSem.waiters)
             l2 == Len(aioSem'.waiters)
             u1 == aioSem.units
             u2 == aioSem'.units
             i1 == Count(tasks, IoTasks)
             i2 == Count(tasks', IoTasks)
             p1 == Count(tasks, Prepares)
             p2 == Count(tasks', Prepares)
             s1 == Submitted
             s2 == Submitted'
  <2>1. /\ i1 = 0 /\ p1 = 0 /\ i2 = n + g /\ p2 = g
        /\ u2 + g = u1 + n /\ l2 + g = l1 /\ s2 + n = s1
    BY <1>6, <1>9, <1>10, <1>11
  <2>2. /\ f \in Nat /\ l1 \in Nat /\ u1 \in Nat  BY <1>0, Numbers
  <2>3. /\ s1 \in Nat /\ s2 \in Nat /\ n \in Nat /\ g \in Nat  BY <1>2, <1>6, <1>11
  <2>4. u2 \in Nat /\ l2 \in Nat  BY <1>6 DEF Semaphores
  <2>5. fairSem' = fairSem /\ Count(tasks, {ExecuteTask}) = 0 /\ Count(tasks', {ExecuteTask}) = 0
    BY <1>1, <1>9, <1>10
  <2> HIDE DEF f, l1, l2, u1, u2, i1, i2, p1, p2, s1, s2
  <2>6. f + i2 + l2 + s2 = f + i1 + l1 + s1 /\ u2 + p2 + s2 = u1 + p1 + s1
    BY ONLY <2>1, <2>2, <2>3, <2>4
  <2> QED BY <2>5, <2>6 DEF f, l1, l2, u1, u2, i1, i2, p1, p2, s1, s2
<1> QED BY <1>1, <1>9, <1>10, <1>12, <1>13, <1>14, <1>15, <1>16, IoMove

(* The steps that only change what the reactor does next.                  *)
LEMMA PhaseStep ==
    ASSUME IInv, PollAio \/ SubmitAgain \/ FlushDone, UNCHANGED <<poolVars, callVars>>
    PROVE  IInv'
<1>0. Types /\ Resting /\ Missed /\ IoParts /\ CallParts  BY DEF IInv
<1>1. /\ phase \in {"aio", "flush", "pollflush"} /\ phase' \in {"tasks", "polled", "pollflush"}
      /\ UNCHANGED <<arrived, classOf, queues, handles, fairSem, aioSem, tasks, pending,
                      inKernel, events, answered, asleep>>
      /\ UNCHANGED <<made, room, toThread, taken, stored, completed, returned,
                      notified, started, thread, idle>>
  BY DEF PollAio, SubmitAgain, FlushDone, Flushing, AfterFlush, classVars, kernelVars,
         poolVars, threadVars, callVars
<1>2. Types'  BY <1>0, <1>1 DEF Types, IoTypes, CallTypes
<1>3. IoParts' /\ CallParts'  BY <1>0, <1>1, IoFrame, CallFrame
<1>4. Resting'  BY <1>0, <1>1 DEF Resting, Sane
<1>5. Missed'  BY <1>0, <1>1 DEF Resting, Missed, AtMostOneMissed
<1> QED BY <1>2, <1>3, <1>4, <1>5 DEF IInv

(* io_submit() takes a part of the batch, or all of it.                    *)
LEMMA SubmitBatchStep ==
    ASSUME IInv, NEW n \in Requests, SubmitBatch(n), UNCHANGED <<poolVars, callVars>>
    PROVE  IInv'
<1> DEFINE front == SubSeq(pending, 1, n)
           sent == {pending[i] : i \in 1 .. n}
<1>0. Types /\ IoParts /\ Resting /\ Missed  BY DEF IInv
<1>1. /\ phase \in {"flush", "pollflush"} /\ n \in 1 .. Len(pending)
      /\ inKernel' = inKernel \union sent
      /\ pending' = SubSeq(pending, n + 1, Len(pending))
      /\ UNCHANGED <<arrived, classOf, queues, handles, fairSem, aioSem, tasks,
                      events, answered, phase, asleep>>
      /\ UNCHANGED <<made, room, toThread, taken, stored, completed, returned,
                      notified, started, thread, idle>>
  BY DEF SubmitBatch, Flushing, classVars, poolVars, threadVars, callVars
<1>2. pending \in Seq(Requests) /\ n \in 0 .. Len(pending) /\ n \in Nat
  BY <1>0, <1>1 DEF Types, IoTypes
<1>3. /\ front \in Seq(Requests) /\ Len(front) = n
      /\ \A i \in 1 .. n : front[i] = pending[i]
      /\ pending' \in Seq(Requests) /\ Len(pending') = Len(pending) - n
      /\ \A q \in Requests : Count(pending, {q}) = Count(front, {q}) + Count(pending', {q})
  BY <1>1, <1>2, CountSplit
<1>4. sent = {front[i] : i \in 1 .. Len(front)}  BY <1>3
<1> HIDE DEF front, sent
<1>5. \A q \in Requests : /\ Count(front, {q}) \in Nat /\ Count(pending', {q}) \in Nat
                          /\ Count(front, {q}) <= 1
                          /\ Count(front, {q}) >= 1 => q \notin inKernel
  <2> SUFFICES ASSUME NEW q \in Requests
               PROVE  /\ Count(front, {q}) \in Nat /\ Count(pending', {q}) \in Nat
                      /\ Count(front, {q}) <= 1
                      /\ Count(front, {q}) >= 1 => q \notin inKernel
    OBVIOUS
  <2>1. Count(front, {q}) \in Nat /\ Count(pending', {q}) \in Nat
    BY <1>3, CountType
  <2>2. Count(pending, {q}) = Count(front, {q}) + Count(pending', {q})  BY <1>3
  <2>3. /\ Count(pending, {q}) <= 1
        /\ Count(pending, {q}) >= 1 => q \notin inKernel
    BY <1>0, OnePlaceOnly DEF IoParts
  <2> QED BY <2>1, <2>2, <2>3
<1>6. /\ IsFiniteSet(sent) /\ Cardinality(sent) = n
  BY <1>3, <1>4, <1>5, CountDistinct
<1>7. \A q \in Requests : /\ q \in sent => Count(front, {q}) = 1 /\ q \notin inKernel
                          /\ q \notin sent => Count(front, {q}) = 0
  <2> SUFFICES ASSUME NEW q \in Requests
               PROVE  /\ q \in sent => Count(front, {q}) = 1 /\ q \notin inKernel
                      /\ q \notin sent => Count(front, {q}) = 0
    OBVIOUS
  <2>1. ASSUME q \in sent PROVE Count(front, {q}) = 1 /\ q \notin inKernel
    <3>1. PICK i \in 1 .. Len(front) : front[i] \in {q}  BY <1>4, <2>1
    <3>2. Count(front, {q}) >= 1  BY <1>3, <3>1, CountPositive
    <3> QED BY <1>5, <3>2
  <2>2. ASSUME q \notin sent PROVE Count(front, {q}) = 0
    <3>1. ~\E i \in 1 .. Len(front) : front[i] \in {q}  BY <1>4, <2>2
    <3>2. ~(Count(front, {q}) > 0)  BY <1>3, <3>1, CountWitness
    <3> QED BY <1>5, <3>2
  <2> QED BY <2>1, <2>2
<1>8. sent \subseteq Requests /\ sent \intersect inKernel = {}
  <2>1. sent \subseteq Requests  BY <1>3, <1>4
  <2> QED BY <1>7, <2>1
<1>9. Submitted' = Submitted
  <2> DEFINE p1 == Len(pending)
             p2 == Len(pending')
             k1 == Cardinality(inKernel)
             k2 == Cardinality(inKernel')
             e == Len(events)
  <2>1. k2 = k1 + n
    <3>1. IsFiniteSet(inKernel) /\ inKernel \intersect sent = {}
      BY <1>0, <1>8, Numbers
    <3>2. Cardinality(inKernel \union sent) = Cardinality(inKernel) + Cardinality(sent)
      BY <1>6, <3>1, DisjointUnion
    <3> QED BY <1>1, <1>6, <3>2
  <2>2. p2 = p1 - n  BY <1>3
  <2>3. p1 \in Nat /\ k1 \in Nat /\ e \in Nat  BY <1>0, Numbers
  <2>4. Submitted = p1 + k1 + e /\ Submitted' = p2 + k2 + e  BY <1>1 DEF Submitted
  <2> HIDE DEF p1, p2, k1, k2, e
  <2> QED BY ONLY <1>2, <2>1, <2>2, <2>3, <2>4
<1>10. ASSUME NEW q \in Requests
       PROVE  OnItsWay(q)' = OnItsWay(q)
  <2> DEFINE t == Count(tasks, TasksFor(q))
             w == Count(aioSem.waiters, TasksFor(q))
             p1 == Count(pending, {q})
             p2 == Count(pending', {q})
             k1 == Indicator(q \in inKernel)
             k2 == Indicator(q \in inKernel')
             e == Count(events, {q})
             a == Indicator(q \in answered)
             f == Count(front, {q})
  <2>1. p1 = f + p2 /\ f \in Nat /\ p2 \in Nat  BY <1>3, <1>5
  <2>2. k2 = k1 + f  BY <1>1, <1>7 DEF Indicator
  <2>3. t \in Nat /\ w \in Nat /\ k1 \in Nat /\ e \in Nat /\ a \in Nat
    BY <1>0, RequestNumbers
  <2>4. OnItsWay(q) = t + w + p1 + k1 + e + a  BY DEF OnItsWay
  <2>5. OnItsWay(q)' = t + w + p2 + k2 + e + a  BY <1>1 DEF OnItsWay
  <2> HIDE DEF t, w, p1, p2, k1, k2, e, a, f
  <2> QED BY ONLY <2>1, <2>2, <2>3, <2>4, <2>5
<1>11. IoTypes'  BY <1>0, <1>1, <1>3, <1>8 DEF Types, IoTypes
<1>12. Resting'  BY <1>0, <1>1 DEF Resting, Sane
<1>13. Missed'  BY <1>0, <1>1 DEF Resting, Missed, AtMostOneMissed
<1>14. tasks' \in Seq(AnyTask) /\ tasks' = tasks  BY <1>0, <1>1 DEF Types
<1> QED BY <1>1, <1>9, <1>10, <1>11, <1>12, <1>13, <1>14, IoMove

(* io_submit() refuses the first request of the batch.                     *)
LEMMA SubmitBadStep ==
    ASSUME IInv, SubmitBad, UNCHANGED <<poolVars, callVars>>
    PROVE  IInv'
<1> DEFINE r == Head(pending)
           fin == Task("finally", r)
           one == <<fin>>
           more == Granted(aioSem, 1)
           g == Len(more)
<1>0. Types /\ Resting /\ Missed  BY DEF IInv
<1>1. /\ phase \in {"flush", "pollflush"} /\ pending # <<>>
      /\ tasks' = Append(tasks, fin) \o more
      /\ aioSem' = AfterSignal(aioSem, 1) /\ pending' = Tail(pending)
      /\ UNCHANGED <<arrived, classOf, queues, handles, fairSem, inKernel,
                      events, answered, phase, asleep>>
      /\ UNCHANGED <<made, room, toThread, taken, stored, completed, returned,
                      notified, started, thread, idle>>
  BY DEF SubmitBad, Flushing, classVars, poolVars, threadVars, callVars
<1>2. /\ pending \in Seq(Requests) /\ aioSem \in Semaphores(Prepares)
      /\ tasks \in Seq(AnyTask)
  BY <1>0 DEF Types, IoTypes
<1>3. /\ r \in Requests /\ pending' \in Seq(Requests)
      /\ Len(pending') = Len(pending) - 1
      /\ \A q \in Requests : Count(pending, {q}) = Indicator(q = r) + Count(pending', {q})
  <2>1. ASSUME NEW q \in Requests
        PROVE  Count(pending, {q}) = Indicator(r \in {q}) + Count(pending', {q})
    BY <1>1, <1>2, CountHead
  <2> QED BY <1>1, <1>2, <2>1, HeadThenTail DEF Indicator
<1>4. /\ fin \in IoTasks /\ fin \in AnyTask /\ fin # ExecuteTask
      /\ fin \notin Prepares /\ fin \notin CallTasks
      /\ \A q \in Requests : fin \in TasksFor(q) <=> q = r
  BY <1>3, TaskFacts
<1>5. /\ aioSem' \in Semaphores(Prepares) /\ more \in Seq(Prepares) /\ g \in Nat
      /\ Sane(aioSem') /\ aioSem'.units + g = aioSem.units + 1
      /\ Len(aioSem'.waiters) + g = Len(aioSem.waiters)
  <2>1. /\ aioSem' \in Semaphores(Prepares) /\ more \in Seq(Prepares)
        /\ aioSem'.units + g = aioSem.units + 1
        /\ Len(aioSem'.waiters) + g = Len(aioSem.waiters)
    BY <1>1, <1>2, SignalSem
  <2>2. Sane(aioSem')  BY <1>1, <1>2, SignalSane
  <2>3. g \in Nat  BY <2>1
  <2> QED BY <2>1, <2>2, <2>3
<1>6. \A q \in Requests : Count(aioSem'.waiters, TasksFor(q)) + Count(more, TasksFor(q))
                              = Count(aioSem.waiters, TasksFor(q))
  BY <1>1, <1>2, SignalCount
<1>7. Prepares \subseteq AnyTask /\ Prepares \subseteq IoTasks
      /\ Prepares \intersect {ExecuteTask} = {} /\ Prepares \intersect CallTasks = {}
  BY Kinds
<1>8. /\ more \in Seq(AnyTask)
      /\ Count(more, {ExecuteTask}) = 0 /\ Count(more, IoTasks) = g /\ Count(more, Prepares) = g
      /\ \A K \in SUBSET CallTasks : Count(more, K) = 0
  <2>1. more \in Seq(AnyTask)  BY <1>5, <1>7, SeqMonotonic
  <2>2. Count(more, {ExecuteTask}) = 0  BY <1>5, <1>7, CountNone
  <2>3. Count(more, IoTasks) = g /\ Count(more, Prepares) = g
    BY <1>5, <1>7, CountAll
  <2>4. ASSUME NEW K \in SUBSET CallTasks PROVE Count(more, K) = 0
    <3>1. Prepares \intersect K = {}  BY <1>7
    <3> QED BY <1>5, <3>1, CountNone
  <2> QED BY <2>1, <2>2, <2>3, <2>4
<1> HIDE DEF more, g, r, fin
<1>9. /\ tasks' \in Seq(AnyTask)
      /\ \A K : /\ Count(tasks, K) \in Nat /\ Count(more, K) \in Nat
                 /\ Count(tasks', K) = Count(tasks, K) + Indicator(fin \in K) + Count(more, K)
  <2> DEFINE longer == Append(tasks, fin)
  <2>1. /\ longer \in Seq(AnyTask)
        /\ \A K : Count(longer, K) = Count(tasks, K) + Indicator(fin \in K)
    BY <1>2, <1>4, CountAppend
  <2> HIDE DEF longer
  <2>2. /\ longer \o more \in Seq(AnyTask)
        /\ \A K : Count(longer \o more, K) = Count(longer, K) + Count(more, K)
    BY <1>8, <2>1, CountConcat
  <2>3. \A K : Count(tasks, K) \in Nat /\ Count(more, K) \in Nat
    BY <1>2, <1>8, CountType
  <2>4. tasks' = longer \o more  BY <1>1 DEF longer
  <2> QED BY <2>1, <2>2, <2>3, <2>4
<1>10. /\ Count(tasks', {ExecuteTask}) = Count(tasks, {ExecuteTask})
       /\ Count(tasks', IoTasks) = Count(tasks, IoTasks) + 1 + g
       /\ Count(tasks', Prepares) = Count(tasks, Prepares) + g
  <2>1. /\ Indicator(fin \in {ExecuteTask}) = 0 /\ Indicator(fin \in IoTasks) = 1
        /\ Indicator(fin \in Prepares) = 0
    BY <1>4 DEF Indicator
  <2>2. /\ Count(tasks, {ExecuteTask}) \in Nat /\ Count(tasks, Prepares) \in Nat
    BY <1>9
  <2>3. Count(tasks', {ExecuteTask}) = Count(tasks, {ExecuteTask}) + 0 + 0
    BY <1>8, <1>9, <2>1
  <2>4. Count(tasks', Prepares) = Count(tasks, Prepares) + 0 + g
    BY <1>8, <1>9, <2>1
  <2>5. Count(tasks', IoTasks) = Count(tasks, IoTasks) + 1 + g  BY <1>8, <1>9, <2>1
  <2> QED BY <1>5, <2>2, <2>3, <2>4, <2>5
<1>11. \A K \in SUBSET CallTasks : Count(tasks', K) = Count(tasks, K)
  <2> SUFFICES ASSUME NEW K \in SUBSET CallTasks PROVE Count(tasks', K) = Count(tasks, K)
    OBVIOUS
  <2>1. Count(more, K) = 0 /\ Indicator(fin \in K) = 0  BY <1>4, <1>8 DEF Indicator
  <2>2. Count(tasks, K) \in Nat /\ Count(tasks', K) = Count(tasks, K) + 0 + 0
    BY <1>9, <2>1
  <2> QED BY <2>2
<1>12. Submitted' + 1 = Submitted /\ Submitted \in Nat /\ Submitted' \in Nat
  <2> DEFINE p1 == Len(pending)
             p2 == Len(pending')
             k == Cardinality(inKernel)
             e == Len(events)
  <2>1. p1 \in Nat /\ p2 \in Nat /\ k \in Nat /\ e \in Nat /\ p2 = p1 - 1
    BY <1>0, <1>3, Numbers
  <2>2. Submitted = p1 + k + e /\ Submitted' = p2 + k + e  BY <1>1 DEF Submitted
  <2> HIDE DEF p1, p2, k, e
  <2> QED BY ONLY <2>1, <2>2
<1>13. ASSUME NEW q \in Requests
       PROVE  OnItsWay(q)' = OnItsWay(q)
  <2> DEFINE t1 == Count(tasks, TasksFor(q))
             t2 == Count(tasks', TasksFor(q))
             w1 == Count(aioSem.waiters, TasksFor(q))
             w2 == Count(aioSem'.waiters, TasksFor(q))
             p1 == Count(pending, {q})
             p2 == Count(pending', {q})
             k == Indicator(q \in inKernel)
             e == Count(events, {q})
             a == Indicator(q \in answered)
             i == Indicator(q = r)
             m == Count(more, TasksFor(q))
  <2>1. t2 = t1 + i + m /\ w2 + m = w1 /\ p1 = i + p2
    <3>1. Indicator(fin \in TasksFor(q)) = i  BY <1>4 DEF Indicator
    <3> QED BY <1>3, <1>6, <1>9, <3>1
  <2>2. t1 \in Nat /\ k \in Nat /\ e \in Nat /\ a \in Nat /\ i \in Nat
    BY <1>0, RequestNumbers DEF Indicator
  <2>3. m \in Nat /\ p2 \in Nat  BY <1>3, <1>8, CountType
  <2>4. w2 \in Nat  BY <1>5, CountType DEF Semaphores
  <2>5. OnItsWay(q) = t1 + w1 + p1 + k + e + a  BY DEF OnItsWay
  <2>6. OnItsWay(q)' = t2 + w2 + p2 + k + e + a  BY <1>1 DEF OnItsWay
  <2> HIDE DEF t1, t2, w1, w2, p1, p2, k, e, a, i, m
  <2> QED BY ONLY <2>1, <2>2, <2>3, <2>4, <2>5, <2>6
<1>14. IoTypes'  BY <1>0, <1>1, <1>3, <1>5 DEF Types, IoTypes
<1>15. Resting'  BY <1>0, <1>1, <1>5 DEF Resting, Sane
<1>16. Missed'  BY <1>0, <1>1 DEF Resting, Missed, AtMostOneMissed
<1>17. /\ Count(tasks', {ExecuteTask}) + Len(fairSem'.waiters)
              = Count(tasks, {ExecuteTask}) + Len(fairSem.waiters)
       /\ fairSem'.units + Count(tasks', IoTasks) + Len(aioSem'.waiters) + Submitted'
              = fairSem.units + Count(tasks, IoTasks) + Len(aioSem.waiters) + Submitted
       /\ aioSem'.units + Count(tasks', Prepares) + Submitted'
              = aioSem.units + Count(tasks, Prepares) + Submitted
  <2> DEFINE f == fairSem.units
             l1 == Len(aioSem.waiters)
             l2 == Len(aioSem'.waiters)
             u1 == aioSem.units
             u2 == aioSem'.units
             i1 == Count(tasks, IoTasks)
             i2 == Count(tasks', IoTasks)
             p1 == Count(tasks, Prepares)
             p2 == Count(tasks', Prepares)
             s1 == Submitted
             s2 == Submitted'
  <2>1. /\ i2 = i1 + 1 + g /\ p2 = p1 + g
        /\ u2 + g = u1 + 1 /\ l2 + g = l1 /\ s2 + 1 = s1
    BY <1>5, <1>10, <1>12
  <2>2. /\ f \in Nat /\ l1 \in Nat /\ u1 \in Nat  BY <1>0, Numbers
  <2>3. /\ s1 \in Nat /\ s2 \in Nat /\ g \in Nat /\ i1 \in Nat /\ p1 \in Nat
    BY <1>5, <1>9, <1>12
  <2>4. u2 \in Nat /\ l2 \in Nat  BY <1>5 DEF Semaphores
  <2>5. fairSem' = fairSem /\ Count(tasks', {ExecuteTask}) = Count(tasks, {ExecuteTask})
    BY <1>1, <1>10
  <2> HIDE DEF f, l1, l2, u1, u2, i1, i2, p1, p2, s1, s2
  <2>6. f + i2 + l2 + s2 = f + i1 + l1 + s1 /\ u2 + p2 + s2 = u1 + p1 + s1
    BY ONLY <2>1, <2>2, <2>3, <2>4
  <2> QED BY <2>5, <2>6 DEF f, l1, l2, u1, u2, i1, i2, p1, p2, s1, s2
<1> QED BY <1>1, <1>9, <1>11, <1>13, <1>14, <1>15, <1>16, <1>17, IoMove

(* The kernel completes a request.                                         *)
LEMMA KernelStep ==
    ASSUME IInv, NEW r \in Requests, KernelComplete(r), UNCHANGED <<poolVars, callVars>>
    PROVE  IInv'
<1>0. Types /\ Resting /\ Missed  BY DEF IInv
<1>1. /\ r \in inKernel /\ inKernel' = inKernel \ {r} /\ events' = Append(events, r)
      /\ UNCHANGED <<arrived, classOf, queues, handles, fairSem, aioSem, tasks, pending,
                      answered, phase, asleep>>
      /\ UNCHANGED <<made, room, toThread, taken, stored, completed, returned,
                      notified, started, thread, idle>>
  BY DEF KernelComplete, classVars, poolVars, threadVars, callVars
<1>2. /\ events' \in Seq(Requests) /\ Len(events') = Len(events) + 1
      /\ \A q \in Requests : Count(events', {q}) = Count(events, {q}) + Indicator(q = r)
  <2>1. events \in Seq(Requests)  BY <1>0 DEF Types, IoTypes
  <2>2. ASSUME NEW q \in Requests
        PROVE  Count(events', {q}) = Count(events, {q}) + Indicator(r \in {q})
    BY <1>1, <2>1, CountAppend
  <2> QED BY <1>1, <2>1, <2>2, CountAppend DEF Indicator
<1>3. Submitted' = Submitted
  <2> DEFINE p == Len(pending)
             k1 == Cardinality(inKernel)
             k2 == Cardinality(inKernel')
             e1 == Len(events)
             e2 == Len(events')
  <2>1. k2 = k1 - 1 /\ k1 \in Nat  BY <1>0, <1>1, Numbers, FS_RemoveElement
  <2>2. p \in Nat /\ e1 \in Nat /\ e2 = e1 + 1  BY <1>0, <1>2, Numbers
  <2>3. Submitted = p + k1 + e1 /\ Submitted' = p + k2 + e2  BY <1>1 DEF Submitted
  <2> HIDE DEF p, k1, k2, e1, e2
  <2> QED BY ONLY <2>1, <2>2, <2>3
<1>4. ASSUME NEW q \in Requests
      PROVE  OnItsWay(q)' = OnItsWay(q)
  <2> DEFINE t == Count(tasks, TasksFor(q))
             w == Count(aioSem.waiters, TasksFor(q))
             p == Count(pending, {q})
             k1 == Indicator(q \in inKernel)
             k2 == Indicator(q \in inKernel')
             e1 == Count(events, {q})
             e2 == Count(events', {q})
             a == Indicator(q \in answered)
             i == Indicator(q = r)
  <2>1. k1 = k2 + i /\ k2 \in Nat /\ i \in Nat  BY <1>1 DEF Indicator
  <2>2. t \in Nat /\ w \in Nat /\ p \in Nat /\ e1 \in Nat /\ a \in Nat
    BY <1>0, RequestNumbers
  <2>3. e2 = e1 + i  BY <1>2
  <2>4. OnItsWay(q) = t + w + p + k1 + e1 + a  BY DEF OnItsWay
  <2>5. OnItsWay(q)' = t + w + p + k2 + e2 + a  BY <1>1 DEF OnItsWay
  <2> HIDE DEF t, w, p, k1, k2, e1, e2, a, i
  <2> QED BY ONLY <2>1, <2>2, <2>3, <2>4, <2>5
<1>5. IoTypes'  BY <1>0, <1>1, <1>2 DEF Types, IoTypes
<1>6. Resting'  BY <1>0, <1>1 DEF Resting, Sane
<1>7. Missed'  BY <1>0, <1>1 DEF Missed, AtMostOneMissed, WillNotify
<1>8. tasks' \in Seq(AnyTask) /\ tasks' = tasks  BY <1>0, <1>1 DEF Types
<1> QED BY <1>1, <1>3, <1>4, <1>5, <1>6, <1>7, <1>8, IoMove

-----------------------------------------------------------------------------
(* The calls.                                                              *)
LEMMA CallNumbers ==
    ASSUME Types, NEW c \in Calls
    PROVE  /\ Count(room.waiters, TasksOfCall(c)) \in Nat
           /\ Count(tasks, TasksOfCall(c)) \in Nat
           /\ Count(toThread, {c}) \in Nat /\ Count(taken, {c}) \in Nat
           /\ Count(stored, {c}) \in Nat /\ Count(completed, {c}) \in Nat
           /\ Indicator(c \in returned) \in Nat
           /\ InThread(c) \in Nat
<1>1. /\ Count(room.waiters, TasksOfCall(c)) \in Nat
      /\ Count(tasks, TasksOfCall(c)) \in Nat
      /\ Count(toThread, {c}) \in Nat /\ Count(taken, {c}) \in Nat
      /\ Count(stored, {c}) \in Nat /\ Count(completed, {c}) \in Nat
      /\ Indicator(c \in returned) \in Nat
  BY CountNumbers DEF Indicator
<1>2. InThread(c) \in Nat  BY <1>1 DEF InThread
<1> QED BY <1>1, <1>2

(* The invariant, from what a step of a call has to keep.                  *)
LEMMA CallMove ==
    ASSUME IInv, CallTypes', tasks' \in Seq(AnyTask), Resting', Missed',
           UNCHANGED <<arrived, classOf, queues, handles, fairSem, aioSem,
                       pending, inKernel, events, answered>>,
           \A K \in SUBSET IoTasks : Count(tasks', K) = Count(tasks, K),
           room'.units + Count(tasks', Pushes) + WithThread'
               = room.units + Count(tasks, Pushes) + WithThread,
           CallsCounted'
    PROVE  IInv'
<1>0. Types /\ IoParts /\ CallParts  BY DEF IInv
<1>1. Types'  BY <1>0 DEF Types, IoTypes
<1>2. IoParts'  BY <1>0, IoFrame
<1>3. CallParts'  BY <1>0 DEF CallParts, RoomUnits
<1> QED BY <1>1, <1>2, <1>3 DEF IInv

(* thread_pool::submit().                                                  *)
LEMMA SubmitStep ==
    ASSUME IInv, workload \in Workloads, NEW op, NEW o, NEW fd, Submit(op, o, fd)
    PROVE  IInv'
<1> DEFINE c == made + 1
           w == Task("push", c)
           more == ReadyAfterWait(room, w)
           n == Len(more)
<1>0. Types /\ CallParts /\ Resting /\ Missed  BY DEF IInv
<1>1. /\ phase = "tasks" /\ ~asleep /\ made < workload.calls /\ made' = c
      /\ room' = AfterWait(room, w) /\ tasks' = tasks \o more
      /\ UNCHANGED <<arrived, classOf, queues, handles, fairSem, aioSem, pending,
                      inKernel, events, answered, phase, asleep>>
      /\ UNCHANGED <<toThread, taken, stored, completed, returned,
                      notified, started, thread, idle>>
  BY DEF Submit, FiberRuns, classVars, kernelVars, threadVars
<1>2. c \in Calls /\ c \in 0 .. MaxCalls /\ made \in Nat
  <2>1. workload.calls \in 0 .. MaxCalls  BY CallsAssumption DEF Workloads, Load
  <2>2. made \in Nat /\ MaxCalls \in Nat  BY <1>0, Numbers, CallsAssumption
  <2> QED BY <1>1, <2>1, <2>2 DEF Calls
<1>3. /\ w \in Pushes /\ w \in AnyTask /\ w \notin IoTasks
      /\ \A d \in Calls : w \in TasksOfCall(d) <=> d = c
  BY <1>2, CallTaskFacts
<1>4. room \in Semaphores(Pushes) /\ tasks \in Seq(AnyTask)
  BY <1>0 DEF Types, CallTypes
<1>5. /\ room' \in Semaphores(Pushes) /\ more \in Seq({w})
      /\ room'.units + n = room.units
  BY <1>1, <1>3, <1>4, WaitSem
<1>6. \A d \in Calls : Count(room'.waiters, TasksOfCall(d)) + Count(more, TasksOfCall(d))
                           = Count(room.waiters, TasksOfCall(d)) + Indicator(d = c)
  BY <1>1, <1>3, <1>4, WaitCount DEF Indicator
<1>7. /\ more \in Seq(AnyTask) /\ n \in Nat
      /\ \A K : w \in K => Count(more, K) = n
      /\ \A K : w \notin K => Count(more, K) = 0
  BY <1>0, <1>3, <1>5, MoreTasks
<1>8. /\ tasks' \in Seq(AnyTask)
      /\ \A K : /\ Count(tasks, K) \in Nat /\ Count(more, K) \in Nat
                 /\ Count(tasks', K) = Count(tasks, K) + Count(more, K)
  BY <1>0, <1>1, <1>7, TasksCome
<1> HIDE DEF c, w, more, n
<1>9. \A K \in SUBSET IoTasks : Count(tasks', K) = Count(tasks, K)
  <2> SUFFICES ASSUME NEW K \in SUBSET IoTasks PROVE Count(tasks', K) = Count(tasks, K)
    OBVIOUS
  <2>1. Count(more, K) = 0  BY <1>3, <1>7
  <2>2. Count(tasks, K) \in Nat /\ Count(tasks', K) = Count(tasks, K) + 0
    BY <1>8, <2>1
  <2> QED BY <2>2
<1>10. room'.units + Count(tasks', Pushes) + WithThread'
           = room.units + Count(tasks, Pushes) + WithThread
  <2> DEFINE u1 == room.units
             u2 == room'.units
             p1 == Count(tasks, Pushes)
             p2 == Count(tasks', Pushes)
  <2>1. p2 = p1 + n /\ u2 + n = u1 /\ n \in Nat /\ p1 \in Nat
    BY <1>3, <1>5, <1>7, <1>8
  <2>2. u2 \in Nat /\ u1 \in Nat  BY <1>4, <1>5 DEF Semaphores
  <2>3. WithThread' = WithThread  BY <1>1 DEF WithThread
  <2> HIDE DEF u1, u2, p1, p2
  <2>4. u2 + p2 = u1 + p1  BY ONLY <2>1, <2>2
  <2> QED BY <2>3, <2>4 DEF u1, u2, p1, p2
<1>11. CallsCounted'
  <2> SUFFICES ASSUME NEW d \in Calls
               PROVE  CallCount(d)' = Indicator(d <= made')
    BY DEF CallsCounted
  <2> DEFINE w1 == Count(room.waiters, TasksOfCall(d))
             w2 == Count(room'.waiters, TasksOfCall(d))
             t1 == Count(tasks, TasksOfCall(d))
             t2 == Count(tasks', TasksOfCall(d))
             m == Count(more, TasksOfCall(d))
             i == Indicator(d = c)
             h == InThread(d)
             b == Indicator(d \in returned)
  <2>1. w2 + m = w1 + i /\ t2 = t1 + m  BY <1>6, <1>8
  <2>2. t1 \in Nat /\ w1 \in Nat /\ h \in Nat /\ b \in Nat /\ i \in Nat
    BY <1>0, CallNumbers DEF Indicator
  <2>3. m \in Nat  BY <1>8
  <2>4. w2 \in Nat  BY <1>5, CountType DEF Semaphores
  <2>5. CallCount(d) = w1 + t1 + h + b  BY DEF CallCount
  <2>6. CallCount(d)' = w2 + t2 + h + b  BY <1>1 DEF CallCount, InThread
  <2>7. CallCount(d) = Indicator(d <= made)  BY <1>0 DEF CallParts, CallsCounted
  <2>8. Indicator(d <= made') = Indicator(d <= made) + i
    BY <1>1, <1>2 DEF Indicator, Calls, c
  <2> HIDE DEF w1, w2, t1, t2, m, i, h, b
  <2>9. w2 + t2 + h + b = (w1 + t1 + h + b) + i  BY ONLY <2>1, <2>2, <2>3, <2>4
  <2> QED BY <2>5, <2>6, <2>7, <2>8, <2>9
<1>12. CallTypes'  BY <1>0, <1>1, <1>2, <1>5 DEF Types, CallTypes
<1>13. Resting'  BY <1>0, <1>1 DEF Resting, Sane
<1>14. Missed'  BY <1>0, <1>1 DEF Missed, AtMostOneMissed
<1> QED BY <1>1, <1>8, <1>9, <1>10, <1>11, <1>12, <1>13, <1>14, CallMove

(* A task of a call runs.                                                  *)
LEMMA CallTaskEnds ==
    ASSUME Types, NEW kind \in {"push", "return"}, NextTask(kind), tasks' = Tail(tasks)
    PROVE  /\ Head(tasks).req \in Calls /\ tasks' \in Seq(AnyTask)
           /\ Head(tasks) \in TasksOfCall(Head(tasks).req)
           /\ Count(tasks', Pushes) + Indicator(kind = "push") = Count(tasks, Pushes)
           /\ \A d \in Calls :
                  Count(tasks', TasksOfCall(d)) + Indicator(d = Head(tasks).req)
                      = Count(tasks, TasksOfCall(d))
           /\ \A K \in SUBSET IoTasks : Count(tasks', K) = Count(tasks, K)
<1> DEFINE h == Head(tasks)
           c == Head(tasks).req
<1>1. tasks # <<>> /\ c \in Calls /\ h = Task(kind, c)  BY TaskThatRuns
<1>2. /\ h \notin IoTasks
      /\ h \in Pushes <=> kind = "push"
      /\ \A d \in Calls : h \in TasksOfCall(d) <=> d = c
  BY <1>1, CallTaskFacts
<1>3. /\ tasks' \in Seq(AnyTask)
      /\ \A K : /\ Count(tasks, K) \in Nat /\ Count(tasks', K) \in Nat
                 /\ Count(tasks', K) + Indicator(h \in K) = Count(tasks, K)
  BY <1>1, TaskEnds
<1> HIDE DEF h, c
<1>4. Count(tasks', Pushes) + Indicator(kind = "push") = Count(tasks, Pushes)
  <2>1. Indicator(kind = "push") = Indicator(h \in Pushes)  BY <1>2 DEF Indicator
  <2> QED BY <1>3, <2>1
<1>5. ASSUME NEW d \in Calls
      PROVE  Count(tasks', TasksOfCall(d)) + Indicator(d = c) = Count(tasks, TasksOfCall(d))
  <2>1. Indicator(d = c) = Indicator(h \in TasksOfCall(d))  BY <1>2 DEF Indicator
  <2> QED BY <1>3, <2>1
<1>6. ASSUME NEW K \in SUBSET IoTasks
      PROVE  Count(tasks', K) = Count(tasks, K)
  <2>1. Indicator(h \in K) = 0  BY <1>2 DEF Indicator
  <2>2. Count(tasks', K) \in Nat /\ Count(tasks', K) + 0 = Count(tasks, K)
    BY <1>3, <2>1
  <2> QED BY <2>2
<1> QED BY <1>1, <1>2, <1>3, <1>4, <1>5, <1>6 DEF h, c

(* A call with its room goes into the ring of the thread.                  *)
LEMMA PushCallStep ==
    ASSUME IInv, PushCall
    PROVE  IInv'
<1> DEFINE c == Head(tasks).req
<1>0. Types /\ CallParts /\ Resting /\ Missed  BY DEF IInv
<1>1. /\ NextTask("push") /\ toThread' = Append(toThread, c) /\ tasks' = Tail(tasks)
      /\ UNCHANGED <<arrived, classOf, queues, handles, fairSem, aioSem, pending,
                      inKernel, events, answered, phase, asleep>>
      /\ UNCHANGED <<made, room, taken, stored, completed, returned, notified, thread, idle>>
  BY DEF PushCall, Push, classVars, kernelVars, callVars
<1>2. phase = "tasks" /\ ~asleep  BY <1>1 DEF NextTask
<1>3. /\ c \in Calls /\ tasks' \in Seq(AnyTask)
      /\ Count(tasks', Pushes) + Indicator("push" = "push") = Count(tasks, Pushes)
      /\ \A d \in Calls : Count(tasks', TasksOfCall(d)) + Indicator(d = c)
                              = Count(tasks, TasksOfCall(d))
      /\ \A K \in SUBSET IoTasks : Count(tasks', K) = Count(tasks, K)
  BY <1>0, <1>1, CallTaskEnds
<1> HIDE DEF c
<1>4. /\ toThread' \in Seq(Calls) /\ Len(toThread') = Len(toThread) + 1
      /\ \A d \in Calls : Count(toThread', {d}) = Count(toThread, {d}) + Indicator(d = c)
  <2>1. toThread \in Seq(Calls)  BY <1>0 DEF Types, CallTypes
  <2>2. ASSUME NEW d \in Calls
        PROVE  Count(toThread', {d}) = Count(toThread, {d}) + Indicator(c \in {d})
    BY <1>1, <1>3, <2>1, CountAppend
  <2> QED BY <1>1, <1>3, <2>1, <2>2, CountAppend DEF Indicator
<1>5. room'.units + Count(tasks', Pushes) + WithThread'
          = room.units + Count(tasks, Pushes) + WithThread
  <2> DEFINE u == room.units
             p1 == Count(tasks, Pushes)
             p2 == Count(tasks', Pushes)
             l1 == Len(toThread)
             l2 == Len(toThread')
             a == Len(taken)
             s == Len(stored)
             e == Len(completed)
  <2>1. p2 + 1 = p1 /\ l2 = l1 + 1  BY <1>3, <1>4 DEF Indicator
  <2>2. u \in Nat /\ l1 \in Nat /\ a \in Nat /\ s \in Nat /\ e \in Nat
    BY <1>0, Numbers
  <2>3. p2 \in Nat  BY <1>3, CountType
  <2>4. /\ WithThread = l1 + a + s + e /\ WithThread' = l2 + a + s + e
        /\ room'.units = u
    BY <1>1 DEF WithThread
  <2> HIDE DEF u, p1, p2, l1, l2, a, s, e
  <2>5. u + p2 + (l2 + a + s + e) = u + p1 + (l1 + a + s + e)
    BY ONLY <2>1, <2>2, <2>3
  <2> QED BY <2>4, <2>5 DEF u, p1, p2
<1>6. CallsCounted'
  <2> SUFFICES ASSUME NEW d \in Calls PROVE CallCount(d)' = CallCount(d)
    BY <1>0, <1>1 DEF CallParts, CallsCounted
  <2> DEFINE w == Count(room.waiters, TasksOfCall(d))
             t1 == Count(tasks, TasksOfCall(d))
             t2 == Count(tasks', TasksOfCall(d))
             i == Indicator(d = c)
             l1 == Count(toThread, {d})
             l2 == Count(toThread', {d})
             a == Count(taken, {d})
             s == Count(stored, {d})
             e == Count(completed, {d})
             b == Indicator(d \in returned)
  <2>1. t2 + i = t1 /\ l2 = l1 + i  BY <1>3, <1>4
  <2>2. /\ w \in Nat /\ l1 \in Nat /\ a \in Nat /\ s \in Nat /\ e \in Nat
        /\ b \in Nat /\ i \in Nat
    BY <1>0, CallNumbers DEF Indicator
  <2>3. t2 \in Nat  BY <1>3, CountType
  <2>4. CallCount(d) = w + t1 + (l1 + a + s + e) + b  BY DEF CallCount, InThread
  <2>5. CallCount(d)' = w + t2 + (l2 + a + s + e) + b
    BY <1>1 DEF CallCount, InThread
  <2> HIDE DEF w, t1, t2, i, l1, l2, a, s, e, b
  <2> QED BY ONLY <2>1, <2>2, <2>3, <2>4, <2>5
<1>7. CallTypes'  BY <1>0, <1>1, <1>4 DEF Types, CallTypes
<1>8. Resting'  BY <1>0, <1>1 DEF Resting, Sane
<1>9. Missed'  BY <1>0, <1>1, <1>2 DEF Missed, AtMostOneMissed
<1> QED BY <1>1, <1>3, <1>5, <1>6, <1>7, <1>8, <1>9, CallMove

(* The promise of a call gets its answer.                                  *)
LEMMA ReturnStep ==
    ASSUME IInv, Return
    PROVE  IInv'
<1> DEFINE c == Head(tasks).req
<1>0. Types /\ CallParts /\ Resting /\ Missed  BY DEF IInv
<1>1. /\ NextTask("return") /\ returned' = returned \union {c} /\ tasks' = Tail(tasks)
      /\ UNCHANGED <<arrived, classOf, queues, handles, fairSem, aioSem, pending,
                      inKernel, events, answered, phase, asleep>>
      /\ UNCHANGED <<made, room, toThread, taken, stored, completed, notified,
                      started, thread, idle>>
  BY DEF Return, classVars, kernelVars, poolVars, threadVars
<1>2. phase = "tasks" /\ ~asleep /\ tasks # <<>>  BY <1>1 DEF NextTask
<1>3. /\ c \in Calls /\ tasks' \in Seq(AnyTask) /\ Head(tasks) \in TasksOfCall(c)
      /\ Count(tasks', Pushes) + Indicator("return" = "push") = Count(tasks, Pushes)
      /\ \A d \in Calls : Count(tasks', TasksOfCall(d)) + Indicator(d = c)
                              = Count(tasks, TasksOfCall(d))
      /\ \A K \in SUBSET IoTasks : Count(tasks', K) = Count(tasks, K)
  BY <1>0, <1>1, CallTaskEnds
<1> HIDE DEF c
<1>4. c \notin returned
  <2> DEFINE w == Count(room.waiters, TasksOfCall(c))
             t == Count(tasks, TasksOfCall(c))
             h == InThread(c)
             b == Indicator(c \in returned)
  <2>1. t >= 1
    <3>1. tasks \in Seq(AnyTask)  BY <1>0 DEF Types
    <3>2. 1 \in 1 .. Len(tasks) /\ tasks[1] \in TasksOfCall(c)
      BY <1>2, <1>3, <3>1, HeadThenTail
    <3> QED BY <3>1, <3>2, CountPositive
  <2>2. w \in Nat /\ t \in Nat /\ h \in Nat /\ b \in Nat  BY <1>0, <1>3, CallNumbers
  <2>3. w + t + h + b \in {0, 1}
    BY <1>0, <1>3 DEF CallParts, CallsCounted, CallCount, Indicator
  <2> HIDE DEF w, t, h, b
  <2>4. b = 0  BY ONLY <2>1, <2>2, <2>3
  <2> QED BY <2>4 DEF b, Indicator
<1>5. room'.units + Count(tasks', Pushes) + WithThread'
          = room.units + Count(tasks, Pushes) + WithThread
  <2>1. Count(tasks', Pushes) = Count(tasks, Pushes)
    <3>1. Count(tasks', Pushes) \in Nat /\ Indicator("return" = "push") = 0
      BY <1>3, CountType DEF Indicator
    <3> QED BY <1>3, <3>1
  <2> QED BY <1>1, <2>1 DEF WithThread
<1>6. CallsCounted'
  <2> SUFFICES ASSUME NEW d \in Calls PROVE CallCount(d)' = CallCount(d)
    BY <1>0, <1>1 DEF CallParts, CallsCounted
  <2> DEFINE w == Count(room.waiters, TasksOfCall(d))
             t1 == Count(tasks, TasksOfCall(d))
             t2 == Count(tasks', TasksOfCall(d))
             i == Indicator(d = c)
             h == InThread(d)
             b1 == Indicator(d \in returned)
             b2 == Indicator(d \in returned')
  <2>1. t2 + i = t1 /\ b2 = b1 + i  BY <1>1, <1>3, <1>4 DEF Indicator
  <2>2. /\ w \in Nat /\ h \in Nat /\ b1 \in Nat /\ i \in Nat
    BY <1>0, CallNumbers DEF Indicator
  <2>3. t2 \in Nat  BY <1>3, CountType
  <2>4. CallCount(d) = w + t1 + h + b1  BY DEF CallCount
  <2>5. CallCount(d)' = w + t2 + h + b2  BY <1>1 DEF CallCount, InThread
  <2> HIDE DEF w, t1, t2, i, h, b1, b2
  <2> QED BY ONLY <2>1, <2>2, <2>3, <2>4, <2>5
<1>7. CallTypes'  BY <1>0, <1>1, <1>3 DEF Types, CallTypes
<1>8. Resting'  BY <1>0, <1>1 DEF Resting, Sane
<1>9. Missed'  BY <1>0, <1>1, <1>2 DEF Missed, AtMostOneMissed
<1> QED BY <1>1, <1>3, <1>5, <1>6, <1>7, <1>8, <1>9, CallMove

(* The calls that come back become tasks.                                  *)
LEMMA ReturnsCount ==
    ASSUME Types
    PROVE  /\ Returns \in Seq(AnyTask)
           /\ Count(Returns, Pushes) = 0
           /\ \A c \in Calls : Count(Returns, TasksOfCall(c)) = Count(completed, {c})
           /\ \A K \in SUBSET IoTasks : Count(Returns, K) = 0
<1> DEFINE R == [kind : {"return"}, req : Calls]
           rs == Returns
<1>1. completed \in Seq(Calls)  BY DEF Types, CallTypes
<1>2. Len(completed) \in Nat /\ \A i \in 1 .. Len(completed) : completed[i] \in Calls
  BY <1>1
<1>3. /\ rs \in Seq(R) /\ Len(rs) = Len(completed)
      /\ \A i \in 1 .. Len(completed) : rs[i] = Task("return", completed[i])
  <2>1. rs = [i \in 1 .. Len(completed) |-> Task("return", completed[i])]
    BY DEF Returns
  <2>2. \A i \in 1 .. Len(completed) : Task("return", completed[i]) \in R
    BY <1>2 DEF Task
  <2> QED BY <1>2, <2>1, <2>2
<1>4. R \subseteq AnyTask /\ R \intersect Pushes = {} /\ R \intersect IoTasks = {}
  BY DEF AnyTask, CallTasks, IoTasks, RequestTasks, ExecuteTask, Task, Pushes
<1> HIDE DEF R, rs
<1>5. rs \in Seq(AnyTask)  BY <1>3, <1>4, SeqMonotonic
<1>6. Count(rs, Pushes) = 0  BY <1>3, <1>4, CountNone
<1>7. ASSUME NEW c \in Calls
      PROVE  Count(rs, TasksOfCall(c)) = Count(completed, {c})
  <2>1. \A i \in 1 .. Len(completed) : rs[i] \in TasksOfCall(c) <=> completed[i] \in {c}
    BY <1>2, <1>3, CallTaskFacts
  <2> QED BY <1>3, <2>1, CountAlike
<1>8. ASSUME NEW K \in SUBSET IoTasks
      PROVE  Count(rs, K) = 0
  <2>1. R \intersect K = {}  BY <1>4
  <2> QED BY <1>3, <2>1, CountNone
<1> QED BY <1>5, <1>6, <1>7, <1>8 DEF rs

(* complete(), in whichever of the three places it is called.              *)
LEMMA CompleteStep ==
    ASSUME IInv, CompleteCalls, ~asleep', Resting',
           UNCHANGED <<arrived, classOf, queues, handles, fairSem, aioSem, pending,
                       inKernel, events, answered>>,
           UNCHANGED <<made, returned>>
    PROVE  IInv'
<1> DEFINE n == Len(completed)
           rs == Returns
           more == Granted(room, n)
           g == Len(more)
<1>0. Types /\ CallParts /\ Missed  BY DEF IInv
<1>1. /\ completed' = <<>> /\ room' = AfterSignal(room, n)
      /\ tasks' = (tasks \o rs) \o more
      /\ UNCHANGED <<toThread, thread, taken, stored>>
  BY DEF CompleteCalls, Complete, PushesGranted
<1>2. /\ room \in Semaphores(Pushes) /\ n \in Nat /\ completed \in Seq(Calls)
      /\ tasks \in Seq(AnyTask)
  BY <1>0, Numbers DEF Types, CallTypes
<1>3. /\ room' \in Semaphores(Pushes) /\ more \in Seq(Pushes) /\ g \in Nat
      /\ room'.units + g = room.units + n
  BY <1>1, <1>2, SignalSem
<1>4. \A c \in Calls : Count(room'.waiters, TasksOfCall(c)) + Count(more, TasksOfCall(c))
                           = Count(room.waiters, TasksOfCall(c))
  BY <1>1, <1>2, SignalCount
<1>5. /\ more \in Seq(AnyTask) /\ Count(more, Pushes) = g
      /\ \A K \in SUBSET IoTasks : Count(more, K) = 0
  <2>1. Pushes \subseteq AnyTask /\ Pushes \intersect IoTasks = {}  BY Kinds
  <2>2. more \in Seq(AnyTask)  BY <1>3, <2>1, SeqMonotonic
  <2>3. Count(more, Pushes) = g  BY <1>3, CountAll
  <2>4. ASSUME NEW K \in SUBSET IoTasks PROVE Count(more, K) = 0
    <3>1. Pushes \intersect K = {}  BY <2>1
    <3> QED BY <1>3, <3>1, CountNone
  <2> QED BY <2>2, <2>3, <2>4
<1>6. /\ rs \in Seq(AnyTask) /\ Count(rs, Pushes) = 0
      /\ \A c \in Calls : Count(rs, TasksOfCall(c)) = Count(completed, {c})
      /\ \A K \in SUBSET IoTasks : Count(rs, K) = 0
  BY <1>0, ReturnsCount
<1> HIDE DEF rs, more, g, n
<1>7. /\ tasks' \in Seq(AnyTask)
      /\ \A K : /\ Count(tasks, K) \in Nat /\ Count(rs, K) \in Nat /\ Count(more, K) \in Nat
                 /\ Count(tasks', K) = Count(tasks, K) + Count(rs, K) + Count(more, K)
  <2> DEFINE longer == tasks \o rs
  <2>1. /\ longer \in Seq(AnyTask)
        /\ \A K : Count(longer, K) = Count(tasks, K) + Count(rs, K)
    BY <1>2, <1>6, CountConcat
  <2>2. tasks' = longer \o more  BY <1>1
  <2> HIDE DEF longer
  <2>3. /\ longer \o more \in Seq(AnyTask)
        /\ \A K : Count(longer \o more, K) = Count(longer, K) + Count(more, K)
    BY <1>5, <2>1, CountConcat
  <2>4. \A K : Count(tasks, K) \in Nat /\ Count(rs, K) \in Nat /\ Count(more, K) \in Nat
    BY <1>2, <1>5, <1>6, CountType
  <2> QED BY <2>1, <2>2, <2>3, <2>4
<1>8. \A K \in SUBSET IoTasks : Count(tasks', K) = Count(tasks, K)
  <2> SUFFICES ASSUME NEW K \in SUBSET IoTasks PROVE Count(tasks', K) = Count(tasks, K)
    OBVIOUS
  <2>1. Count(rs, K) = 0 /\ Count(more, K) = 0  BY <1>5, <1>6
  <2>2. Count(tasks, K) \in Nat /\ Count(tasks', K) = Count(tasks, K) + 0 + 0
    BY <1>7, <2>1
  <2> QED BY <2>2
<1>9. room'.units + Count(tasks', Pushes) + WithThread'
          = room.units + Count(tasks, Pushes) + WithThread
  <2> DEFINE u1 == room.units
             u2 == room'.units
             p1 == Count(tasks, Pushes)
             p2 == Count(tasks', Pushes)
             l == Len(toThread)
             a == Len(taken)
             s == Len(stored)
  <2>1. p2 = p1 + 0 + g /\ u2 + g = u1 + n  BY <1>3, <1>5, <1>6, <1>7
  <2>2. u1 \in Nat /\ l \in Nat /\ a \in Nat /\ s \in Nat  BY <1>0, Numbers
  <2>3. p1 \in Nat /\ g \in Nat /\ n \in Nat  BY <1>2, <1>3, <1>7
  <2>4. u2 \in Nat  BY <1>3 DEF Semaphores
  <2>5. WithThread = l + a + s + n /\ WithThread' = l + a + s + 0
    BY <1>1 DEF WithThread, n
  <2> HIDE DEF u1, u2, p1, p2, l, a, s
  <2>6. u2 + p2 + (l + a + s + 0) = u1 + p1 + (l + a + s + n)
    BY ONLY <2>1, <2>2, <2>3, <2>4
  <2> QED BY <2>5, <2>6 DEF u1, u2, p1, p2
<1>10. CallsCounted'
  <2> SUFFICES ASSUME NEW d \in Calls PROVE CallCount(d)' = CallCount(d)
    BY <1>0 DEF CallParts, CallsCounted
  <2> DEFINE w1 == Count(room.waiters, TasksOfCall(d))
             w2 == Count(room'.waiters, TasksOfCall(d))
             t1 == Count(tasks, TasksOfCall(d))
             t2 == Count(tasks', TasksOfCall(d))
             m == Count(more, TasksOfCall(d))
             l == Count(toThread, {d})
             a == Count(taken, {d})
             s == Count(stored, {d})
             e1 == Count(completed, {d})
             e2 == Count(completed', {d})
             b == Indicator(d \in returned)
  <2>1. w2 + m = w1 /\ t2 = t1 + e1 + m  BY <1>4, <1>6, <1>7
  <2>2. /\ t1 \in Nat /\ l \in Nat /\ a \in Nat /\ s \in Nat /\ e1 \in Nat /\ b \in Nat
    BY <1>0, CallNumbers
  <2>3. m \in Nat /\ e2 = 0  BY <1>1, <1>7, CountEmpty
  <2>4. w2 \in Nat  BY <1>3, CountType DEF Semaphores
  <2>5. CallCount(d) = w1 + t1 + (l + a + s + e1) + b  BY DEF CallCount, InThread
  <2>6. CallCount(d)' = w2 + t2 + (l + a + s + e2) + b
    BY <1>1 DEF CallCount, InThread
  <2> HIDE DEF w1, w2, t1, t2, m, l, a, s, e1, e2, b
  <2> QED BY ONLY <2>1, <2>2, <2>3, <2>4, <2>5, <2>6
<1>11. CallTypes'
  <2>1. <<>> \in Seq(Calls)  OBVIOUS
  <2> QED BY <1>0, <1>1, <1>3, <2>1 DEF Types, CallTypes
<1>12. Missed'  BY <1>0, <1>1 DEF Missed, AtMostOneMissed
<1> QED BY <1>7, <1>8, <1>9, <1>10, <1>11, <1>12, CallMove

(* The signal handler runs.                                                *)
LEMMA HandleSignalStep ==
    ASSUME IInv, HandleSignal
    PROVE  IInv'
<1>1. /\ phase = "aio" /\ CompleteCalls
      /\ UNCHANGED <<arrived, classOf, queues, handles, fairSem, aioSem, pending,
                      inKernel, events, answered, phase, asleep, idle, made, returned>>
  BY DEF HandleSignal, classVars, kernelVars, callVars
<1>2. Resting /\ ~asleep  BY <1>1 DEF IInv, Resting
<1>3. Resting'  BY <1>1, <1>2 DEF Resting, Sane
<1> QED BY <1>1, <1>2, <1>3, CompleteStep

(* The calls that the thread has completed are collected.                  *)
LEMMA PollCallsStep ==
    ASSUME IInv, PollCalls
    PROVE  IInv'
<1>1. /\ phase = "polled" /\ CompleteCalls
      /\ phase' \in {"tasks", "idle"}
      /\ phase' = "idle" => tasks' = <<>>
      /\ UNCHANGED <<arrived, classOf, queues, handles, fairSem, aioSem, pending,
                      inKernel, events, answered, asleep, idle, made, returned>>
  BY DEF PollCalls, classVars, kernelVars, callVars
<1>2. Resting /\ ~asleep  BY <1>1 DEF IInv, Resting
<1>3. Resting'  BY <1>1, <1>2 DEF Resting, Sane
<1> QED BY <1>1, <1>2, <1>3, CompleteStep

(* The reactor has raised its flag and finds a call that is done.          *)
LEMMA RacedStep ==
    ASSUME IInv, Raced
    PROVE  IInv'
<1>1. /\ phase = "entering" /\ CompleteCalls /\ phase' = "tasks"
      /\ UNCHANGED <<arrived, classOf, queues, handles, fairSem, aioSem, pending,
                      inKernel, events, answered, asleep, made, returned>>
  BY DEF Raced, classVars, kernelVars, callVars
<1>2. Resting /\ ~asleep  BY <1>1 DEF IInv, Resting
<1>3. Resting'  BY <1>1, <1>2 DEF Resting, Sane
<1> QED BY <1>1, <1>2, <1>3, CompleteStep

(* The steps that decide about the sleep.                                  *)
LEMMA SleepStep ==
    ASSUME IInv, EnterSleep \/ Block \/ Awaken
    PROVE  IInv'
<1>0. Types /\ IoParts /\ CallParts /\ Resting /\ Missed  BY DEF IInv
<1>1. /\ UNCHANGED <<arrived, classOf, queues, handles, fairSem, aioSem, tasks, pending,
                      inKernel, events, answered>>
      /\ UNCHANGED <<made, room, toThread, taken, stored, completed, returned,
                      notified, started, thread>>
  BY DEF EnterSleep, Block, Awaken, classVars, kernelVars, poolVars, threadVars, callVars
<1>2. Types'  BY <1>0, <1>1 DEF Types, IoTypes, CallTypes
<1>3. IoParts' /\ CallParts'  BY <1>0, <1>1, IoFrame, CallFrame
<1>4. Sane(fairSem') /\ Sane(aioSem')  BY <1>0, <1>1 DEF Resting
<1>5. CASE EnterSleep
  <2>1. /\ phase = "idle" /\ asleep' = asleep /\ phase' \in {"entering", "tasks"}
        /\ phase' = "entering" => idle' /\ aioSem.units = MaxAio
    BY <1>5 DEF EnterSleep, MaySleep
  <2>2. ~asleep /\ tasks = <<>>  BY <1>0, <2>1 DEF Resting
  <2>3. Resting'  BY <1>1, <1>4, <2>1, <2>2 DEF Resting
  <2>4. Missed'  BY <1>0, <1>1, <2>1, <2>2 DEF Missed, AtMostOneMissed
  <2> QED BY <1>2, <1>3, <2>3, <2>4 DEF IInv
<1>6. CASE Block
  <2>1. /\ phase = "entering" /\ completed = <<>> /\ asleep' /\ phase' = "tasks"
        /\ idle' = idle
    BY <1>6 DEF Block, poolVars
  <2>2. tasks = <<>> /\ aioSem.units = MaxAio /\ idle  BY <1>0, <2>1 DEF Resting
  <2>3. Resting'  BY <1>1, <1>4, <2>1, <2>2 DEF Resting
  <2>4. Missed'
    <3>1. stored \in Seq(Calls) /\ completed \o stored = stored
      BY <1>0, <2>1, ConcatEmptySeq DEF Types, CallTypes
    <3>2. completed' \o stored' = stored /\ stored' = stored  BY <1>1, <3>1
    <3>3. Len(completed' \o stored') <= 1 /\ Len(stored') <= 1
      BY <1>0, <3>2 DEF Missed
    <3> QED BY <1>0, <1>1, <3>3 DEF Missed, AtMostOneMissed
  <2> QED BY <1>2, <1>3, <2>3, <2>4 DEF IInv
<1>7. CASE Awaken
  <2>1. ~asleep' /\ phase' = "tasks"  BY <1>7 DEF Awaken
  <2>2. Resting'  BY <1>1, <1>4, <2>1 DEF Resting
  <2>3. Missed'  BY <1>0, <1>1, <2>1 DEF Missed, AtMostOneMissed
  <2> QED BY <1>2, <1>3, <2>2, <2>3 DEF IInv
<1> QED BY <1>5, <1>6, <1>7

(* The invariant, from what a step of the syscall thread has to keep.      *)
LEMMA ThreadMove ==
    ASSUME IInv, Missed',
           toThread' \in Seq(Calls), taken' \in Seq(Calls),
           stored' \in Seq(Calls), completed' \in Seq(Calls),
           UNCHANGED <<ioVars, room, idle, callVars>>,
           WithThread' = WithThread, \A c \in Calls : InThread(c)' = InThread(c)
    PROVE  IInv'
<1>0. Types /\ CallParts /\ Resting  BY DEF IInv
<1>1. UNCHANGED <<arrived, classOf, queues, handles, fairSem, aioSem, tasks, pending,
                  inKernel, events, answered, phase, asleep, room, idle, made, returned>>
  BY DEF ioVars, callVars
<1>2. CallTypes' /\ tasks' \in Seq(AnyTask)  BY <1>0, <1>1 DEF Types, CallTypes
<1>3. Resting'  BY <1>0, <1>1 DEF Resting, Sane
<1>4. CallsCounted'  BY <1>0, <1>1 DEF CallParts, CallsCounted, CallCount
<1> QED BY <1>1, <1>2, <1>3, <1>4, CallMove

(* What a system call of the thread makes visible.                         *)
LEMMA DrainedFacts ==
    ASSUME Types, completed' = completed \o stored
    PROVE  /\ completed' \in Seq(Calls) /\ Len(completed') = Len(completed) + Len(stored)
           /\ \A c \in Calls :
                  Count(completed', {c}) = Count(completed, {c}) + Count(stored, {c})
<1>1. completed \in Seq(Calls) /\ stored \in Seq(Calls)  BY DEF Types, CallTypes
<1> QED BY <1>1, CountConcat, ConcatProperties

(* What the thread stored becomes visible, and stays in its order.         *)
LEMMA DrainedKeeps ==
    ASSUME Types, Drained, UNCHANGED <<toThread, taken>>
    PROVE  /\ stored' \in Seq(Calls) /\ completed' \in Seq(Calls)
           /\ WithThread' = WithThread /\ \A c \in Calls : InThread(c)' = InThread(c)
<1>1. completed' = completed \o stored /\ stored' = <<>>  BY DEF Drained
<1>2. /\ completed' \in Seq(Calls) /\ Len(completed') = Len(completed) + Len(stored)
      /\ \A c \in Calls :
             Count(completed', {c}) = Count(completed, {c}) + Count(stored, {c})
  BY <1>1, DrainedFacts
<1>3. stored' \in Seq(Calls) /\ Len(stored') = 0  BY <1>1
<1>4. WithThread' = WithThread
  <2> DEFINE l == Len(toThread)
             a == Len(taken)
             s == Len(stored)
             e1 == Len(completed)
             e2 == Len(completed')
  <2>1. l \in Nat /\ a \in Nat /\ s \in Nat /\ e1 \in Nat /\ e2 = e1 + s
    BY <1>2, Numbers
  <2>2. WithThread = l + a + s + e1 /\ WithThread' = l + a + 0 + e2
    BY <1>3 DEF WithThread
  <2> HIDE DEF l, a, s, e1, e2
  <2> QED BY ONLY <2>1, <2>2
<1>5. ASSUME NEW c \in Calls PROVE InThread(c)' = InThread(c)
  <2> DEFINE l == Count(toThread, {c})
             a == Count(taken, {c})
             s1 == Count(stored, {c})
             s2 == Count(stored', {c})
             e1 == Count(completed, {c})
             e2 == Count(completed', {c})
  <2>1. l \in Nat /\ a \in Nat /\ s1 \in Nat /\ e1 \in Nat  BY CallNumbers
  <2>2. e2 = e1 + s1 /\ s2 = 0  BY <1>1, <1>2, CountEmpty
  <2>3. InThread(c) = l + a + s1 + e1 /\ InThread(c)' = l + a + s2 + e2
    BY DEF InThread
  <2> HIDE DEF l, a, s1, s2, e1, e2
  <2> QED BY ONLY <2>1, <2>2, <2>3
<1> QED BY <1>2, <1>3, <1>4, <1>5

(* The thread has made a call and stores its result.                       *)
LEMMA ProcessStep ==
    ASSUME IInv, Process, UNCHANGED <<ioVars, callVars>>
    PROVE  IInv'
<1> DEFINE c == Head(taken)
           one == <<c>>
<1>0. Types  BY DEF IInv
<1>1. /\ thread = "calling" /\ taken # <<>> /\ taken' = Tail(taken) /\ stored' = one
      /\ completed' = completed \o stored
      /\ UNCHANGED <<room, toThread, started, thread, idle, notified>>
  BY DEF Process
<1>2. taken \in Seq(Calls) /\ toThread' \in Seq(Calls)
  BY <1>0, <1>1 DEF Types, CallTypes
<1>3. /\ c \in Calls /\ taken' \in Seq(Calls) /\ Len(taken') = Len(taken) - 1
      /\ \A d \in Calls : Count(taken, {d}) = Indicator(c \in {d}) + Count(taken', {d})
  BY <1>1, <1>2, HeadThenTail, CountHead
<1>4. /\ stored' \in Seq(Calls) /\ Len(stored') = 1
      /\ \A d \in Calls : Count(stored', {d}) = Indicator(c \in {d})
  <2>1. one \in Seq(Calls) /\ Len(one) = 1  BY <1>3
  <2> QED BY <1>1, <2>1, CountOne
<1> HIDE DEF c, one
<1>5. /\ completed' \in Seq(Calls) /\ Len(completed') = Len(completed) + Len(stored)
      /\ \A d \in Calls :
             Count(completed', {d}) = Count(completed, {d}) + Count(stored, {d})
  BY <1>0, <1>1, DrainedFacts
<1>6. WithThread' = WithThread
  <2> DEFINE l == Len(toThread)
             a1 == Len(taken)
             a2 == Len(taken')
             s == Len(stored)
             e1 == Len(completed)
             e2 == Len(completed')
  <2>1. l \in Nat /\ a1 \in Nat /\ s \in Nat /\ e1 \in Nat  BY <1>0, Numbers
  <2>2. e2 = e1 + s /\ a2 = a1 - 1  BY <1>3, <1>5
  <2>3. WithThread = l + a1 + s + e1 /\ WithThread' = l + a2 + 1 + e2
    BY <1>1, <1>4 DEF WithThread
  <2> HIDE DEF l, a1, a2, s, e1, e2
  <2> QED BY ONLY <2>1, <2>2, <2>3
<1>7. ASSUME NEW d \in Calls PROVE InThread(d)' = InThread(d)
  <2> DEFINE l == Count(toThread, {d})
             a1 == Count(taken, {d})
             a2 == Count(taken', {d})
             s1 == Count(stored, {d})
             s2 == Count(stored', {d})
             e1 == Count(completed, {d})
             e2 == Count(completed', {d})
             i == Indicator(c \in {d})
  <2>1. l \in Nat /\ s1 \in Nat /\ e1 \in Nat /\ i \in Nat
    BY <1>0, CallNumbers DEF Indicator
  <2>2. a2 \in Nat  BY <1>3, CountType
  <2>3. a1 = i + a2 /\ s2 = i /\ e2 = e1 + s1  BY <1>3, <1>4, <1>5
  <2>4. InThread(d) = l + a1 + s1 + e1 /\ InThread(d)' = l + a2 + s2 + e2
    BY <1>1 DEF InThread
  <2> HIDE DEF l, a1, a2, s1, s2, e1, e2, i
  <2> QED BY ONLY <2>1, <2>2, <2>3, <2>4
<1>8. Missed'  BY <1>1, <1>4 DEF Missed, AtMostOneMissed, WillNotify
<1> QED BY <1>1, <1>2, <1>3, <1>4, <1>5, <1>6, <1>7, <1>8, ThreadMove

(* The other steps of the syscall thread.                                  *)
LEMMA ThreadStep ==
    ASSUME IInv, Thread
    PROVE  IInv'
<1>0. Types /\ Missed /\ Resting  BY DEF IInv
<1>1. UNCHANGED <<ioVars, callVars>> /\ UNCHANGED <<phase, asleep>>
  BY DEF Thread, ioVars
<1>2. toThread \in Seq(Calls) /\ taken \in Seq(Calls)
      /\ stored \in Seq(Calls) /\ completed \in Seq(Calls)
  BY <1>0 DEF Types, CallTypes
<1>3. CASE Process  BY <1>1, <1>3, ProcessStep
<1>4. CASE ReadEventfd
  <2>1. /\ Drained /\ thread = "reading" /\ thread' = "taking"
        /\ UNCHANGED <<room, toThread, taken, idle, notified>>
    BY <1>4 DEF ReadEventfd
  <2>2. /\ stored' \in Seq(Calls) /\ completed' \in Seq(Calls)
        /\ WithThread' = WithThread /\ \A c \in Calls : InThread(c)' = InThread(c)
    BY <1>0, <2>1, DrainedKeeps
  <2>3. Missed'
    <3>1. Len(stored') = 0  BY <2>1 DEF Drained
    <3> QED BY <1>0, <2>1, <3>1 DEF Missed, AtMostOneMissed, WillNotify
  <2> QED BY <1>1, <1>2, <2>1, <2>2, <2>3, ThreadMove
<1>5. CASE Take
  <2>1. /\ taken' = toThread /\ toThread' = <<>> /\ thread' = "calling"
        /\ taken = <<>> /\ UNCHANGED <<room, stored, completed, idle, notified>>
    BY <1>0, <1>5 DEF Take, Missed
  <2>2. WithThread' = WithThread
    <3>1. Len(taken) = 0 /\ Len(toThread') = 0  BY <2>1
    <3>2. Len(toThread) \in Nat /\ Len(stored) \in Nat /\ Len(completed) \in Nat
      BY <1>2
    <3> QED BY <2>1, <3>1, <3>2 DEF WithThread
  <2>3. ASSUME NEW c \in Calls PROVE InThread(c)' = InThread(c)
    <3> DEFINE l == Count(toThread, {c})
               s == Count(stored, {c})
               e == Count(completed, {c})
    <3>1. l \in Nat /\ s \in Nat /\ e \in Nat  BY <1>0, CallNumbers
    <3>2. Count(taken, {c}) = 0 /\ Count(toThread', {c}) = 0  BY <2>1, CountEmpty
    <3>3. InThread(c) = l + 0 + s + e /\ InThread(c)' = 0 + l + s + e
      BY <2>1, <3>2 DEF InThread
    <3> HIDE DEF l, s, e
    <3> QED BY ONLY <3>1, <3>3
  <2>4. Missed'  BY <1>0, <2>1 DEF Missed, AtMostOneMissed, WillNotify
  <2>5. toThread' \in Seq(Calls) /\ taken' \in Seq(Calls)  BY <1>2, <2>1
  <2> QED BY <1>1, <1>2, <2>1, <2>2, <2>3, <2>4, <2>5, ThreadMove
<1>6. CASE Notify
  <2>1. /\ notified' = (notified \/ idle) /\ taken = <<>>
        /\ Drained \/ UNCHANGED <<completed, stored>>
        /\ UNCHANGED <<room, toThread, taken, idle>>
    BY <1>6 DEF Notify
  <2>2. /\ stored' \in Seq(Calls) /\ completed' \in Seq(Calls)
        /\ WithThread' = WithThread /\ \A c \in Calls : InThread(c)' = InThread(c)
    <3>1. CASE Drained  BY <1>0, <2>1, <3>1, DrainedKeeps
    <3>2. CASE UNCHANGED <<completed, stored>>
      BY <1>2, <2>1, <3>2 DEF WithThread, InThread
    <3> QED BY <2>1, <3>1, <3>2
  <2>3. Missed'
    <3>1. Len(stored') <= 1  BY <1>0, <2>1 DEF Drained, Missed
    <3>2. asleep => idle  BY <1>0 DEF Resting
    <3> QED BY <1>1, <2>1, <3>1, <3>2 DEF Missed, AtMostOneMissed
  <2> QED BY <1>1, <1>2, <2>1, <2>2, <2>3, ThreadMove
<1>7. CASE Drain
  <2>1. Drained /\ UNCHANGED <<room, toThread, started, thread, taken, idle, notified>>
    BY <1>7 DEF Drain
  <2>2. /\ stored' \in Seq(Calls) /\ completed' \in Seq(Calls)
        /\ WithThread' = WithThread /\ \A c \in Calls : InThread(c)' = InThread(c)
    BY <1>0, <2>1, DrainedKeeps
  <2>3. Missed'
    <3>1. completed' \o stored' = completed \o stored /\ Len(stored') = 0
      <4>1. completed' = completed \o stored /\ stored' = <<>>  BY <2>1 DEF Drained
      <4>2. completed \o stored \in Seq(Calls)  BY <1>2
      <4> QED BY <4>1, <4>2, ConcatEmptySeq
    <3> QED BY <1>0, <1>1, <2>1, <3>1 DEF Missed, AtMostOneMissed, WillNotify
  <2> QED BY <1>1, <1>2, <2>1, <2>2, <2>3, ThreadMove
<1> QED BY <1>3, <1>4, <1>5, <1>6, <1>7 DEF Thread, MakeCall

-----------------------------------------------------------------------------
(* The invariant holds at the start.                                       *)
LEMMA InitIInv == Init => workload \in Workloads /\ IInv
<1> SUFFICES ASSUME Init PROVE workload \in Workloads /\ IInv  OBVIOUS
<1> DEFINE none == <<>>
<1>1. /\ arrived = 0 /\ classOf \in [Requests -> Classes]
      /\ queues = [c \in Classes |-> none] /\ handles = {}
      /\ fairSem = NewSemaphore(Capacity) /\ aioSem = NewSemaphore(MaxAio)
      /\ tasks = none /\ pending = none /\ inKernel = {} /\ events = none
      /\ answered = {} /\ phase = "tasks" /\ asleep = FALSE
  BY DEF Init, IoInit
<1>2. /\ room = NewSemaphore(QueueLength) /\ toThread = none /\ taken = none
      /\ stored = none /\ completed = none /\ idle = FALSE
      /\ made = 0 /\ returned = {} /\ workload \in Workloads
  BY DEF Init, PoolInit
<1>3. /\ none \in Seq(Requests) /\ none \in Seq(Calls) /\ none \in Seq(AnyTask)
      /\ Len(none) = 0
  OBVIOUS
<1>4. \A K : Count(none, K) = 0  BY CountEmpty
<1>5. /\ fairSem \in Semaphores({ExecuteTask}) /\ aioSem \in Semaphores(Prepares)
      /\ room \in Semaphores(Pushes)
      /\ fairSem.units = Capacity /\ aioSem.units = MaxAio /\ room.units = QueueLength
      /\ fairSem.waiters = none /\ aioSem.waiters = none /\ room.waiters = none
  <2>1. Capacity \in Nat /\ MaxAio \in Nat /\ QueueLength \in Nat
    BY IoAssumption, QueueLengthAssumption
  <2> QED BY <1>1, <1>2, <2>1, NewSem
<1> HIDE DEF none
<1>6. Types
  <2>1. /\ 0 \in 0 .. MaxRequests /\ 0 \in 0 .. MaxCalls
    BY IoAssumption, CallsAssumption
  <2>2. queues \in [Classes -> Seq(Requests)]  BY <1>1, <1>3
  <2>3. \A c \in Classes : \A i \in 1 .. Len(queues[c]) : classOf[queues[c][i]] = c
    <3>1. ASSUME NEW c \in Classes PROVE 1 .. Len(queues[c]) = {}  BY <1>1, <1>3
    <3> QED BY <3>1
  <2>4. IoTypes  BY <1>1, <1>3, <1>5, <2>1, <2>2, <2>3 DEF IoTypes
  <2>5. CallTypes  BY <1>2, <1>3, <1>5, <2>1 DEF CallTypes
  <2> QED BY <1>1, <1>3, <2>4, <2>5 DEF Types
<1>7. WorkQueued
  <2>1. Queued = {}
    <3>1. ASSUME NEW c \in Classes PROVE {<<c, i>> : i \in 1 .. Len(queues[c])} = {}
      BY <1>1, <1>3
    <3> QED BY <3>1 DEF Queued
  <2>2. IsFiniteSet(Queued) /\ Cardinality(Queued) = 0  BY <2>1, FS_EmptySet
  <2>3. handles = {c \in Classes : queues[c] # <<>>}  BY <1>1 DEF none
  <2> QED BY <1>1, <1>3, <1>4, <1>5, <2>2, <2>3 DEF WorkQueued
<1>8. FairUnits /\ AioUnits
  <2>1. Submitted = 0  BY <1>1, <1>3, FS_EmptySet DEF Submitted
  <2> QED BY <1>1, <1>3, <1>4, <1>5, <2>1, IoAssumption DEF FairUnits, AioUnits
<1>9. RequestsCounted
  <2> SUFFICES ASSUME NEW r \in Requests PROVE RequestCount(r) = Indicator(r <= arrived)
    BY DEF RequestsCounted
  <2>1. Indicator(r \in inKernel) = 0 /\ Indicator(r \in answered) = 0
    BY <1>1 DEF Indicator
  <2>2. OnItsWay(r) = 0  BY <1>1, <1>4, <1>5, <2>1 DEF OnItsWay
  <2>3. Count(queues[classOf[r]], {r}) = 0  BY <1>1, <1>4
  <2>4. Indicator(r <= arrived) = 0  BY <1>1 DEF Indicator, Requests
  <2> QED BY <2>2, <2>3, <2>4 DEF RequestCount
<1>10. CallParts
  <2>1. WithThread = 0  BY <1>2, <1>3 DEF WithThread
  <2>2. RoomUnits  BY <1>1, <1>4, <1>5, <2>1, QueueLengthAssumption DEF RoomUnits
  <2>3. ASSUME NEW c \in Calls PROVE CallCount(c) = Indicator(c <= made)
    <3>1. InThread(c) = 0 /\ Indicator(c \in returned) = 0
      BY <1>2, <1>4 DEF InThread, Indicator
    <3>2. Indicator(c <= made) = 0  BY <1>2 DEF Indicator, Calls
    <3> QED BY <1>1, <1>4, <1>5, <3>1, <3>2 DEF CallCount
  <2> QED BY <2>2, <2>3 DEF CallParts, CallsCounted
<1>11. Resting  BY <1>1, <1>5 DEF Resting, Sane, none
<1>12. Missed  BY <1>1, <1>2, <1>3 DEF Missed, AtMostOneMissed, none
<1> QED BY <1>2, <1>6, <1>7, <1>8, <1>9, <1>10, <1>11, <1>12 DEF IInv, IoParts

(* A step that changes nothing of the invariant but fileVars.              *)
LEMMA StillStep ==
    ASSUME IInv, UNCHANGED <<ioVars, poolVars, callVars>>
    PROVE  IInv'
<1>0. Types /\ IoParts /\ CallParts /\ Resting /\ Missed  BY DEF IInv
<1>1. /\ UNCHANGED <<arrived, classOf, queues, handles, fairSem, aioSem, tasks, pending,
                      inKernel, events, answered, phase, asleep>>
      /\ UNCHANGED <<made, room, toThread, taken, stored, completed, returned,
                      notified, started, thread, idle>>
  BY DEF ioVars, poolVars, threadVars, callVars
<1>2. Types'  BY <1>0, <1>1 DEF Types, IoTypes, CallTypes
<1>3. IoParts' /\ CallParts'  BY <1>0, <1>1, IoFrame, CallFrame
<1>4. Resting'  BY <1>0, <1>1 DEF Resting, Sane
<1>5. Missed'  BY <1>0, <1>1 DEF Missed, AtMostOneMissed, WillNotify
<1> QED BY <1>2, <1>3, <1>4, <1>5 DEF IInv

(* One step for every action.                                              *)
LEMMA StepIInv ==
    ASSUME workload \in Workloads, IInv, [Next]_vars
    PROVE  workload' \in Workloads /\ IInv'
<1>1. CASE UNCHANGED vars  BY <1>1, StillStep DEF vars
<1>2. ASSUME NEW o \in Objects, NEW c \in Classes, Request(o, c)
      PROVE  workload' \in Workloads /\ IInv'
  BY <1>2, QueueStep DEF Request
<1>3. ASSUME NEW op, NEW o, NEW fd, Submit(op, o, fd)
      PROVE  workload' \in Workloads /\ IInv'
  BY <1>3, SubmitStep DEF Submit
<1>4. CASE CallPath \/ CallOpenFile  BY <1>3, <1>4 DEF CallPath, CallOpenFile
<1>5. ASSUME NEW o \in Objects, CallOnFile(o) \/ CloseLast(o)
      PROVE  workload' \in Workloads /\ IInv'
  BY <1>3, <1>5 DEF CallOnFile, CloseLast
<1>6. ASSUME NEW o \in Objects, CloseShared(o)
      PROVE  workload' \in Workloads /\ IInv'
  BY <1>6, StillStep DEF CloseShared
<1>7. CASE Share  BY <1>7, StillStep DEF Share
<1>8. CASE Io(IoReactor)
  <2>1. workload' \in Workloads /\ UNCHANGED <<poolVars, callVars>> /\ IoReactor
    BY <1>8 DEF Io
  <2>2. ASSUME NEW c \in Classes, Execute(c) PROVE IInv'  BY <2>1, <2>2, ExecuteStep
  <2>3. CASE Start  BY <2>1, <2>3, StartStep
  <2>4. CASE Prepare  BY <2>1, <2>4, PrepareStep
  <2>5. CASE Finally  BY <2>1, <2>5, FinallyStep
  <2>6. CASE PollIo  BY <2>1, <2>6, PollIoStep
  <2>7. CASE PollAio \/ SubmitAgain \/ FlushDone  BY <2>1, <2>7, PhaseStep
  <2>8. ASSUME NEW k \in Requests, SubmitBatch(k) PROVE IInv'
    BY <2>1, <2>8, SubmitBatchStep
  <2>9. CASE SubmitBad  BY <2>1, <2>9, SubmitBadStep
  <2> QED BY <2>1, <2>2, <2>3, <2>4, <2>5, <2>6, <2>7, <2>8, <2>9 DEF IoReactor, Flush
<1>9. CASE PushCall  BY <1>9, PushCallStep DEF PushCall
<1>10. CASE Return  BY <1>10, ReturnStep DEF Return
<1>11. CASE HandleSignal  BY <1>11, HandleSignalStep DEF HandleSignal
<1>12. CASE PollCalls  BY <1>12, PollCallsStep DEF PollCalls
<1>13. CASE Raced  BY <1>13, RacedStep DEF Raced
<1>14. CASE EnterSleep \/ Block \/ Awaken
  BY <1>14, SleepStep DEF EnterSleep, Block, Awaken
<1>15. CASE Thread  BY <1>15, ThreadStep DEF Thread
<1>16. ASSUME NEW r \in Requests, Io(KernelComplete(r))
       PROVE  workload' \in Workloads /\ IInv'
  BY <1>16, KernelStep DEF Io
<1>17. CASE Fibers  BY <1>2, <1>4, <1>5, <1>6, <1>7, <1>17 DEF Fibers
<1>18. CASE ReactorStep
  BY <1>8, <1>9, <1>10, <1>11, <1>12, <1>13, <1>14, <1>18 DEF ReactorStep
<1> QED BY <1>1, <1>15, <1>16, <1>17, <1>18 DEF Next

(* Every request, call, unit and dispatcher is where its counts say, in    *)
(* every state of every behaviour.                                         *)
THEOREM InvHolds == Spec => []IInv
<1>1. Init => workload \in Workloads /\ IInv  BY InitIInv
<1>2. (workload \in Workloads /\ IInv) /\ [Next]_vars => (workload \in Workloads /\ IInv)'
  BY StepIInv
<1> QED BY <1>1, <1>2, PTL DEF Spec

-----------------------------------------------------------------------------
(* What the invariant says in the words of the properties.                 *)
LEMMA TasksOfKinds ==
    ASSUME Types
    PROVE  /\ TasksOf("execute") = Hits(tasks, {ExecuteTask})
           /\ TasksOf("prepare") = Hits(tasks, Prepares)
           /\ TasksOf("push") = Hits(tasks, Pushes)
           /\ UNION {TasksOf(kind) : kind \in TaskKinds} = Hits(tasks, IoTasks)
           /\ \A kind \in {"start", "prepare", "finally"}, r \in Requests :
                  {j \in TasksOf(kind) : tasks[j].req = r} = Hits(tasks, {Task(kind, r)})
           /\ \A kind \in {"push", "return"}, c \in Calls :
                  {j \in TasksOf(kind) : tasks[j].req = c} = Hits(tasks, {Task(kind, c)})
<1>1. \A i \in 1 .. Len(tasks) : tasks[i] \in AnyTask  BY DEF Types
<1>2. \A t \in AnyTask :
          /\ t.kind = "execute" <=> t \in {ExecuteTask}
          /\ t.kind = "prepare" <=> t \in Prepares
          /\ t.kind = "push" <=> t \in Pushes
          /\ t.kind \in TaskKinds <=> t \in IoTasks
  BY DEF AnyTask, IoTasks, ExecuteTask, RequestTasks, CallTasks, Task, Prepares, Pushes,
         TaskKinds
<1>3. ASSUME NEW t \in AnyTask, NEW kind \in {"start", "prepare", "finally"}, NEW r \in Requests
      PROVE  t.kind = kind /\ t.req = r <=> t = Task(kind, r)
  BY DEF AnyTask, IoTasks, ExecuteTask, RequestTasks, CallTasks, Task
<1>4. ASSUME NEW t \in AnyTask, NEW kind \in {"push", "return"}, NEW c \in Calls
      PROVE  t.kind = kind /\ t.req = c <=> t = Task(kind, c)
  BY DEF AnyTask, IoTasks, ExecuteTask, RequestTasks, CallTasks, Task
<1>5. /\ TasksOf("execute") = Hits(tasks, {ExecuteTask})
      /\ TasksOf("prepare") = Hits(tasks, Prepares)
      /\ TasksOf("push") = Hits(tasks, Pushes)
  BY <1>1, <1>2 DEF TasksOf, Hits
<1>6. UNION {TasksOf(kind) : kind \in TaskKinds} = Hits(tasks, IoTasks)
  BY <1>1, <1>2 DEF TasksOf, Hits
<1>7. ASSUME NEW kind \in {"start", "prepare", "finally"}, NEW r \in Requests
      PROVE  {j \in TasksOf(kind) : tasks[j].req = r} = Hits(tasks, {Task(kind, r)})
  BY <1>1, <1>3 DEF TasksOf, Hits
<1>8. ASSUME NEW kind \in {"push", "return"}, NEW c \in Calls
      PROVE  {j \in TasksOf(kind) : tasks[j].req = c} = Hits(tasks, {Task(kind, c)})
  BY <1>1, <1>4 DEF TasksOf, Hits
<1> QED BY <1>5, <1>6, <1>7, <1>8

(* The tasks of requests are of three kinds, each counted once.            *)
LEMMA RequestTaskSum ==
    ASSUME Types, NEW r \in Requests
    PROVE  Count(tasks, TasksFor(r))
               = Count(tasks, {Task("start", r)}) + Count(tasks, {Task("prepare", r)})
                     + Count(tasks, {Task("finally", r)})
<1> DEFINE a == {Task("start", r)}
           b == {Task("prepare", r)}
           c == {Task("finally", r)}
<1>1. /\ TasksFor(r) = (a \union b) \union c
      /\ a \intersect b = {} /\ (a \union b) \intersect c = {}
  <2>1. \A x : x \in TasksFor(r)
                   <=> \/ x = Task("start", r) \/ x = Task("prepare", r)
                      \/ x = Task("finally", r)
    BY DEF TasksFor, Task
  <2>2. /\ Task("start", r).kind = "start" /\ Task("prepare", r).kind = "prepare"
        /\ Task("finally", r).kind = "finally"
    BY DEF Task
  <2>3. a \intersect b = {} /\ (a \union b) \intersect c = {}  BY <2>2
  <2> QED BY <2>1, <2>3
<1>2. tasks \in Seq(AnyTask)  BY DEF Types
<1> HIDE DEF a, b, c
<1>3. Count(tasks, (a \union b) \union c) = Count(tasks, a \union b) + Count(tasks, c)
  BY <1>1, <1>2, CountUnion
<1>4. Count(tasks, a \union b) = Count(tasks, a) + Count(tasks, b)
  BY <1>1, <1>2, CountUnion
<1> QED BY <1>1, <1>3, <1>4 DEF a, b, c

(* The tasks of calls are of two kinds, each counted once.                 *)
LEMMA CallTaskSum ==
    ASSUME Types, NEW c \in Calls
    PROVE  Count(tasks, TasksOfCall(c))
               = Count(tasks, {Task("push", c)}) + Count(tasks, {Task("return", c)})
<1> DEFINE a == {Task("push", c)}
           b == {Task("return", c)}
<1>1. TasksOfCall(c) = a \union b /\ a \intersect b = {}
  <2>1. \A x : x \in TasksOfCall(c) <=> x = Task("push", c) \/ x = Task("return", c)
    BY DEF TasksOfCall, Task
  <2>2. Task("push", c).kind = "push" /\ Task("return", c).kind = "return"
    BY DEF Task
  <2> QED BY <2>1, <2>2
<1>2. tasks \in Seq(AnyTask)  BY DEF Types
<1> HIDE DEF a, b
<1>3. Count(tasks, a \union b) = Count(tasks, a) + Count(tasks, b)
  BY <1>1, <1>2, CountUnion
<1> QED BY <1>1, <1>3 DEF a, b

(* The places of a request are as many as the counts say.                  *)
LEMMA PlacesCounted ==
    ASSUME Types, NEW r \in Requests
    PROVE  Cardinality(Places(r)) = RequestCount(r)
<1> DEFINE S0 == Hits(queues[classOf[r]], {r})
           S1 == Hits(tasks, {Task("start", r)})
           S2 == Hits(aioSem.waiters, TasksFor(r))
           S3 == Hits(tasks, {Task("prepare", r)})
           S4 == Hits(pending, {r})
           S5 == IF r \in inKernel THEN {0} ELSE {}
           S6 == Hits(events, {r})
           S7 == Hits(tasks, {Task("finally", r)})
           S8 == IF r \in answered THEN {0} ELSE {}
           P0 == {} \union Tagged(0, S0)
           P1 == P0 \union Tagged(1, S1)
           P2 == P1 \union Tagged(2, S2)
           P3 == P2 \union Tagged(3, S3)
           P4 == P3 \union Tagged(4, S4)
           P5 == P4 \union Tagged(5, S5)
           P6 == P5 \union Tagged(6, S6)
           P7 == P6 \union Tagged(7, S7)
           P8 == P7 \union Tagged(8, S8)
<1>1. /\ S0 = {j \in 1 .. Len(queues[classOf[r]]) : queues[classOf[r]][j] = r}
      /\ S4 = {j \in 1 .. Len(pending) : pending[j] = r}
      /\ S6 = {j \in 1 .. Len(events) : events[j] = r}
  BY DEF Hits
<1>2. /\ S1 = {j \in TasksOf("start") : tasks[j].req = r}
      /\ S3 = {j \in TasksOf("prepare") : tasks[j].req = r}
      /\ S7 = {j \in TasksOf("finally") : tasks[j].req = r}
  BY TasksOfKinds
<1>3. S2 = {j \in 1 .. Len(aioSem.waiters) : aioSem.waiters[j].req = r}
  <2>1. \A j \in 1 .. Len(aioSem.waiters) : aioSem.waiters[j] \in Prepares
    BY DEF Types, IoTypes, Semaphores
  <2>2. \A x \in Prepares : x \in TasksFor(r) <=> x.req = r
    BY DEF Prepares, TasksFor
  <2> QED BY <2>1, <2>2 DEF Hits
<1>4. /\ Tagged(5, S5) = (IF r \in inKernel THEN {<<5, 0>>} ELSE {})
      /\ Tagged(8, S8) = (IF r \in answered THEN {<<8, 0>>} ELSE {})
  BY DEF Tagged
<1>5. /\ IsFiniteSet(S5) /\ Cardinality(S5) = Indicator(r \in inKernel)
      /\ IsFiniteSet(S8) /\ Cardinality(S8) = Indicator(r \in answered)
  <2>1. (r \in inKernel) \in BOOLEAN /\ (r \in answered) \in BOOLEAN  OBVIOUS
  <2> QED BY <2>1, OneOrNone
<1> HIDE DEF S0, S1, S2, S3, S4, S5, S6, S7, S8
<1>6. Places(r) = P8  BY <1>1, <1>2, <1>3, <1>4 DEF Places, Tagged
<1>7. /\ tasks \in Seq(AnyTask) /\ aioSem.waiters \in Seq(Prepares)
      /\ pending \in Seq(Requests) /\ events \in Seq(Requests)
      /\ queues[classOf[r]] \in Seq(Requests)
  BY RequestNumbers DEF Types, IoTypes, Semaphores
<1>8. /\ IsFiniteSet(S0) /\ IsFiniteSet(S1) /\ IsFiniteSet(S2) /\ IsFiniteSet(S3)
      /\ IsFiniteSet(S4) /\ IsFiniteSet(S6) /\ IsFiniteSet(S7)
  BY <1>7, CountType DEF S0, S1, S2, S3, S4, S6, S7
<1> HIDE DEF P0, P1, P2, P3, P4, P5, P6, P7, P8
<1>9. IsFiniteSet({}) /\ Cardinality({}) = 0 /\ TagsBelow({}, 0)
  BY FS_EmptySet DEF TagsBelow
<1>10. /\ IsFiniteSet(P0) /\ Cardinality(P0) = 0 + Cardinality(S0)
       /\ TagsBelow(P0, 1)
  BY <1>8, <1>9, TaggedUnion DEF P0
<1>11. /\ IsFiniteSet(P1) /\ Cardinality(P1) = Cardinality(P0) + Cardinality(S1)
       /\ TagsBelow(P1, 2)
  <2>1. 1 \in Nat /\ 2 = 1 + 1 /\ IsFiniteSet(S1)  BY <1>8
  <2>2. IsFiniteSet(P0) /\ TagsBelow(P0, 1)  BY <1>10
  <2> QED BY ONLY <2>1, <2>2, TaggedUnion DEF P1
<1>12. /\ IsFiniteSet(P2) /\ Cardinality(P2) = Cardinality(P1) + Cardinality(S2)
       /\ TagsBelow(P2, 3)
  <2>1. 2 \in Nat /\ 3 = 2 + 1 /\ IsFiniteSet(S2)  BY <1>8
  <2>2. IsFiniteSet(P1) /\ TagsBelow(P1, 2)  BY <1>11
  <2> QED BY ONLY <2>1, <2>2, TaggedUnion DEF P2
<1>13. /\ IsFiniteSet(P3) /\ Cardinality(P3) = Cardinality(P2) + Cardinality(S3)
       /\ TagsBelow(P3, 4)
  <2>1. 3 \in Nat /\ 4 = 3 + 1 /\ IsFiniteSet(S3)  BY <1>8
  <2>2. IsFiniteSet(P2) /\ TagsBelow(P2, 3)  BY <1>12
  <2> QED BY ONLY <2>1, <2>2, TaggedUnion DEF P3
<1>14. /\ IsFiniteSet(P4) /\ Cardinality(P4) = Cardinality(P3) + Cardinality(S4)
       /\ TagsBelow(P4, 5)
  <2>1. 4 \in Nat /\ 5 = 4 + 1 /\ IsFiniteSet(S4)  BY <1>8
  <2>2. IsFiniteSet(P3) /\ TagsBelow(P3, 4)  BY <1>13
  <2> QED BY ONLY <2>1, <2>2, TaggedUnion DEF P4
<1>15. /\ IsFiniteSet(P5) /\ Cardinality(P5) = Cardinality(P4) + Cardinality(S5)
       /\ TagsBelow(P5, 6)
  <2>1. 5 \in Nat /\ 6 = 5 + 1 /\ IsFiniteSet(S5)  BY <1>5
  <2>2. IsFiniteSet(P4) /\ TagsBelow(P4, 5)  BY <1>14
  <2> QED BY ONLY <2>1, <2>2, TaggedUnion DEF P5
<1>16. /\ IsFiniteSet(P6) /\ Cardinality(P6) = Cardinality(P5) + Cardinality(S6)
       /\ TagsBelow(P6, 7)
  <2>1. 6 \in Nat /\ 7 = 6 + 1 /\ IsFiniteSet(S6)  BY <1>8
  <2>2. IsFiniteSet(P5) /\ TagsBelow(P5, 6)  BY <1>15
  <2> QED BY ONLY <2>1, <2>2, TaggedUnion DEF P6
<1>17. /\ IsFiniteSet(P7) /\ Cardinality(P7) = Cardinality(P6) + Cardinality(S7)
       /\ TagsBelow(P7, 8)
  <2>1. 7 \in Nat /\ 8 = 7 + 1 /\ IsFiniteSet(S7)  BY <1>8
  <2>2. IsFiniteSet(P6) /\ TagsBelow(P6, 7)  BY <1>16
  <2> QED BY ONLY <2>1, <2>2, TaggedUnion DEF P7
<1>18. Cardinality(P8) = Cardinality(P7) + Cardinality(S8)
  BY <1>5, <1>17, TaggedUnion DEF P8
<1> DEFINE n0 == Cardinality(S0)
           n1 == Cardinality(S1)
           n2 == Cardinality(S2)
           n3 == Cardinality(S3)
           n4 == Cardinality(S4)
           n5 == Cardinality(S5)
           n6 == Cardinality(S6)
           n7 == Cardinality(S7)
           n8 == Cardinality(S8)
<1>19. /\ n0 \in Nat /\ n1 \in Nat /\ n2 \in Nat /\ n3 \in Nat /\ n4 \in Nat
       /\ n5 \in Nat /\ n6 \in Nat /\ n7 \in Nat /\ n8 \in Nat
  BY <1>5, <1>8, FS_CardinalityType
<1>20. Cardinality(P8) = ((((((((0 + n0) + n1) + n2) + n3) + n4) + n5) + n6) + n7) + n8
  BY <1>10, <1>11, <1>12, <1>13, <1>14, <1>15, <1>16, <1>17, <1>18
<1>21. RequestCount(r) = n0 + ((n1 + n3 + n7) + n2 + n4 + n5 + n6 + n8)
  <2>1. Count(tasks, TasksFor(r)) = n1 + n3 + n7
    BY RequestTaskSum DEF Count, S1, S3, S7
  <2> QED BY <1>5, <2>1 DEF RequestCount, OnItsWay, Count, S0, S2, S4, S6
<1> HIDE DEF n0, n1, n2, n3, n4, n5, n6, n7, n8
<1>22. ((((((((0 + n0) + n1) + n2) + n3) + n4) + n5) + n6) + n7) + n8
           = n0 + ((n1 + n3 + n7) + n2 + n4 + n5 + n6 + n8)
  BY ONLY <1>19
<1> QED BY <1>6, <1>20, <1>21, <1>22

(* Every request is in one place, and the units are all accounted for.     *)
LEMMA RequestsExactFromIInv == IInv => RequestsExact
<1> SUFFICES ASSUME IInv PROVE RequestsExact  OBVIOUS
<1>0. Types /\ WorkQueued /\ FairUnits /\ AioUnits /\ RequestsCounted
  BY DEF IInv, IoParts
<1>1. /\ Cardinality(TasksOf("execute")) = Count(tasks, {ExecuteTask})
      /\ Cardinality(TasksOf("prepare")) = Count(tasks, Prepares)
      /\ Cardinality(UNION {TasksOf(kind) : kind \in TaskKinds}) = Count(tasks, IoTasks)
  BY <1>0, TasksOfKinds DEF Count
<1>2. PopFindsWork  BY <1>0, <1>1 DEF PopFindsWork, WorkQueued, Queued
<1>3. UnitsExact  BY <1>0, <1>1 DEF UnitsExact, FairUnits, AioUnits, Submitted
<1>4. EachOnce  BY <1>0, PlacesCounted DEF EachOnce, RequestsCounted, Indicator
<1> QED BY <1>2, <1>3, <1>4 DEF RequestsExact

(* PopFindsWork, UnitsExact and EachOnce, for any number of requests,      *)
(* units and classes: whatever io_submit() takes of a batch, refuses or    *)
(* fails, no request or unit is lost or made.                              *)
THEOREM RequestsExactHolds == Spec => []RequestsExact
BY InvHolds, RequestsExactFromIInv, PTL

-----------------------------------------------------------------------------
(* A reactor that sleeps has no task and holds no unit of the aio context; *)
(* then all units of the fair queue are free and nobody waits for one, so  *)
(* that no request is in a queue either.  Only "answered" is left.         *)
LEMMA NoSleepOverIoFromIInv == IInv => NoSleepOverIo
<1> SUFFICES ASSUME IInv, asleep PROVE answered = 1 .. arrived  BY DEF NoSleepOverIo
<1>1. /\ Types /\ tasks = <<>> /\ aioSem.units = MaxAio
      /\ Sane(fairSem) /\ Sane(aioSem) /\ WorkQueued /\ FairUnits /\ AioUnits
      /\ RequestsCounted
  BY DEF IInv, IoParts, Resting
<1>2. \A kind : Count(tasks, kind) = 0  BY <1>1, CountEmpty
<1>3. Submitted = 0
  <2> DEFINE n == Count(tasks, Prepares)
  <2>1. n = 0 /\ MaxAio + n + Submitted = MaxAio  BY <1>1, <1>2 DEF AioUnits
  <2>2. Submitted \in Nat /\ MaxAio \in Nat  BY <1>1, Numbers, IoAssumption
  <2> HIDE DEF n
  <2> QED BY ONLY <2>1, <2>2
<1>4. pending = <<>> /\ events = <<>> /\ inKernel = {}
  <2>1. /\ Len(pending) \in Nat /\ Len(events) \in Nat
        /\ IsFiniteSet(inKernel) /\ Cardinality(inKernel) \in Nat
    BY <1>1, Numbers
  <2>2. Len(pending) = 0 /\ Len(events) = 0 /\ Cardinality(inKernel) = 0
    BY <1>3, <2>1 DEF Submitted
  <2>3. pending \in Seq(Requests) /\ events \in Seq(Requests)
    BY <1>1 DEF Types, IoTypes
  <2> QED BY <2>1, <2>2, <2>3, FS_EmptySet, EmptySeq
<1>5. aioSem.waiters = <<>>  BY <1>1, IoAssumption DEF Sane
<1>6. fairSem.waiters = <<>>
  <2> DEFINE n == Count(tasks, IoTasks)
  <2>1. /\ n = 0 /\ Len(aioSem.waiters) = 0
        /\ fairSem.units + n + Len(aioSem.waiters) + Submitted = Capacity
    BY <1>1, <1>2, <1>5 DEF FairUnits
  <2>2. fairSem.units \in Nat  BY <1>1, Numbers
  <2> HIDE DEF n
  <2>3. fairSem.units = Capacity  BY ONLY <1>3, <2>1, <2>2
  <2> QED BY <1>1, <2>3, IoAssumption DEF Sane
<1>7. \A c \in Classes : queues[c] = <<>>
  <2> DEFINE n == Count(tasks, {ExecuteTask})
  <2>1. /\ n = 0 /\ Len(fairSem.waiters) = 0
        /\ n + Len(fairSem.waiters) = Cardinality(Queued) /\ IsFiniteSet(Queued)
    BY <1>1, <1>2, <1>6 DEF WorkQueued
  <2> HIDE DEF n
  <2>2. Queued = {}  BY <2>1, FS_EmptySet
  <2>3. ASSUME NEW c \in Classes PROVE queues[c] = <<>>
    <3>1. queues[c] \in Seq(Requests)  BY <1>1 DEF Types, IoTypes
    <3>2. Len(queues[c]) \in Nat /\ \A i \in 1 .. Len(queues[c]) : <<c, i>> \in Queued
      BY <3>1 DEF Queued
    <3>3. Len(queues[c]) = 0  BY <2>2, <3>2
    <3> QED BY <3>1, <3>3, EmptySeq
  <2> QED BY <2>3
<1>8. ASSUME NEW r \in Requests PROVE r \in answered <=> r <= arrived
  <2>1. /\ Count(queues[classOf[r]], {r}) = 0
        /\ Count(aioSem.waiters, TasksFor(r)) = 0
        /\ Count(pending, {r}) = 0 /\ Count(events, {r}) = 0
    BY <1>1, <1>4, <1>5, <1>7, RequestNumbers, CountEmpty
  <2>2. Count(tasks, TasksFor(r)) = 0 /\ Indicator(r \in inKernel) = 0
    BY <1>2, <1>4 DEF Indicator
  <2>3. Indicator(r \in answered) \in Nat  BY DEF Indicator
  <2>4. RequestCount(r) = Indicator(r \in answered)
    BY <2>1, <2>2, <2>3 DEF RequestCount, OnItsWay
  <2>5. Indicator(r \in answered) = Indicator(r <= arrived)
    BY <1>1, <2>4 DEF RequestsCounted
  <2>6. r \in answered => Indicator(r \in answered) = 1  BY ONLY DEF Indicator
  <2>7. r \notin answered => Indicator(r \in answered) = 0  BY ONLY DEF Indicator
  <2>8. Indicator(r <= arrived) = IF r <= arrived THEN 1 ELSE 0
    BY ONLY DEF Indicator
  <2> QED BY ONLY <2>5, <2>6, <2>7, <2>8
<1>9. answered \subseteq Requests /\ arrived \in 0 .. MaxRequests
  BY <1>1 DEF Types, IoTypes
<1>10. answered \subseteq 1 .. arrived  BY <1>8, <1>9, IoAssumption DEF Requests
<1>11. 1 .. arrived \subseteq answered
  <2>1. 1 .. arrived \subseteq Requests  BY <1>9, IoAssumption DEF Requests
  <2> QED BY <1>8, <2>1
<1> QED BY <1>10, <1>11

(* The reactor never sleeps over a request (its "aio" poller refuses).     *)
THEOREM NoSleepOverIoHolds == Spec => []NoSleepOverIo
BY InvHolds, NoSleepOverIoFromIInv, PTL

-----------------------------------------------------------------------------
(* The places of a call are as many as the counts say.                     *)
LEMMA RingsCounted ==
    ASSUME Types
    PROVE  /\ InRings \in Seq(Calls) /\ Len(InRings) = WithThread
           /\ \A c \in Calls : Count(InRings, {c}) = InThread(c)
<1> DEFINE a == toThread \o taken
           b == a \o stored
<1>1. /\ toThread \in Seq(Calls) /\ taken \in Seq(Calls)
      /\ stored \in Seq(Calls) /\ completed \in Seq(Calls)
  BY DEF Types, CallTypes
<1>2. a \in Seq(Calls) /\ Len(a) = Len(toThread) + Len(taken)
  BY <1>1, ConcatProperties
<1>3. \A c : Count(a, {c}) = Count(toThread, {c}) + Count(taken, {c})
  BY <1>1, CountConcat
<1>4. InRings = b \o completed  BY DEF InRings
<1> HIDE DEF a
<1>5. b \in Seq(Calls) /\ Len(b) = Len(a) + Len(stored)
  BY <1>1, <1>2, ConcatProperties
<1>6. \A c : Count(b, {c}) = Count(a, {c}) + Count(stored, {c})
  BY <1>1, <1>2, CountConcat
<1> HIDE DEF b
<1>7. InRings \in Seq(Calls) /\ Len(InRings) = Len(b) + Len(completed)
  BY <1>1, <1>4, <1>5, ConcatProperties
<1>8. \A c : Count(InRings, {c}) = Count(b, {c}) + Count(completed, {c})
  BY <1>1, <1>4, <1>5, CountConcat
<1>9. Len(InRings) = WithThread  BY <1>2, <1>5, <1>7 DEF WithThread
<1> QED BY <1>3, <1>6, <1>7, <1>8, <1>9 DEF InThread

(* CallPlaces counts what the invariant counts.                            *)
LEMMA CallPlacesCounted ==
    ASSUME Types, NEW c \in Calls
    PROVE  Cardinality(CallPlaces(c)) = CallCount(c)
<1> DEFINE S0 == Hits(room.waiters, TasksOfCall(c))
           S1 == Hits(tasks, {Task("push", c)})
           S2 == Hits(InRings, {c})
           S3 == Hits(tasks, {Task("return", c)})
           S4 == IF c \in returned THEN {0} ELSE {}
           P0 == {} \union Tagged(0, S0)
           P1 == P0 \union Tagged(1, S1)
           P2 == P1 \union Tagged(2, S2)
           P3 == P2 \union Tagged(3, S3)
           P4 == P3 \union Tagged(4, S4)
<1>1. S2 = {j \in 1 .. Len(InRings) : InRings[j] = c}  BY DEF Hits
<1>2. /\ S1 = {j \in TasksOf("push") : tasks[j].req = c}
      /\ S3 = {j \in TasksOf("return") : tasks[j].req = c}
  BY TasksOfKinds
<1>3. S0 = {j \in 1 .. Len(room.waiters) : room.waiters[j].req = c}
  <2>1. \A j \in 1 .. Len(room.waiters) : room.waiters[j] \in Pushes
    BY DEF Types, CallTypes, Semaphores
  <2>2. \A x \in Pushes : x \in TasksOfCall(c) <=> x.req = c
    BY DEF Pushes, TasksOfCall
  <2> QED BY <2>1, <2>2 DEF Hits
<1>4. Tagged(4, S4) = (IF c \in returned THEN {<<4, 0>>} ELSE {})  BY DEF Tagged
<1>5. IsFiniteSet(S4) /\ Cardinality(S4) = Indicator(c \in returned)
  <2>1. (c \in returned) \in BOOLEAN  OBVIOUS
  <2> QED BY <2>1, OneOrNone
<1> HIDE DEF S0, S1, S2, S3, S4
<1>6. CallPlaces(c) = P4  BY <1>1, <1>2, <1>3, <1>4 DEF CallPlaces, Tagged
<1>7. /\ tasks \in Seq(AnyTask) /\ room.waiters \in Seq(Pushes) /\ InRings \in Seq(Calls)
  BY RingsCounted DEF Types, CallTypes, Semaphores
<1>8. /\ IsFiniteSet(S0) /\ IsFiniteSet(S1) /\ IsFiniteSet(S2) /\ IsFiniteSet(S3)
  BY <1>7, CountType DEF S0, S1, S2, S3
<1> HIDE DEF P0, P1, P2, P3, P4
<1>9. IsFiniteSet({}) /\ Cardinality({}) = 0 /\ TagsBelow({}, 0)
  BY FS_EmptySet DEF TagsBelow
<1>10. /\ IsFiniteSet(P0) /\ Cardinality(P0) = 0 + Cardinality(S0)
       /\ TagsBelow(P0, 1)
  BY <1>8, <1>9, TaggedUnion DEF P0
<1>11. /\ IsFiniteSet(P1) /\ Cardinality(P1) = Cardinality(P0) + Cardinality(S1)
       /\ TagsBelow(P1, 2)
  <2>1. 1 \in Nat /\ 2 = 1 + 1 /\ IsFiniteSet(S1)  BY <1>8
  <2>2. IsFiniteSet(P0) /\ TagsBelow(P0, 1)  BY <1>10
  <2> QED BY ONLY <2>1, <2>2, TaggedUnion DEF P1
<1>12. /\ IsFiniteSet(P2) /\ Cardinality(P2) = Cardinality(P1) + Cardinality(S2)
       /\ TagsBelow(P2, 3)
  <2>1. 2 \in Nat /\ 3 = 2 + 1 /\ IsFiniteSet(S2)  BY <1>8
  <2>2. IsFiniteSet(P1) /\ TagsBelow(P1, 2)  BY <1>11
  <2> QED BY ONLY <2>1, <2>2, TaggedUnion DEF P2
<1>13. /\ IsFiniteSet(P3) /\ Cardinality(P3) = Cardinality(P2) + Cardinality(S3)
       /\ TagsBelow(P3, 4)
  <2>1. 3 \in Nat /\ 4 = 3 + 1 /\ IsFiniteSet(S3)  BY <1>8
  <2>2. IsFiniteSet(P2) /\ TagsBelow(P2, 3)  BY <1>12
  <2> QED BY ONLY <2>1, <2>2, TaggedUnion DEF P3
<1>14. Cardinality(P4) = Cardinality(P3) + Cardinality(S4)
  <2>1. 4 \in Nat /\ 5 = 4 + 1 /\ IsFiniteSet(S4)  BY <1>5
  <2>2. IsFiniteSet(P3) /\ TagsBelow(P3, 4)  BY <1>13
  <2> QED BY ONLY <2>1, <2>2, TaggedUnion DEF P4
<1> DEFINE n0 == Cardinality(S0)
           n1 == Cardinality(S1)
           n2 == Cardinality(S2)
           n3 == Cardinality(S3)
           n4 == Cardinality(S4)
<1>15. n0 \in Nat /\ n1 \in Nat /\ n2 \in Nat /\ n3 \in Nat /\ n4 \in Nat
  BY <1>5, <1>8, FS_CardinalityType
<1>16. Cardinality(P4) = (((0 + n0) + n1) + n2) + n3 + n4
  BY <1>10, <1>11, <1>12, <1>13, <1>14
<1>17. CallCount(c) = n0 + (n1 + n3) + n2 + n4
  <2>1. Count(tasks, TasksOfCall(c)) = n1 + n3  BY CallTaskSum DEF Count, S1, S3
  <2>2. InThread(c) = n2  BY RingsCounted DEF Count, S2
  <2> QED BY <1>5, <2>1, <2>2 DEF CallCount, Count, S0
<1> HIDE DEF n0, n1, n2, n3, n4
<1>18. (((0 + n0) + n1) + n2) + n3 + n4 = n0 + (n1 + n3) + n2 + n4  BY ONLY <1>15
<1> QED BY <1>6, <1>16, <1>17, <1>18

(* The invariant implies CallsExact.                                       *)
LEMMA CallsExactFromIInv == IInv => CallsExact
<1> SUFFICES ASSUME IInv PROVE CallsExact  OBVIOUS
<1>0. Types /\ RoomUnits /\ CallsCounted /\ AtMostOneMissed
  BY DEF IInv, CallParts, Missed
<1>1. Cardinality(TasksOf("push")) = Count(tasks, Pushes)
  BY <1>0, TasksOfKinds DEF Count
<1>2. Len(InRings) = WithThread  BY <1>0, RingsCounted
<1>3. room.units + Cardinality(TasksOf("push")) + Len(InRings) = QueueLength
  BY <1>0, <1>1, <1>2 DEF RoomUnits
<1>4. \A c \in Calls : Cardinality(CallPlaces(c)) = (IF c <= made THEN 1 ELSE 0)
  BY <1>0, CallPlacesCounted DEF CallsCounted, Indicator
<1> QED BY <1>0, <1>3, <1>4 DEF CallsExact, CallsFit

(* The rings to the syscall thread and back never overflow, and the        *)
(* unfenced flag makes the reactor miss at most one finished call, for any *)
(* number of calls and any length of the rings.                            *)
THEOREM CallsExactHolds == Spec => []CallsExact
BY InvHolds, CallsExactFromIInv, PTL

-----------------------------------------------------------------------------
(* The order of two requests r and s of one class, of which r was made     *)
(* first: in no stage is s ahead of r, or in one that follows r's.         *)
InQueue(x) == Has(queues[classOf[x]], x)
ToStart(x) == Has(tasks, Task("start", x))
ForAio(x) == Has(aioSem.waiters, Task("prepare", x))
ToPrepare(x) == Has(tasks, Task("prepare", x))
InBatch(x) == Has(pending, x)
Issued(x) ==
    x \in inKernel \/ Has(events, x) \/ Has(tasks, Task("finally", x)) \/ x \in answered

Prepared(x) == InBatch(x) \/ Issued(x)
HasUnit(x) == ToPrepare(x) \/ Prepared(x)
Started(x) == ForAio(x) \/ HasUnit(x)
Dispatched(x) == ToStart(x) \/ Started(x)

Ordered(r, s) ==
    /\ InQueue(r) => ~Dispatched(s) /\ ~Ahead(queues[classOf[r]], s, r)
    /\ ToStart(r) => ~Started(s) /\ ~Ahead(tasks, Task("start", s), Task("start", r))
    /\ ForAio(r) => /\ ~HasUnit(s)
                    /\ ~Ahead(aioSem.waiters, Task("prepare", s), Task("prepare", r))
    /\ ToPrepare(r) => ~Prepared(s) /\ ~Ahead(tasks, Task("prepare", s), Task("prepare", r))
    /\ InBatch(r) => ~Issued(s) /\ ~Ahead(pending, s, r)

InOrder ==
    \A s \in 1 .. arrived : \A r \in 1 .. s - 1 : classOf[r] = classOf[s] => Ordered(r, s)

(* The tasks of requests.                                                  *)
LEMMA RequestTaskFacts ==
    ASSUME NEW r \in Requests, NEW kind \in {"start", "prepare", "finally"}
    PROVE  /\ Task(kind, r) \in AnyTask /\ Task(kind, r) # ExecuteTask
           /\ Task(kind, r) \notin CallTasks /\ Task(kind, r) \notin {ExecuteTask}
           /\ \A s, other : Task(kind, r) = Task(other, s) <=> kind = other /\ r = s
BY TaskFacts DEF Task

(* What has no task of a request does not change the order of tasks.       *)
LEMMA TasksOrder ==
    ASSUME Types, NEW more \in Seq(AnyTask),
           \/ tasks' = tasks \o more
           \/ tasks # <<>> /\ tasks' = Tail(tasks) \o more,
           NEW x, NEW y
    PROVE  /\ Has(tasks', x) => Has(tasks, x) \/ Has(more, x)
           /\ Ahead(tasks', x, y) =>
                  Ahead(tasks, x, y) \/ Ahead(more, x, y) \/ (Has(tasks, x) /\ Has(more, y))
<1>1. tasks \in Seq(AnyTask)  BY DEF Types
<1>2. CASE tasks' = tasks \o more  BY <1>1, <1>2, HasConcat
<1>3. CASE tasks # <<>> /\ tasks' = Tail(tasks) \o more
  <2>1. Tail(tasks) \in Seq(AnyTask)  BY <1>1, <1>3, HeadThenTail
  <2>2. /\ Has(tasks', x) => Has(Tail(tasks), x) \/ Has(more, x)
        /\ Ahead(tasks', x, y) =>
               \/ Ahead(Tail(tasks), x, y) \/ Ahead(more, x, y)
               \/ (Has(Tail(tasks), x) /\ Has(more, y))
    BY <1>3, <2>1, HasConcat
  <2>3. /\ Has(Tail(tasks), x) => Has(tasks, x)
        /\ Ahead(Tail(tasks), x, y) => Ahead(tasks, x, y)
    BY <1>1, <1>3, HasHead
  <2> QED BY <2>2, <2>3
<1> QED BY <1>2, <1>3

(* Steps that bring no task of a request and move none.                    *)
LEMMA OrderStays ==
    ASSUME Types, NEW r \in Requests, NEW s \in Requests, Ordered(r, s),
           NEW more \in Seq(AnyTask),
           \A kind \in {"start", "prepare", "finally"}, x \in Requests : ~Has(more, Task(kind, x)),
           \/ tasks' = tasks \o more
           \/ tasks # <<>> /\ tasks' = Tail(tasks) \o more,
           UNCHANGED <<classOf, aioSem, pending>>, Issued(s)' => Issued(s),
           InQueue(r)' => InQueue(r),
           Ahead(queues'[classOf[r]], s, r) => Ahead(queues[classOf[r]], s, r)
    PROVE  Ordered(r, s)'
<1>1. \A kind \in {"start", "prepare", "finally"}, x \in Requests :
          Has(tasks', Task(kind, x)) => Has(tasks, Task(kind, x))
  BY TasksOrder
<1>2. \A kind \in {"start", "prepare", "finally"}, x, y \in Requests :
          Ahead(tasks', Task(kind, x), Task(kind, y)) => Ahead(tasks, Task(kind, x), Task(kind, y))
  <2>1. ASSUME NEW kind \in {"start", "prepare", "finally"}, NEW x \in Requests,
               NEW y \in Requests,
               Ahead(tasks', Task(kind, x), Task(kind, y))
        PROVE  Ahead(tasks, Task(kind, x), Task(kind, y))
    <3>1. ~Has(more, Task(kind, x)) /\ ~Has(more, Task(kind, y))  OBVIOUS
    <3>2. ~Ahead(more, Task(kind, x), Task(kind, y))  BY <3>1 DEF Ahead, Has
    <3> QED BY <2>1, <3>1, <3>2, TasksOrder
  <2> QED BY <2>1
<1>3. /\ \A x \in Requests : ToStart(x)' => ToStart(x)
      /\ \A x \in Requests : ToPrepare(x)' => ToPrepare(x)
  BY <1>1 DEF ToStart, ToPrepare
<1>4. /\ \A x : ForAio(x)' <=> ForAio(x)
      /\ \A x : InBatch(x)' <=> InBatch(x)
      /\ UNCHANGED <<aioSem, pending, classOf>>
  BY DEF ForAio, InBatch
<1>5. Issued(s)' => Issued(s)  OBVIOUS
<1>6. Prepared(s)' => Prepared(s)  BY <1>4, <1>5 DEF Prepared
<1>7. HasUnit(s)' => HasUnit(s)  BY <1>3, <1>6 DEF HasUnit
<1>8. Started(s)' => Started(s)  BY <1>4, <1>7 DEF Started
<1>9. Dispatched(s)' => Dispatched(s)  BY <1>3, <1>8 DEF Dispatched
<1>10. /\ Ahead(tasks', Task("start", s), Task("start", r)) =>
              Ahead(tasks, Task("start", s), Task("start", r))
       /\ Ahead(tasks', Task("prepare", s), Task("prepare", r)) =>
              Ahead(tasks, Task("prepare", s), Task("prepare", r))
  BY <1>2
<1> QED BY <1>3, <1>4, <1>5, <1>6, <1>7, <1>8, <1>9, <1>10 DEF Ordered

(* ... and issue none.                                                     *)
LEMMA OrderFrame ==
    ASSUME Types, NEW r \in Requests, NEW s \in Requests, Ordered(r, s),
           NEW more \in Seq(AnyTask),
           \A kind \in {"start", "prepare", "finally"}, x \in Requests : ~Has(more, Task(kind, x)),
           \/ tasks' = tasks \o more
           \/ tasks # <<>> /\ tasks' = Tail(tasks) \o more,
           UNCHANGED <<classVars, aioSem, kernelVars, answered>>
    PROVE  Ordered(r, s)'
<1>1. UNCHANGED <<classOf, queues, aioSem, pending, inKernel, events, answered>>
  BY DEF classVars, kernelVars
<1>2. Has(tasks', Task("finally", s)) => Has(tasks, Task("finally", s))
  BY TasksOrder
<1>3. Issued(s)' => Issued(s)  BY <1>1, <1>2 DEF Issued
<1>4. InQueue(r)' => InQueue(r)  BY <1>1 DEF InQueue
<1> QED BY <1>1, <1>3, <1>4, OrderStays

(* One task runs and brings one.                                           *)
LEMMA OneTaskMore ==
    ASSUME Types, tasks # <<>>, NEW t \in AnyTask, NEW more, more \in {<<>>, <<t>>},
           tasks' = Tail(tasks) \o more, NEW x, NEW y
    PROVE  /\ Has(tasks', x) => Has(tasks, x) \/ (more = <<t>> /\ x = t)
           /\ Ahead(tasks', x, y) => Ahead(tasks, x, y) \/ (more = <<t>> /\ y = t /\ Has(tasks, x))
           /\ Has(tasks', x) => Ahead(tasks, Head(tasks), x) \/ (more = <<t>> /\ x = t)
<1>1. more \in Seq(AnyTask)
  <2>1. <<>> \in Seq(AnyTask) /\ <<t>> \in Seq(AnyTask)  OBVIOUS
  <2> QED BY <2>1
<1>2. \A v, w : (Has(more, v) => more = <<t>> /\ v = t) /\ ~Ahead(more, v, w)
  BY HasOne, HasNone
<1>3. tasks \in Seq(AnyTask) /\ Tail(tasks) \in Seq(AnyTask)
  BY HeadThenTail DEF Types
<1>4. Has(tasks', x) => Has(Tail(tasks), x) \/ Has(more, x)
  BY <1>1, <1>3, HasConcat
<1>5. Has(Tail(tasks), x) => Ahead(tasks, Head(tasks), x)  BY <1>3, HasHead
<1> QED BY <1>1, <1>2, <1>4, <1>5, TasksOrder

(* The queue of a class from which the first request is taken.             *)
LEMMA QueueHead ==
    ASSUME Types, NEW c \in Classes, queues[c] # <<>>,
           queues' = [queues EXCEPT ![c] = Tail(@)], classOf' = classOf,
           NEW h, h = Head(queues[c]), NEW r \in Requests, NEW s
    PROVE  /\ h \in Requests /\ InQueue(h) /\ classOf[h] = c
           /\ Has(queues'[classOf[r]], r) =>
                  InQueue(r) /\ (classOf[r] = c => Ahead(queues[c], h, r))
           /\ Ahead(queues'[classOf[r]], s, r) => Ahead(queues[classOf[r]], s, r)
<1>1. /\ queues \in [Classes -> Seq(Requests)] /\ classOf[r] \in Classes
      /\ queues[c] \in Seq(Requests)
      /\ \A d \in Classes : \A i \in 1 .. Len(queues[d]) : classOf[queues[d][i]] = d
  BY DEF Types, IoTypes
<1>2. h \in Requests /\ h = queues[c][1] /\ Len(queues[c]) \in Nat /\ Len(queues[c]) > 0
  BY <1>1, HeadThenTail
<1>3. 1 \in 1 .. Len(queues[c]) /\ classOf[h] = c  BY <1>1, <1>2
<1>4. InQueue(h)  BY <1>2, <1>3 DEF InQueue, Has
<1>5. CASE classOf[r] = c
  <2>1. queues'[c] = Tail(queues[c])  BY <1>1
  <2> QED BY <1>1, <1>2, <1>3, <1>4, <1>5, <2>1, HasHead DEF InQueue
<1>6. CASE classOf[r] # c
  <2>1. queues'[classOf[r]] = queues[classOf[r]]  BY <1>1, <1>6
  <2> QED BY <1>2, <1>3, <1>4, <1>6, <2>1 DEF InQueue
<1> QED BY <1>5, <1>6

(* A dispatcher takes the oldest request of its class.                     *)
LEMMA ExecuteOrder ==
    ASSUME Types, NEW r \in Requests, NEW s \in Requests, classOf[r] = classOf[s],
           Ordered(r, s), NEW c \in Classes, Execute(c)
    PROVE  Ordered(r, s)'
<1>h. PICK h : h = Head(queues[c])  OBVIOUS
<1>1. /\ NextTask("execute") /\ queues[c] # <<>>
      /\ tasks' = Append(Tail(tasks), Task("start", h))
      /\ queues' = [queues EXCEPT ![c] = Tail(@)]
      /\ UNCHANGED <<classOf, aioSem, pending, inKernel, events, answered>>
  BY <1>h DEF Execute, kernelVars
<1>2. tasks # <<>>  BY <1>1, TaskThatRuns
<1>3. /\ h \in Requests /\ InQueue(h) /\ classOf[h] = c
      /\ InQueue(r)' => InQueue(r) /\ (classOf[r] = c => Ahead(queues[c], h, r))
  <2>1. /\ h \in Requests /\ InQueue(h) /\ classOf[h] = c
        /\ Has(queues'[classOf[r]], r) =>
               InQueue(r) /\ (classOf[r] = c => Ahead(queues[c], h, r))
    BY <1>h, <1>1, QueueHead
  <2> QED BY <1>1, <2>1 DEF InQueue
<1>4. Ahead(queues'[classOf[r]], s, r) => Ahead(queues[classOf[r]], s, r)
  BY <1>h, <1>1, QueueHead
<1>t. PICK t : t = Task("start", h)  OBVIOUS
<1>5. t \in AnyTask /\ tasks' = Tail(tasks) \o <<t>>
  <2>1. t \in AnyTask /\ Tail(tasks) \in Seq(AnyTask)
    BY <1>2, <1>3, <1>t, RequestTaskFacts, HeadThenTail DEF Types
  <2> QED BY <1>1, <1>t, <2>1, AppendIsConcat
<1>6. \A x, y : /\ Has(tasks', x) => Has(tasks, x) \/ x = Task("start", h)
                /\ Ahead(tasks', x, y) =>
                       Ahead(tasks, x, y) \/ (y = Task("start", h) /\ Has(tasks, x))
  BY <1>2, <1>5, <1>t, OneTaskMore
<1>7. \A x \in Requests, kind \in {"start", "prepare", "finally"} :
          Task(kind, x) = Task("start", h) <=> kind = "start" /\ x = h
  BY RequestTaskFacts
<1>8. \A x \in Requests : /\ ToStart(x)' => ToStart(x) \/ x = h
                          /\ ToPrepare(x)' => ToPrepare(x)
                          /\ ForAio(x)' <=> ForAio(x)
                          /\ InBatch(x)' <=> InBatch(x)
                          /\ Issued(x)' => Issued(x)
  BY <1>1, <1>6, <1>7 DEF ToStart, ToPrepare, ForAio, InBatch, Issued
<1>9. \A x \in Requests : /\ Prepared(x)' => Prepared(x)
                          /\ HasUnit(x)' => HasUnit(x)
                          /\ Started(x)' => Started(x)
                          /\ Dispatched(x)' => Dispatched(x) \/ x = h
  BY <1>8 DEF Prepared, HasUnit, Started, Dispatched
<1>10. /\ Ahead(tasks', Task("start", s), Task("start", r)) =>
              Ahead(tasks, Task("start", s), Task("start", r)) \/ (r = h /\ ToStart(s))
       /\ Ahead(tasks', Task("prepare", s), Task("prepare", r)) =>
              Ahead(tasks, Task("prepare", s), Task("prepare", r))
  BY <1>6, <1>7 DEF ToStart
<1>11. Ahead(tasks, Task("start", s), Task("start", r)) => ToStart(s)
  BY AheadHas DEF ToStart
<1>12. ToStart(s) => Dispatched(s)  BY DEF Dispatched
<1>13. Started(s) => Dispatched(s)  BY DEF Dispatched
<1>14. InQueue(r)' => ~Dispatched(s)' /\ ~Ahead(queues'[classOf[r]], s, r)
  BY <1>3, <1>4, <1>9 DEF Ordered
<1>15. ToStart(r)' => ~Started(s)' /\ ~Ahead(tasks', Task("start", s), Task("start", r))
  BY <1>3, <1>8, <1>9, <1>10, <1>11, <1>12, <1>13 DEF Ordered
<1> QED BY <1>1, <1>8, <1>9, <1>10, <1>14, <1>15 DEF Ordered

(* A request that comes to the wait for the aio context is behind the others.*)
LEMMA StartOrder ==
    ASSUME IInv, NEW r \in Requests, NEW s \in Requests, r # s, Ordered(r, s), Start
    PROVE  Ordered(r, s)'
<1>h. PICK h, w : h = Head(tasks).req /\ w = Task("prepare", h)  OBVIOUS
<1>0. Types /\ Sane(aioSem)  BY DEF IInv, Resting
<1>1. /\ NextTask("start")
      /\ aioSem' = AfterWait(aioSem, w)
      /\ tasks' = Tail(tasks) \o ReadyAfterWait(aioSem, w)
      /\ UNCHANGED <<classOf, queues, pending, inKernel, events, answered>>
  BY <1>h DEF Start, kernelVars, classVars
<1>2. tasks # <<>> /\ h \in Requests /\ Head(tasks) = Task("start", h)
  BY <1>h, <1>0, <1>1, TaskThatRuns
<1>3. w \in Prepares /\ w \in AnyTask  BY <1>h, <1>2, RequestTaskFacts, TaskFacts
<1>4. aioSem \in Semaphores(Prepares) /\ aioSem.waiters \in Seq(Prepares)
  BY <1>0 DEF Types, IoTypes, Semaphores
<1>5. ToStart(h)
  <2>1. tasks \in Seq(AnyTask)  BY <1>0 DEF Types
  <2> QED BY <1>2, <2>1, HasHead DEF ToStart
<1>6. \A x \in Requests, kind \in {"start", "prepare", "finally"} :
          Task(kind, x) = w <=> kind = "prepare" /\ x = h
  BY <1>h, RequestTaskFacts
<1>p. PICK more : more = ReadyAfterWait(aioSem, w)  OBVIOUS
<1>7. more \in {<<>>, <<w>>} /\ tasks' = Tail(tasks) \o more
  BY <1>1, <1>3, <1>4, <1>p, WaitSem
<1>8. \A x, y : /\ Has(tasks', x) => Has(tasks, x) \/ (more = <<w>> /\ x = w)
                /\ Ahead(tasks', x, y) =>
                       Ahead(tasks, x, y) \/ (more = <<w>> /\ y = w /\ Has(tasks, x))
                /\ Has(tasks', x) => Ahead(tasks, Head(tasks), x) \/ (more = <<w>> /\ x = w)
  BY <1>0, <1>2, <1>3, <1>7, OneTaskMore
<1>9. \A x \in Requests :
          /\ ToStart(x)' => ToStart(x) /\ Ahead(tasks, Task("start", h), Task("start", x))
          /\ ToPrepare(x)' => ToPrepare(x) \/ (more = <<w>> /\ x = h)
          /\ InBatch(x)' <=> InBatch(x)
          /\ Issued(x)' => Issued(x)
          /\ InQueue(x)' <=> InQueue(x)
  BY <1>1, <1>2, <1>6, <1>8 DEF ToStart, ToPrepare, InBatch, Issued, InQueue
<1>10. /\ Ahead(tasks', Task("start", s), Task("start", r)) =>
              Ahead(tasks, Task("start", s), Task("start", r))
       /\ Ahead(tasks', Task("prepare", s), Task("prepare", r)) =>
              \/ Ahead(tasks, Task("prepare", s), Task("prepare", r))
              \/ (r = h /\ ToPrepare(s))
  BY <1>6, <1>8 DEF ToPrepare
<1>11. /\ more = <<w>> => aioSem'.waiters = aioSem.waiters /\ aioSem.waiters = <<>>
       /\ more # <<w>> => aioSem'.waiters = Append(aioSem.waiters, w)
  <2>1. \/ more = <<w>> /\ aioSem'.waiters = aioSem.waiters /\ aioSem.waiters = <<>>
        \/ more = <<>> /\ aioSem'.waiters = Append(aioSem.waiters, w)
    BY <1>1, <1>3, <1>4, <1>p, WaitSem
  <2>2. <<>> # <<w>>  OBVIOUS
  <2> QED BY <2>1, <2>2
<1>12. /\ \A x \in Requests : ForAio(x)' => ForAio(x) \/ (more # <<w>> /\ x = h)
       /\ more = <<w>> => ~ForAio(r) /\ ~ForAio(s)
       /\ Ahead(aioSem'.waiters, Task("prepare", s), Task("prepare", r)) =>
              \/ Ahead(aioSem.waiters, Task("prepare", s), Task("prepare", r))
              \/ (r = h /\ ForAio(s))
  <2>1. CASE more = <<w>>  BY <1>11, <2>1, HasNone DEF ForAio
  <2>2. CASE more # <<w>>
    <3>1. \A x, y : /\ Has(Append(aioSem.waiters, w), x) <=> Has(aioSem.waiters, x) \/ x = w
                    /\ Ahead(Append(aioSem.waiters, w), x, y) <=>
                           Ahead(aioSem.waiters, x, y) \/ (Has(aioSem.waiters, x) /\ y = w)
      BY <1>3, <1>4, HasAppend
    <3>2. aioSem'.waiters = Append(aioSem.waiters, w)  BY <1>11, <2>2
    <3> QED BY <1>6, <2>2, <3>1, <3>2 DEF ForAio
  <2> QED BY <2>1, <2>2
<1>13. \A x \in Requests :
           /\ Prepared(x)' => Prepared(x)
           /\ HasUnit(x)' => HasUnit(x) \/ (more = <<w>> /\ x = h)
           /\ Started(x)' => Started(x) \/ x = h
           /\ Dispatched(x)' => Dispatched(x) \/ x = h
  BY <1>9, <1>12 DEF Prepared, HasUnit, Started, Dispatched
<1>14. /\ ToStart(s) => Dispatched(s)
       /\ Prepared(s) => HasUnit(s)
       /\ HasUnit(s) \/ ForAio(s) \/ ToPrepare(s) => Started(s)
  BY DEF Dispatched, HasUnit, Started
<1>15. /\ Ahead(tasks, Task("prepare", s), Task("prepare", r)) => ToPrepare(s) /\ ToPrepare(r)
       /\ Ahead(aioSem.waiters, Task("prepare", s), Task("prepare", r)) => ForAio(s) /\ ForAio(r)
  BY AheadHas DEF ToPrepare, ForAio
<1>16. InQueue(r)' => ~Dispatched(s)' /\ ~Ahead(queues'[classOf[r]], s, r)
  BY <1>1, <1>5, <1>9, <1>13, <1>14 DEF Ordered
<1>17. ToStart(r)' => ~Started(s)' /\ ~Ahead(tasks', Task("start", s), Task("start", r))
  BY <1>9, <1>10, <1>13 DEF Ordered
<1>18. ForAio(r)' => /\ ~HasUnit(s)'
                     /\ ~Ahead(aioSem'.waiters, Task("prepare", s), Task("prepare", r))
  BY <1>5, <1>9, <1>12, <1>13, <1>14, <1>15 DEF Ordered, Started
<1>19. ToPrepare(r)' =>
           /\ ~Prepared(s)'
           /\ ~Ahead(tasks', Task("prepare", s), Task("prepare", r))
  BY <1>5, <1>9, <1>10, <1>13, <1>14, <1>15 DEF Ordered, HasUnit, Started
<1> QED BY <1>1, <1>9, <1>16, <1>17, <1>18, <1>19 DEF Ordered

(* ... and so is one that joins the batch.                                 *)
LEMMA PrepareOrder ==
    ASSUME Types, NEW r \in Requests, NEW s \in Requests, r # s, Ordered(r, s), Prepare
    PROVE  Ordered(r, s)'
<1>h. PICK h : h = Head(tasks).req  OBVIOUS
<1>1. /\ NextTask("prepare") /\ pending' = Append(pending, h) /\ tasks' = Tail(tasks)
      /\ UNCHANGED <<classOf, queues, aioSem, inKernel, events, answered>>
  BY <1>h DEF Prepare, classVars
<1>2. tasks # <<>> /\ h \in Requests /\ Head(tasks) = Task("prepare", h)
  BY <1>h, <1>1, TaskThatRuns
<1>3. tasks \in Seq(AnyTask) /\ pending \in Seq(Requests)  BY DEF Types, IoTypes
<1>4. ToPrepare(h)  BY <1>2, <1>3, HasHead DEF ToPrepare
<1>5. \A x, y : /\ Has(tasks', x) => Has(tasks, x) /\ Ahead(tasks, Task("prepare", h), x)
                /\ Ahead(tasks', x, y) => Ahead(tasks, x, y)
  BY <1>1, <1>2, <1>3, HasHead
<1>6. \A x, y : /\ Has(pending', x) <=> Has(pending, x) \/ x = h
                /\ Ahead(pending', x, y) <=> Ahead(pending, x, y) \/ (Has(pending, x) /\ y = h)
  <2>1. \A x, y : /\ Has(Append(pending, h), x) <=> Has(pending, x) \/ x = h
                  /\ Ahead(Append(pending, h), x, y) <=>
                         Ahead(pending, x, y) \/ (Has(pending, x) /\ y = h)
    BY <1>2, <1>3, HasAppend
  <2> QED BY <1>1, <2>1
<1>7. \A x \in Requests :
          /\ ToStart(x)' => ToStart(x)
          /\ ToPrepare(x)' => ToPrepare(x) /\ Ahead(tasks, Task("prepare", h), Task("prepare", x))
          /\ InBatch(x)' <=> InBatch(x) \/ x = h
          /\ Issued(x)' => Issued(x)
          /\ ForAio(x)' <=> ForAio(x)
          /\ InQueue(x)' <=> InQueue(x)
  BY <1>1, <1>5, <1>6 DEF ToStart, ToPrepare, InBatch, Issued, InQueue, ForAio
<1>8. \A x \in Requests : /\ Prepared(x)' => Prepared(x) \/ x = h
                          /\ HasUnit(x)' => HasUnit(x)
                          /\ Started(x)' => Started(x)
                          /\ Dispatched(x)' => Dispatched(x)
  BY <1>4, <1>7 DEF Prepared, HasUnit, Started, Dispatched
<1>9. Ahead(pending, s, r) => InBatch(s) /\ InBatch(r)  BY AheadHas DEF InBatch
<1>10. ToPrepare(r)' =>
           /\ ~Prepared(s)'
           /\ ~Ahead(tasks', Task("prepare", s), Task("prepare", r))
  BY <1>5, <1>7, <1>8 DEF Ordered
<1>11. InBatch(r)' => ~Issued(s)' /\ ~Ahead(pending', s, r)
  BY <1>4, <1>6, <1>7, <1>9 DEF Ordered, Prepared, InBatch
<1> QED BY <1>1, <1>5, <1>7, <1>8, <1>10, <1>11 DEF Ordered

(* The dispatchers that an answer wakes are tasks of no request.           *)
LEMMA FinallyOrder ==
    ASSUME Types, NEW r \in Requests, NEW s \in Requests, Ordered(r, s), Finally
    PROVE  Ordered(r, s)'
<1>h. PICK h, more : h = Head(tasks).req /\ more = Granted(fairSem, 1)  OBVIOUS
<1>1. /\ NextTask("finally") /\ tasks' = Tail(tasks) \o more
      /\ answered' = answered \union {h}
      /\ UNCHANGED <<classOf, queues, aioSem, pending, inKernel, events>>
  BY <1>h DEF Finally, classVars, kernelVars
<1>2. tasks # <<>> /\ Head(tasks) = Task("finally", h)  BY <1>h, <1>1, TaskThatRuns
<1>3. more \in Seq({ExecuteTask}) /\ more \in Seq(AnyTask) /\ tasks \in Seq(AnyTask)
  <2>1. fairSem \in Semaphores({ExecuteTask}) /\ tasks \in Seq(AnyTask)
    BY DEF Types, IoTypes
  <2>2. more \in Seq({ExecuteTask})  BY <1>h, <2>1, SignalSem
  <2> QED BY <2>1, <2>2, Kinds, SeqMonotonic
<1>4. \A kind \in {"start", "prepare", "finally"}, x \in Requests : ~Has(more, Task(kind, x))
  BY <1>3, HasOf, RequestTaskFacts
<1>5. Has(tasks', Task("finally", s)) => Has(tasks, Task("finally", s))
  BY <1>1, <1>2, <1>3, <1>4, TasksOrder
<1>6. Has(tasks, Task("finally", h))  BY <1>2, <1>3, HasHead
<1>7. Issued(s)' => Issued(s)  BY <1>1, <1>5, <1>6 DEF Issued
<1>8. InQueue(r)' => InQueue(r)  BY <1>1 DEF InQueue
<1> QED BY <1>1, <1>2, <1>3, <1>4, <1>7, <1>8, OrderStays

(* A batch is issued, or units of the aio context are handed on.           *)
LEMMA IssueOrder ==
    ASSUME Types, NEW r \in Requests, NEW s \in Requests, Ordered(r, s),
           NEW done \in Seq(AnyTask), NEW granted \in Seq(Prepares),
           \A kind \in {"start", "prepare"}, x \in Requests : ~Has(done, Task(kind, x)),
           tasks' = (tasks \o done) \o granted,
           aioSem'.waiters \in Seq(Prepares), aioSem.waiters = granted \o aioSem'.waiters,
           UNCHANGED <<classOf, queues>>,
           \A x \in {r, s} : Has(pending', x) => Has(pending, x),
           Ahead(pending', s, r) => Ahead(pending, s, r),
           Issued(s)' => Issued(s) \/ (InBatch(s) /\ (InBatch(r)' => Ahead(pending, s, r)))
    PROVE  Ordered(r, s)'
<1> DEFINE left == aioSem'.waiters
           first == tasks \o done
<1>1. tasks \in Seq(AnyTask) /\ granted \in Seq(AnyTask) /\ first \in Seq(AnyTask)
  <2>1. tasks \in Seq(AnyTask) /\ granted \in Seq(AnyTask)
    BY Kinds, SeqMonotonic DEF Types
  <2> QED BY <2>1, ConcatProperties
<1>2. \A x, y : /\ Has(first, x) <=> Has(tasks, x) \/ Has(done, x)
                /\ Ahead(first, x, y) <=>
                       Ahead(tasks, x, y) \/ Ahead(done, x, y) \/ (Has(tasks, x) /\ Has(done, y))
  BY <1>1, HasConcat
<1> HIDE DEF first
<1>3. \A x, y : /\ Has(tasks', x) <=> Has(first, x) \/ Has(granted, x)
                /\ Ahead(tasks', x, y) <=>
                       \/ Ahead(first, x, y) \/ Ahead(granted, x, y)
                       \/ (Has(first, x) /\ Has(granted, y))
  <2>1. \A x, y : /\ Has(first \o granted, x) <=> Has(first, x) \/ Has(granted, x)
                  /\ Ahead(first \o granted, x, y) <=>
                         \/ Ahead(first, x, y) \/ Ahead(granted, x, y)
                         \/ (Has(first, x) /\ Has(granted, y))
    BY <1>1, HasConcat
  <2> QED BY <2>1 DEF first
<1>4. \A x, y : /\ Has(aioSem.waiters, x) <=> Has(granted, x) \/ Has(left, x)
                /\ Ahead(aioSem.waiters, x, y) <=>
                       \/ Ahead(granted, x, y) \/ Ahead(left, x, y)
                       \/ (Has(granted, x) /\ Has(left, y))
  <2> HIDE DEF left
  <2>1. left \in Seq(Prepares) /\ aioSem.waiters = granted \o left  BY DEF left
  <2>2. \A x, y : /\ Has(granted \o left, x) <=> Has(granted, x) \/ Has(left, x)
                  /\ Ahead(granted \o left, x, y) <=>
                         \/ Ahead(granted, x, y) \/ Ahead(left, x, y)
                         \/ (Has(granted, x) /\ Has(left, y))
    BY <2>1, HasConcat
  <2> QED BY <2>1, <2>2
<1>5. \A x \in Requests : ~Has(granted, Task("start", x))
  <2>1. \A x \in Requests : Task("start", x) \notin Prepares  BY TaskFacts
  <2> QED BY <2>1, HasOf
<1>6. \A x \in Requests : /\ ~Has(done, Task("start", x)) /\ ~Has(done, Task("prepare", x))
                          /\ \A y : ~Ahead(done, Task("start", x), y)
                          /\ \A y : ~Ahead(done, Task("prepare", x), y)
                          /\ \A y : ~Ahead(granted, Task("start", x), y)
  BY <1>5, AheadHas
<1>7. \A x \in Requests :
          /\ ToStart(x)' => ToStart(x)
          /\ ToPrepare(x)' => ToPrepare(x) \/ Has(granted, Task("prepare", x))
          /\ ForAio(x)' => ForAio(x)
          /\ Has(granted, Task("prepare", x)) => ForAio(x)
  BY <1>2, <1>3, <1>4, <1>5, <1>6 DEF ToStart, ToPrepare, ForAio
<1>8. /\ InQueue(r)' => InQueue(r)
      /\ \A x \in {r, s} : InBatch(x)' => InBatch(x)
  BY DEF InQueue, InBatch
<1>9. /\ Ahead(tasks', Task("start", s), Task("start", r)) =>
             Ahead(tasks, Task("start", s), Task("start", r))
      /\ Ahead(tasks', Task("prepare", s), Task("prepare", r)) =>
             \/ Ahead(tasks, Task("prepare", s), Task("prepare", r))
             \/ Ahead(aioSem.waiters, Task("prepare", s), Task("prepare", r))
             \/ (ToPrepare(s) /\ Has(granted, Task("prepare", r)))
  BY <1>2, <1>3, <1>4, <1>5, <1>6 DEF ToPrepare
<1>10. /\ Prepared(s)' => Prepared(s)
       /\ HasUnit(s)' => HasUnit(s) \/ Has(granted, Task("prepare", s))
       /\ Started(s)' => Started(s)
       /\ Dispatched(s)' => Dispatched(s)
  <2>1. Prepared(s)' => Prepared(s)  BY <1>8 DEF Prepared
  <2>2. HasUnit(s)' => HasUnit(s) \/ Has(granted, Task("prepare", s))
    BY <1>7, <2>1 DEF HasUnit
  <2>3. Started(s)' => Started(s)  BY <1>7, <2>2 DEF Started
  <2>4. Dispatched(s)' => Dispatched(s)  BY <1>7, <2>3 DEF Dispatched
  <2> QED BY <2>1, <2>2, <2>3, <2>4
<1>11. /\ Ahead(aioSem.waiters, Task("prepare", s), Task("prepare", r)) => ForAio(s) /\ ForAio(r)
       /\ Ahead(tasks, Task("prepare", s), Task("prepare", r)) => ToPrepare(s) /\ ToPrepare(r)
       /\ Ahead(pending, s, r) => InBatch(s) /\ InBatch(r)
  BY AheadHas DEF ForAio, ToPrepare, InBatch
<1>12. InQueue(r)' => ~Dispatched(s)' /\ ~Ahead(queues'[classOf[r]], s, r)
  BY <1>8, <1>10 DEF Ordered
<1>13. ToStart(r)' => ~Started(s)' /\ ~Ahead(tasks', Task("start", s), Task("start", r))
  BY <1>7, <1>9, <1>10 DEF Ordered
<1>14. ForAio(r)' => /\ ~HasUnit(s)'
                     /\ ~Ahead(left, Task("prepare", s), Task("prepare", r))
  BY <1>4, <1>7, <1>10 DEF Ordered, ForAio
<1>15. ToPrepare(r)' =>
           /\ ~Prepared(s)'
           /\ ~Ahead(tasks', Task("prepare", s), Task("prepare", r))
  <2>1. ToPrepare(r) => ~Prepared(s)  BY DEF Ordered
  <2>2. ForAio(r) => /\ ~Prepared(s) /\ ~ToPrepare(s)
                     /\ ~Ahead(aioSem.waiters, Task("prepare", s), Task("prepare", r))
    BY DEF Ordered, HasUnit
  <2>3. ToPrepare(r) => ~Ahead(tasks, Task("prepare", s), Task("prepare", r))
    BY DEF Ordered
  <2> QED BY <1>7, <1>9, <1>10, <1>11, <2>1, <2>2, <2>3
<1>16. InBatch(r)' => ~Issued(s)' /\ ~Ahead(pending', s, r)  BY <1>8 DEF Ordered
<1> QED BY <1>12, <1>13, <1>14, <1>15, <1>16 DEF Ordered

(* The answers of requests that the kernel has completed.                  *)
LEMMA FinallysHas ==
    ASSUME NEW rs \in Seq(Requests)
    PROVE  /\ Finallys(rs) \in Seq(AnyTask)
           /\ \A kind \in {"start", "prepare"}, x \in Requests : ~Has(Finallys(rs), Task(kind, x))
           /\ \A x \in Requests : Has(Finallys(rs), Task("finally", x)) => Has(rs, x)
<1> DEFINE fs == Finallys(rs)
<1>1. Finallys(rs) \in Seq(AnyTask)  BY FinallysCount
<1>2. /\ Len(rs) \in Nat /\ Len(fs) = Len(rs)
      /\ \A i \in 1 .. Len(rs) : rs[i] \in Requests /\ fs[i] = Task("finally", rs[i])
  BY ElementOfSeq DEF Finallys
<1> HIDE DEF fs
<1>3. ASSUME NEW kind \in {"start", "prepare", "finally"}, NEW x \in Requests, Has(fs, Task(kind, x))
      PROVE  kind = "finally" /\ Has(rs, x)
  <2>1. PICK i \in 1 .. Len(rs) : fs[i] = Task(kind, x)  BY <1>2, <1>3 DEF Has
  <2>2. kind = "finally" /\ rs[i] = x  BY <1>2, <2>1, RequestTaskFacts
  <2> QED BY <2>2 DEF Has
<1> QED BY <1>1, <1>3 DEF fs

(* process_io() answers requests and grants units, oldest waiter first.    *)
LEMMA PollIoOrder ==
    ASSUME Types, NEW r \in Requests, NEW s \in Requests, Ordered(r, s), PollIo
    PROVE  Ordered(r, s)'
<1> DEFINE n == IF Len(events) <= MaxAio THEN Len(events) ELSE MaxAio
           front == SubSeq(events, 1, n)
           done == Finallys(front)
           more == Granted(aioSem, n)
           none == <<>>
<1>1. /\ tasks = none
      /\ tasks' = done \o more /\ aioSem' = AfterSignal(aioSem, n)
      /\ events' = SubSeq(events, n + 1, Len(events))
      /\ UNCHANGED <<classOf, queues, pending, inKernel, answered>>
  BY DEF PollIo, classVars
<1>2. n \in 0 .. Len(events) /\ n \in Nat  BY Numbers, IoAssumption
<1> HIDE DEF n
<1>3. events \in Seq(Requests) /\ aioSem \in Semaphores(Prepares)
  BY DEF Types, IoTypes
<1>4. front \in Seq(Requests) /\ events' \in Seq(Requests) /\ events = front \o events'
  BY <1>1, <1>2, <1>3, HasParts
<1>5. Has(front, s) \/ Has(events', s) => Has(events, s)
  <2> HIDE DEF front
  <2>1. Has(front \o events', s) <=> Has(front, s) \/ Has(events', s)
    BY <1>4, HasConcat
  <2> QED BY <1>4, <2>1
<1>6. /\ done \in Seq(AnyTask)
      /\ \A kind \in {"start", "prepare"}, x \in Requests : ~Has(done, Task(kind, x))
      /\ \A x \in Requests : Has(done, Task("finally", x)) => Has(front, x)
  BY <1>4, FinallysHas
<1>7. /\ more \in Seq(Prepares) /\ aioSem'.waiters \in Seq(Prepares)
      /\ aioSem.waiters = more \o aioSem'.waiters
  <2>1. AfterSignal(aioSem, n) \in Semaphores(Prepares)  BY <1>2, <1>3, SignalSem
  <2>2. more \in Seq(Prepares) /\ aioSem.waiters = more \o AfterSignal(aioSem, n).waiters
    BY <1>2, <1>3, SignalSem
  <2> QED BY <1>1, <2>1, <2>2 DEF Semaphores
<1> HIDE DEF done, more
<1>8. tasks' = (tasks \o done) \o more  BY <1>1, <1>6, ConcatEmptySeq
<1>9. Has(tasks', Task("finally", s)) => Has(events, s)
  <2>1. more \in Seq(AnyTask)  BY <1>7, Kinds, SeqMonotonic
  <2>2. Has(done \o more, Task("finally", s)) <=>
            Has(done, Task("finally", s)) \/ Has(more, Task("finally", s))
    BY <1>6, <2>1, HasConcat
  <2>3. ~Has(more, Task("finally", s))  BY <1>7, HasOf, TaskFacts
  <2> QED BY <1>1, <1>5, <1>6, <2>2, <2>3
<1>10. Issued(s)' => Issued(s)  BY <1>1, <1>5, <1>9 DEF Issued
<1> QED BY <1>1, <1>6, <1>7, <1>8, <1>10, IssueOrder

(* io_submit() takes the oldest of the batch.                              *)
LEMMA SubmitBatchOrder ==
    ASSUME Types, NEW r \in Requests, NEW s \in Requests, Ordered(r, s),
           NEW k \in Requests, SubmitBatch(k)
    PROVE  Ordered(r, s)'
<1> DEFINE front == SubSeq(pending, 1, k)
           none == <<>>
<1>1. /\ k \in 1 .. Len(pending)
      /\ inKernel' = inKernel \union {pending[i] : i \in 1 .. k}
      /\ pending' = SubSeq(pending, k + 1, Len(pending))
      /\ UNCHANGED <<classOf, queues, aioSem, tasks, events, answered>>
  BY DEF SubmitBatch, classVars
<1>2. /\ pending \in Seq(Requests) /\ tasks \in Seq(AnyTask)
      /\ aioSem.waiters \in Seq(Prepares)
  BY DEF Types, IoTypes, Semaphores
<1>3. /\ front \in Seq(Requests) /\ pending' \in Seq(Requests) /\ pending = front \o pending'
      /\ Len(front) = k /\ \A i \in 1 .. k : front[i] = pending[i]
  <2>1. k \in 0 .. Len(pending)  BY <1>1
  <2>2. /\ front \in Seq(Requests) /\ pending' \in Seq(Requests)
        /\ pending = front \o pending'
    BY <1>1, <1>2, <2>1, HasParts
  <2>3. Len(front) = k /\ \A i \in 1 .. k : front[i] = pending[i]
    BY <1>2, <2>1, CountSplit
  <2> QED BY <2>2, <2>3
<1>4. s \in inKernel' => s \in inKernel \/ Has(front, s)  BY <1>1, <1>3 DEF Has
<1> HIDE DEF front
<1>5. \A x, y : /\ Has(pending, x) <=> Has(front, x) \/ Has(pending', x)
                /\ Ahead(pending, x, y) <=>
                       \/ Ahead(front, x, y) \/ Ahead(pending', x, y)
                       \/ (Has(front, x) /\ Has(pending', y))
  <2>1. \A x, y : /\ Has(front \o pending', x) <=> Has(front, x) \/ Has(pending', x)
                  /\ Ahead(front \o pending', x, y) <=>
                         \/ Ahead(front, x, y) \/ Ahead(pending', x, y)
                         \/ (Has(front, x) /\ Has(pending', y))
    BY <1>3, HasConcat
  <2> QED BY <1>3, <2>1
<1>6. Issued(s)' => Issued(s) \/ (InBatch(s) /\ (InBatch(r)' => Ahead(pending, s, r)))
  BY <1>1, <1>4, <1>5 DEF Issued, InBatch
<1>7. /\ none \in Seq(AnyTask) /\ none \in Seq(Prepares)
      /\ tasks' = (tasks \o none) \o none
      /\ aioSem'.waiters \in Seq(Prepares) /\ aioSem.waiters = none \o aioSem'.waiters
  BY <1>1, <1>2, ConcatEmptySeq
<1>8. \A x : ~Has(none, x)  BY HasNone
<1> HIDE DEF none
<1> QED BY <1>1, <1>5, <1>6, <1>7, <1>8, IssueOrder

(* The request it refuses is the oldest of the batch.                      *)
LEMMA SubmitBadOrder ==
    ASSUME Types, NEW r \in Requests, NEW s \in Requests, Ordered(r, s), SubmitBad
    PROVE  Ordered(r, s)'
<1>h. PICK h, t : h = Head(pending) /\ t = Task("finally", h)  OBVIOUS
<1> DEFINE more == Granted(aioSem, 1)
           one == <<t>>
<1>1. /\ pending # <<>> /\ tasks' = Append(tasks, t) \o more
      /\ aioSem' = AfterSignal(aioSem, 1) /\ pending' = Tail(pending)
      /\ UNCHANGED <<classOf, queues, inKernel, events, answered>>
  BY <1>h DEF SubmitBad, classVars
<1>2. /\ pending \in Seq(Requests) /\ tasks \in Seq(AnyTask)
      /\ aioSem \in Semaphores(Prepares)
  BY DEF Types, IoTypes
<1>3. h \in Requests /\ t \in AnyTask
  BY <1>h, <1>1, <1>2, HeadThenTail, RequestTaskFacts
<1>4. /\ Has(pending, h)
      /\ \A x, y : /\ Has(pending', x) => Has(pending, x) /\ Ahead(pending, h, x)
                   /\ Ahead(pending', x, y) => Ahead(pending, x, y)
  BY <1>h, <1>1, <1>2, HasHead
<1>5. /\ more \in Seq(Prepares) /\ aioSem'.waiters \in Seq(Prepares)
      /\ aioSem.waiters = more \o aioSem'.waiters
  <2>1. AfterSignal(aioSem, 1) \in Semaphores(Prepares)  BY <1>2, SignalSem
  <2>2. more \in Seq(Prepares) /\ aioSem.waiters = more \o AfterSignal(aioSem, 1).waiters
    BY <1>2, SignalSem
  <2> QED BY <1>1, <2>1, <2>2 DEF Semaphores
<1>6. /\ one \in Seq(AnyTask) /\ tasks' = (tasks \o one) \o more
      /\ \A x : Has(one, x) <=> x = t
  <2>1. one \in Seq(AnyTask) /\ Append(tasks, t) = tasks \o one
    BY <1>2, <1>3, AppendIsConcat
  <2>2. \A x : Has(one, x) <=> x = t  BY HasOne
  <2> QED BY <1>1, <2>1, <2>2
<1> HIDE DEF more, one
<1>7. \A kind \in {"start", "prepare"}, x \in Requests : ~Has(one, Task(kind, x))
  BY <1>h, <1>6, RequestTaskFacts
<1>8. Has(tasks', Task("finally", s)) => Has(tasks, Task("finally", s)) \/ s = h
  <2>1. more \in Seq(AnyTask) /\ tasks \o one \in Seq(AnyTask)
    BY <1>2, <1>5, <1>6, Kinds, SeqMonotonic, ConcatProperties
  <2>2. Has(tasks', Task("finally", s)) =>
            Has(tasks \o one, Task("finally", s)) \/ Has(more, Task("finally", s))
    BY <1>6, <2>1, HasConcat
  <2>3. Has(tasks \o one, Task("finally", s)) =>
            Has(tasks, Task("finally", s)) \/ Has(one, Task("finally", s))
    BY <1>2, <1>6, HasConcat
  <2>4. ~Has(more, Task("finally", s))  BY <1>5, HasOf, TaskFacts
  <2>5. Task("finally", s) = t => s = h  BY <1>h DEF Task
  <2> QED BY <1>6, <2>2, <2>3, <2>4, <2>5
<1>9. Issued(s)' => Issued(s) \/ (InBatch(s) /\ (InBatch(r)' => Ahead(pending, s, r)))
  BY <1>1, <1>4, <1>8 DEF Issued, InBatch
<1> QED BY <1>1, <1>4, <1>5, <1>6, <1>7, <1>9, IssueOrder

(* Tasks of calls and dispatchers are none of a request.                   *)
LEMMA NoRequestTasks ==
    ASSUME NEW T \in SUBSET (CallTasks \union {ExecuteTask}), NEW more \in Seq(T)
    PROVE  /\ more \in Seq(AnyTask)
           /\ \A kind \in {"start", "prepare", "finally"}, x \in Requests :
                  ~Has(more, Task(kind, x))
<1>1. T \subseteq AnyTask  BY Kinds
<1>2. more \in Seq(AnyTask)  BY <1>1, SeqMonotonic
<1>3. ASSUME NEW kind \in {"start", "prepare", "finally"}, NEW x \in Requests,
             Has(more, Task(kind, x))
      PROVE  FALSE
  <2>1. Task(kind, x) \in T  BY <1>3, HasOf
  <2> QED BY <2>1, RequestTaskFacts
<1> QED BY <1>2, <1>3

(* Steps that leave the requests alone.                                    *)
LEMMA QuietOrder ==
    ASSUME NEW r \in Requests, NEW s \in Requests, Ordered(r, s),
           UNCHANGED <<classVars, aioSem, kernelVars, tasks, answered>>
    PROVE  Ordered(r, s)'
<1>1. UNCHANGED <<classOf, queues, aioSem, pending, inKernel, events, tasks, answered>>
  BY DEF classVars, kernelVars
<1> QED BY <1>1 DEF Ordered, InQueue, ToStart, ForAio, ToPrepare, InBatch, Issued, Prepared,
                    HasUnit, Started, Dispatched

(* The kernel completes what has been issued.                              *)
LEMMA KernelOrder ==
    ASSUME Types, NEW r \in Requests, NEW s \in Requests, Ordered(r, s),
           NEW k \in Requests, KernelComplete(k)
    PROVE  Ordered(r, s)'
<1> DEFINE none == <<>>
<1>1. /\ k \in inKernel /\ inKernel' = inKernel \ {k} /\ events' = Append(events, k)
      /\ UNCHANGED <<classOf, queues, aioSem, tasks, pending, answered>>
  BY DEF KernelComplete, classVars
<1>2. tasks \in Seq(AnyTask) /\ events \in Seq(Requests)  BY DEF Types, IoTypes
<1>3. none \in Seq(AnyTask) /\ tasks' = tasks \o none  BY <1>1, <1>2, ConcatEmptySeq
<1>4. \A x : ~Has(none, x)  BY HasNone
<1> HIDE DEF none
<1>5. Has(events', s) <=> Has(events, s) \/ s = k  BY <1>1, <1>2, HasAppend
<1>6. Issued(s)' => Issued(s)  BY <1>1, <1>5 DEF Issued
<1>7. InQueue(r)' => InQueue(r)  BY <1>1 DEF InQueue
<1> QED BY <1>1, <1>3, <1>4, <1>6, <1>7, OrderStays

(* Calls bring only tasks of calls.                                        *)
LEMMA SubmitOrder ==
    ASSUME Types, workload \in Workloads, NEW r \in Requests, NEW s \in Requests,
           Ordered(r, s), NEW op, NEW o, NEW fd, Submit(op, o, fd)
    PROVE  Ordered(r, s)'
<1> DEFINE c == made + 1
           w == Task("push", c)
           more == ReadyAfterWait(room, w)
<1>1. /\ made < workload.calls /\ tasks' = tasks \o more
      /\ UNCHANGED <<classVars, aioSem, kernelVars, answered>>
  BY DEF Submit
<1>2. c \in Calls
  <2>1. workload.calls \in 0 .. MaxCalls  BY CallsAssumption DEF Workloads, Load
  <2>2. made \in Nat /\ MaxCalls \in Nat  BY Numbers, CallsAssumption
  <2> QED BY <1>1, <2>1, <2>2 DEF Calls
<1>3. w \in Pushes /\ w \in CallTasks  BY <1>2, CallTaskFacts
<1>4. room \in Semaphores(Pushes)  BY DEF Types, CallTypes
<1>5. more \in Seq({w})  BY <1>3, <1>4, WaitSem
<1> HIDE DEF w, c, more
<1>6. /\ more \in Seq(AnyTask)
      /\ \A kind \in {"start", "prepare", "finally"}, x \in Requests : ~Has(more, Task(kind, x))
  <2>1. {w} \in SUBSET (CallTasks \union {ExecuteTask})  BY <1>3
  <2> QED BY <1>5, <2>1, NoRequestTasks
<1> QED BY <1>1, <1>6, OrderFrame

(* The tasks of calls go, and bring none of a request.                     *)
LEMMA CallTaskOrder ==
    ASSUME Types, NEW r \in Requests, NEW s \in Requests, Ordered(r, s),
           PushCall \/ Return
    PROVE  Ordered(r, s)'
<1> DEFINE none == <<>>
<1>1. /\ tasks # <<>> /\ tasks' = Tail(tasks)
      /\ UNCHANGED <<classVars, aioSem, kernelVars, answered>>
  BY DEF PushCall, Return, NextTask
<1>2. none \in Seq(AnyTask) /\ tasks' = Tail(tasks) \o none
  <2>1. tasks \in Seq(AnyTask)  BY DEF Types
  <2>2. Tail(tasks) \in Seq(AnyTask)  BY <1>1, <2>1, HeadThenTail
  <2> QED BY <1>1, <2>2, ConcatEmptySeq
<1>3. \A x : ~Has(none, x)  BY HasNone
<1> HIDE DEF none
<1> QED BY <1>1, <1>2, <1>3, OrderFrame

(* complete() brings only tasks of calls.                                  *)
LEMMA CompleteOrder ==
    ASSUME Types, NEW r \in Requests, NEW s \in Requests, Ordered(r, s),
           CompleteCalls, UNCHANGED <<classVars, aioSem, kernelVars, answered>>
    PROVE  Ordered(r, s)'
<1> DEFINE rs == Returns
           granted == PushesGranted
           more == rs \o granted
<1>1. tasks' = (tasks \o rs) \o granted  BY DEF CompleteCalls
<1>2. rs \in Seq(CallTasks)
  <2>1. completed \in Seq(Calls)  BY DEF Types, CallTypes
  <2>2. Len(completed) \in Nat /\ \A i \in 1 .. Len(completed) : completed[i] \in Calls
    BY <2>1
  <2>3. \A i \in 1 .. Len(completed) : Task("return", completed[i]) \in CallTasks
    BY <2>2, CallTaskFacts
  <2> QED BY <2>2, <2>3 DEF Returns
<1>3. granted \in Seq(CallTasks)
  <2>1. room \in Semaphores(Pushes) /\ Len(completed) \in Nat
    BY DEF Types, CallTypes
  <2>2. Granted(room, Len(completed)) \in Seq(Pushes)  BY <2>1, SignalSem
  <2>3. Pushes \subseteq CallTasks  BY Kinds
  <2>4. Granted(room, Len(completed)) \in Seq(CallTasks)
    BY <2>2, <2>3, SeqMonotonic
  <2> QED BY <2>4 DEF PushesGranted
<1> HIDE DEF rs, granted
<1>4. more \in Seq(CallTasks)  BY <1>2, <1>3, ConcatProperties
<1>5. tasks' = tasks \o more
  <2>1. tasks \in Seq(AnyTask) /\ rs \in Seq(AnyTask) /\ granted \in Seq(AnyTask)
    BY <1>2, <1>3, Kinds, SeqMonotonic DEF Types
  <2>2. (tasks \o rs) \o granted = tasks \o (rs \o granted)
    BY <2>1, ConcatAssociative
  <2> QED BY <1>1, <2>2
<1> HIDE DEF more
<1>6. /\ more \in Seq(AnyTask)
      /\ \A kind \in {"start", "prepare", "finally"}, x \in Requests : ~Has(more, Task(kind, x))
  <2>1. CallTasks \in SUBSET (CallTasks \union {ExecuteTask})  OBVIOUS
  <2> QED BY <1>4, <2>1, NoRequestTasks
<1> QED BY <1>5, <1>6, OrderFrame

(* A request that is still to be made is nowhere.                          *)
LEMMA Unmade ==
    ASSUME Types, RequestsCounted, NEW s \in Requests, s > arrived
    PROVE  /\ ~InQueue(s) /\ ~Dispatched(s)
           /\ \A r \in Requests : classOf[r] = classOf[s] => Ordered(r, s)
<1>1. /\ tasks \in Seq(AnyTask) /\ aioSem.waiters \in Seq(Prepares)
      /\ pending \in Seq(Requests) /\ events \in Seq(Requests)
      /\ queues[classOf[s]] \in Seq(Requests)
  BY DEF Types, IoTypes, Semaphores
<1>2. /\ Count(queues[classOf[s]], {s}) = 0 /\ Count(tasks, TasksFor(s)) = 0
      /\ Count(aioSem.waiters, TasksFor(s)) = 0
      /\ Count(pending, {s}) = 0 /\ Count(events, {s}) = 0
      /\ Indicator(s \in inKernel) = 0 /\ Indicator(s \in answered) = 0
  <2> DEFINE q == Count(queues[classOf[s]], {s})
             t == Count(tasks, TasksFor(s))
             w == Count(aioSem.waiters, TasksFor(s))
             p == Count(pending, {s})
             e == Count(events, {s})
             k == Indicator(s \in inKernel)
             a == Indicator(s \in answered)
  <2>1. /\ q \in Nat /\ t \in Nat /\ w \in Nat /\ p \in Nat /\ e \in Nat
        /\ k \in Nat /\ a \in Nat
    BY RequestNumbers
  <2>2. RequestCount(s) = Indicator(s <= arrived) /\ RequestCount(s) = q + (t + w + p + k + e + a)
    BY DEF RequestsCounted, RequestCount, OnItsWay
  <2>3. Indicator(s <= arrived) = 0
    <3>1. arrived \in Nat /\ s \in Nat  BY Numbers DEF Requests
    <3> QED BY <3>1 DEF Indicator
  <2> HIDE DEF q, t, w, p, e, k, a
  <2>4. /\ q = 0 /\ t = 0 /\ w = 0 /\ p = 0 /\ e = 0 /\ k = 0 /\ a = 0
    BY ONLY <2>1, <2>2, <2>3
  <2> QED BY <2>4 DEF q, t, w, p, e, k, a
<1>3. ~Has(queues[classOf[s]], s) /\ ~Has(pending, s) /\ ~Has(events, s)
  <2>1. ASSUME NEW l \in Seq(Requests), Count(l, {s}) = 0 PROVE ~Has(l, s)
    <3>1. ASSUME NEW i \in 1 .. Len(l), l[i] = s PROVE FALSE
      <4>1. Count(l, {s}) >= 1  BY <3>1, CountPositive
      <4> QED BY <2>1, <4>1
    <3> QED BY <3>1 DEF Has
  <2> QED BY <1>1, <1>2, <2>1
<1>4. ASSUME NEW S, NEW l \in Seq(S), Count(l, TasksFor(s)) = 0,
             NEW kind \in {"start", "prepare", "finally"}
      PROVE  ~Has(l, Task(kind, s))
  <2>1. Task(kind, s) \in TasksFor(s)  BY TaskFacts
  <2>2. ASSUME NEW i \in 1 .. Len(l), l[i] = Task(kind, s) PROVE FALSE
    <3>1. Count(l, TasksFor(s)) >= 1  BY <2>1, <2>2, CountPositive
    <3> QED BY <1>4, <3>1
  <2> QED BY <2>2 DEF Has
<1>5. /\ ~ToStart(s) /\ ~ToPrepare(s) /\ ~Has(tasks, Task("finally", s)) /\ ~ForAio(s)
  BY <1>1, <1>2, <1>4 DEF ToStart, ToPrepare, ForAio
<1>6. s \notin inKernel /\ s \notin answered  BY <1>2 DEF Indicator
<1>7. ~InQueue(s) /\ ~InBatch(s) /\ ~Issued(s)
  BY <1>3, <1>5, <1>6 DEF InQueue, InBatch, Issued
<1>8. ~Prepared(s) /\ ~HasUnit(s) /\ ~Started(s) /\ ~Dispatched(s)
  BY <1>5, <1>7 DEF Prepared, HasUnit, Started, Dispatched
<1>9. ASSUME NEW r \in Requests, classOf[r] = classOf[s] PROVE Ordered(r, s)
  BY <1>3, <1>5, <1>7, <1>8, <1>9, AheadHas DEF Ordered, ToStart, ForAio, ToPrepare, InBatch
<1> QED BY <1>7, <1>8, <1>9

(* A request joins its queue behind those made before it.                  *)
LEMMA QueueOrder ==
    ASSUME Types, NEW r \in Requests, NEW s \in Requests, Ordered(r, s), r <= arrived,
           NEW c \in Classes, Queue(c)
    PROVE  Ordered(r, s)'
<1> DEFINE n == arrived + 1
           more == ReadyAfterWait(fairSem, ExecuteTask)
<1>1. /\ queues' = [queues EXCEPT ![c] = Append(@, n)] /\ arrived < MaxRequests
      /\ tasks' = tasks \o more
      /\ UNCHANGED <<classOf, aioSem, pending, inKernel, events, answered>>
  BY DEF Queue, ExecuteTask, kernelVars
<1>2. n \in Requests /\ r # n
  <2>1. arrived \in Nat /\ MaxRequests \in Nat /\ r \in Nat
    BY Numbers, IoAssumption DEF Requests
  <2> QED BY <1>1, <2>1 DEF Requests
<1>3. /\ queues \in [Classes -> Seq(Requests)] /\ fairSem \in Semaphores({ExecuteTask})
      /\ classOf[r] \in Classes
  BY DEF Types, IoTypes
<1>4. /\ more \in Seq(AnyTask)
      /\ \A kind \in {"start", "prepare", "finally"}, x \in Requests : ~Has(more, Task(kind, x))
  <2>1. more \in Seq({ExecuteTask})  BY <1>3, WaitSem
  <2>2. {ExecuteTask} \in SUBSET (CallTasks \union {ExecuteTask})  OBVIOUS
  <2> HIDE DEF more
  <2> QED BY <2>1, <2>2, NoRequestTasks
<1> HIDE DEF n, more
<1>5. /\ Has(queues'[classOf[r]], r) => Has(queues[classOf[r]], r)
      /\ Ahead(queues'[classOf[r]], s, r) => Ahead(queues[classOf[r]], s, r)
  <2>1. CASE classOf[r] = c
    <3>1. queues[c] \in Seq(Requests) /\ queues'[c] = Append(queues[c], n)
      BY <1>1, <1>3
    <3>2. /\ Has(Append(queues[c], n), r) <=> Has(queues[c], r) \/ r = n
          /\ Ahead(Append(queues[c], n), s, r) <=>
                 Ahead(queues[c], s, r) \/ (Has(queues[c], s) /\ r = n)
      BY <1>2, <3>1, HasAppend
    <3> QED BY <1>2, <2>1, <3>1, <3>2
  <2>2. CASE classOf[r] # c
    <3>1. queues'[classOf[r]] = queues[classOf[r]]  BY <1>1, <1>3, <2>2
    <3> QED BY <3>1
  <2> QED BY <2>1, <2>2
<1>6. Has(tasks', Task("finally", s)) => Has(tasks, Task("finally", s))
  BY <1>1, <1>4, TasksOrder
<1>7. Issued(s)' => Issued(s)  BY <1>1, <1>6 DEF Issued
<1>8. InQueue(r)' => InQueue(r)  BY <1>1, <1>5 DEF InQueue
<1> QED BY <1>1, <1>4, <1>5, <1>7, <1>8, OrderStays

(* Whatever the step, two requests of one class stay in their order.       *)
LEMMA StepOrdered ==
    ASSUME workload \in Workloads, IInv, [Next]_vars, NEW r \in Requests, NEW s \in Requests,
           r < s, s <= arrived', classOf[r] = classOf[s], Ordered(r, s)
    PROVE  Ordered(r, s)'
<1>0. Types /\ r # s  BY DEF IInv, Requests
<1>1. CASE UNCHANGED <<classVars, aioSem, kernelVars, tasks, answered>>
  BY <1>1, QuietOrder
<1>2. ASSUME NEW o \in Objects, NEW c \in Classes, Request(o, c) PROVE Ordered(r, s)'
  <2>1. Queue(c) /\ arrived' = arrived + 1  BY <1>2 DEF Request, Queue
  <2>2. r <= arrived
    <3>1. arrived \in Nat /\ r \in Nat /\ s \in Nat  BY <1>0, Numbers DEF Requests
    <3> QED BY <2>1, <3>1
  <2> QED BY <1>0, <2>1, <2>2, QueueOrder
<1>3. ASSUME NEW op, NEW o, NEW fd, Submit(op, o, fd) PROVE Ordered(r, s)'
  BY <1>0, <1>3, SubmitOrder
<1>4. CASE CallPath \/ CallOpenFile  BY <1>3, <1>4 DEF CallPath, CallOpenFile
<1>5. ASSUME NEW o \in Objects, CallOnFile(o) \/ CloseLast(o) PROVE Ordered(r, s)'
  BY <1>3, <1>5 DEF CallOnFile, CloseLast
<1>6. ASSUME NEW o \in Objects, CloseShared(o) PROVE Ordered(r, s)'
  BY <1>1, <1>6 DEF CloseShared, ioVars, classVars, kernelVars
<1>7. CASE Share  BY <1>1, <1>7 DEF Share, ioVars, classVars, kernelVars
<1>8. CASE Io(IoReactor)
  <2>1. IoReactor  BY <1>8 DEF Io
  <2>2. ASSUME NEW c \in Classes, Execute(c) PROVE Ordered(r, s)'
    BY <1>0, <2>2, ExecuteOrder
  <2>3. CASE Start  BY <1>0, <2>3, StartOrder
  <2>4. CASE Prepare  BY <1>0, <2>4, PrepareOrder
  <2>5. CASE Finally  BY <1>0, <2>5, FinallyOrder
  <2>6. CASE PollIo  BY <1>0, <2>6, PollIoOrder
  <2>7. CASE PollAio \/ SubmitAgain \/ FlushDone
    BY <1>1, <2>7 DEF PollAio, SubmitAgain, FlushDone
  <2>8. ASSUME NEW k \in Requests, SubmitBatch(k) PROVE Ordered(r, s)'
    BY <1>0, <2>8, SubmitBatchOrder
  <2>9. CASE SubmitBad  BY <1>0, <2>9, SubmitBadOrder
  <2> QED BY <2>1, <2>2, <2>3, <2>4, <2>5, <2>6, <2>7, <2>8, <2>9 DEF IoReactor, Flush
<1>9. CASE PushCall \/ Return  BY <1>0, <1>9, CallTaskOrder
<1>10. CASE HandleSignal \/ PollCalls \/ Raced
  BY <1>0, <1>10, CompleteOrder DEF HandleSignal, PollCalls, Raced
<1>11. CASE EnterSleep \/ Block \/ Awaken
  BY <1>1, <1>11 DEF EnterSleep, Block, Awaken
<1>12. CASE Thread  BY <1>1, <1>12 DEF Thread, ioVars, classVars, kernelVars
<1>13. ASSUME NEW k \in Requests, Io(KernelComplete(k)) PROVE Ordered(r, s)'
  BY <1>0, <1>13, KernelOrder DEF Io
<1>14. CASE UNCHANGED vars  BY <1>1, <1>14 DEF vars, ioVars, classVars, kernelVars
<1>15. CASE Fibers  BY <1>2, <1>4, <1>5, <1>6, <1>7, <1>15 DEF Fibers
<1>16. CASE ReactorStep  BY <1>8, <1>9, <1>10, <1>11, <1>16 DEF ReactorStep
<1> QED BY <1>12, <1>13, <1>14, <1>15, <1>16 DEF Next

(* Requests are made one at a time and keep their class.                   *)
LEMMA MadeInTurn ==
    ASSUME Types, [Next]_vars
    PROVE  classOf' = classOf /\ arrived' \in {arrived, arrived + 1}
<1>1. CASE UNCHANGED classVars  BY <1>1 DEF classVars
<1>2. CASE UNCHANGED vars  BY <1>1, <1>2 DEF vars, ioVars, classVars
<1>3. ASSUME NEW c \in Classes, Queue(c) \/ Execute(c)
      PROVE  classOf' = classOf /\ arrived' \in {arrived, arrived + 1}
  BY <1>3 DEF Queue, Execute
<1>4. CASE Fibers
  BY <1>1, <1>3, <1>4 DEF Fibers, Request, CallPath, CallOpenFile, CallOnFile, CloseLast,
                          CloseShared, Share, Submit, ioVars, classVars
<1>5. CASE Io(IoReactor)
  <2>1. CASE Start \/ Prepare \/ Finally \/ PollIo \/ PollAio
    BY <1>1, <2>1 DEF Start, Prepare, Finally, PollIo, PollAio
  <2>2. CASE Flush
    BY <1>1, <2>2 DEF Flush, SubmitBatch, SubmitBad, SubmitAgain, FlushDone
  <2> QED BY <1>3, <1>5, <2>1, <2>2 DEF Io, IoReactor
<1>6. CASE PushCall \/ Return \/ HandleSignal \/ PollCalls
  BY <1>1, <1>6 DEF PushCall, Return, HandleSignal, PollCalls
<1>7. CASE EnterSleep \/ Raced \/ Block \/ Awaken
  BY <1>1, <1>7 DEF EnterSleep, Raced, Block, Awaken
<1>8. CASE Thread  BY <1>1, <1>8 DEF Thread, ioVars, classVars
<1>9. ASSUME NEW k \in Requests, Io(KernelComplete(k)) PROVE UNCHANGED classVars
  BY <1>9 DEF Io, KernelComplete
<1> QED BY <1>1, <1>2, <1>4, <1>5, <1>6, <1>7, <1>8, <1>9 DEF Next, ReactorStep

(* Every step keeps all pairs in order; a new request is behind all others.*)
LEMMA StepInOrder ==
    ASSUME workload \in Workloads, IInv, InOrder, [Next]_vars
    PROVE  InOrder'
<1>1. Types /\ RequestsCounted /\ Types'  BY StepIInv DEF IInv, IoParts
<1>2. classOf' = classOf /\ arrived' \in {arrived, arrived + 1}  BY <1>1, MadeInTurn
<1>3. arrived \in Nat /\ arrived' \in 0 .. MaxRequests /\ MaxRequests \in Nat
  BY <1>1, Numbers, IoAssumption DEF Types, IoTypes
<1> SUFFICES ASSUME NEW s \in 1 .. arrived', NEW r \in 1 .. s - 1, classOf[r] = classOf[s]
             PROVE  Ordered(r, s)'
  BY <1>2 DEF InOrder
<1>4. s \in Requests /\ r \in Requests /\ r < s /\ s <= arrived'
  BY <1>3 DEF Requests
<1>5. Ordered(r, s)
  <2>1. CASE s \in 1 .. arrived  BY <2>1 DEF InOrder
  <2>2. CASE s > arrived  BY <1>1, <1>4, <2>2, Unmade
  <2>3. s \in 1 .. arrived \/ s > arrived  BY <1>3
  <2> QED BY <2>1, <2>2, <2>3
<1> QED BY <1>4, <1>5, StepOrdered

(* The order, with the counts it needs, in every state of every behaviour. *)
LEMMA OrderHolds == Spec => [](IInv /\ InOrder)
<1>1. Init => workload \in Workloads /\ IInv /\ InOrder
  <2>1. Init => 1 .. arrived = {}  BY DEF Init, IoInit
  <2> QED BY <2>1, InitIInv DEF InOrder
<1>2. (workload \in Workloads /\ IInv /\ InOrder) /\ [Next]_vars
          => (workload \in Workloads /\ IInv /\ InOrder)'
  BY StepIInv, StepInOrder
<1> QED BY <1>1, <1>2, PTL DEF Spec

(* Where a request is, in the words of the stages.                         *)
LEMMA PlaceFacts ==
    ASSUME Types, NEW x \in Requests, NEW p \in Places(x)
    PROVE  /\ p[1] \in 0 .. 8
           /\ p[1] = 0 => /\ p[2] \in 1 .. Len(queues[classOf[x]])
                          /\ queues[classOf[x]][p[2]] = x
           /\ p[1] = 1 => p[2] \in 1 .. Len(tasks) /\ tasks[p[2]] = Task("start", x)
           /\ p[1] = 2 => /\ p[2] \in 1 .. Len(aioSem.waiters)
                          /\ aioSem.waiters[p[2]] = Task("prepare", x)
           /\ p[1] = 3 => p[2] \in 1 .. Len(tasks) /\ tasks[p[2]] = Task("prepare", x)
           /\ p[1] = 4 => p[2] \in 1 .. Len(pending) /\ pending[p[2]] = x
           /\ p[1] > 4 => Issued(x)
<1>1. \A kind \in {"start", "prepare", "finally"} :
          {j \in TasksOf(kind) : tasks[j].req = x} = Hits(tasks, {Task(kind, x)})
  BY TasksOfKinds
<1>2. \A i \in 1 .. Len(aioSem.waiters) :
          aioSem.waiters[i].req = x => aioSem.waiters[i] = Task("prepare", x)
  <2>1. aioSem.waiters \in Seq(Prepares)  BY DEF Types, IoTypes, Semaphores
  <2>2. \A i \in 1 .. Len(aioSem.waiters) : aioSem.waiters[i] \in Prepares
    BY <2>1, ElementOfSeq
  <2>3. \A t \in Prepares : t.req = x => t = Task("prepare", x)
    BY DEF Prepares, Task
  <2> QED BY <2>2, <2>3
<1>3. CASE p \in {<<0, i>> : i \in {j \in 1 .. Len(queues[classOf[x]]) : queues[classOf[x]][j] = x}}
  BY <1>3
<1>4. CASE p \in {<<1, i>> : i \in {j \in TasksOf("start") : tasks[j].req = x}}
  BY <1>1, <1>4 DEF Hits
<1>5. CASE p \in {<<2, i>> : i \in {j \in 1 .. Len(aioSem.waiters) : aioSem.waiters[j].req = x}}
  BY <1>2, <1>5
<1>6. CASE p \in {<<3, i>> : i \in {j \in TasksOf("prepare") : tasks[j].req = x}}
  BY <1>1, <1>6 DEF Hits
<1>7. CASE p \in {<<4, i>> : i \in {j \in 1 .. Len(pending) : pending[j] = x}}
  BY <1>7
<1>8. CASE p \in (IF x \in inKernel THEN {<<5, 0>>} ELSE {})  BY <1>8 DEF Issued
<1>9. CASE p \in {<<6, i>> : i \in {j \in 1 .. Len(events) : events[j] = x}}
  BY <1>9 DEF Issued, Has
<1>10. CASE p \in {<<7, i>> : i \in {j \in TasksOf("finally") : tasks[j].req = x}}
  BY <1>1, <1>10 DEF Issued, Has, Hits
<1>11. CASE p \in (IF x \in answered THEN {<<8, 0>>} ELSE {})  BY <1>11 DEF Issued
<1> QED BY <1>3, <1>4, <1>5, <1>6, <1>7, <1>8, <1>9, <1>10, <1>11 DEF Places

(* The order in the words of the property.                                 *)
LEMMA IssuedInOrderFromInv == IInv /\ InOrder => IssuedInOrder
<1> SUFFICES ASSUME IInv, InOrder, NEW s \in 1 .. arrived, NEW r \in 1 .. s - 1,
                    classOf[r] = classOf[s], NEW p \in Places(r), NEW q \in Places(s)
             PROVE  p[1] >= 5 \/ p[1] > q[1] \/ (p[1] = q[1] /\ p[2] < q[2])
  BY DEF IssuedInOrder
<1>1. Types /\ Ordered(r, s)  BY DEF IInv, InOrder
<1>2. r \in Requests /\ s \in Requests /\ r # s
  <2>1. arrived \in 0 .. MaxRequests /\ MaxRequests \in Nat
    BY <1>1, IoAssumption DEF Types, IoTypes
  <2> QED BY <2>1 DEF Requests
<1>3. /\ Len(queues[classOf[r]]) \in Nat /\ Len(tasks) \in Nat
      /\ Len(aioSem.waiters) \in Nat /\ Len(pending) \in Nat
  BY <1>1, <1>2 DEF Types, IoTypes, Semaphores
<1>4. /\ q[1] = 0 => InQueue(s)
      /\ q[1] = 1 => ToStart(s)
      /\ q[1] = 2 => ForAio(s)
      /\ q[1] = 3 => ToPrepare(s)
      /\ q[1] = 4 => InBatch(s)
      /\ q[1] > 4 => Issued(s)
      /\ q[1] \in 0 .. 8
  BY <1>1, <1>2, PlaceFacts DEF InQueue, ToStart, ForAio, ToPrepare, InBatch, Has
<1>5. /\ q[1] > 4 => Issued(s)
      /\ q[1] > 3 => Prepared(s)
      /\ q[1] > 2 => HasUnit(s)
      /\ q[1] > 1 => Started(s)
      /\ q[1] > 0 => Dispatched(s)
  BY <1>4 DEF Prepared, HasUnit, Started, Dispatched
<1>6. CASE p[1] = 0
  <2>1. p[2] \in 1 .. Len(queues[classOf[r]]) /\ queues[classOf[r]][p[2]] = r
    BY <1>1, <1>2, <1>6, PlaceFacts
  <2>2. q[1] = 0 /\ ~Ahead(queues[classOf[r]], s, r)
    BY <1>1, <1>4, <1>5, <2>1 DEF Ordered, InQueue, Has
  <2>3. q[2] \in 1 .. Len(queues[classOf[r]]) /\ queues[classOf[r]][q[2]] = s
    <3>1. q[2] \in 1 .. Len(queues[classOf[s]]) /\ queues[classOf[s]][q[2]] = s
      BY <1>1, <1>2, <2>2, PlaceFacts
    <3> QED BY <3>1
  <2> QED BY <1>2, <1>3, <1>6, <2>1, <2>2, <2>3, SameStage
<1>7. CASE p[1] = 1
  <2>1. p[2] \in 1 .. Len(tasks) /\ tasks[p[2]] = Task("start", r)
    BY <1>1, <1>2, <1>7, PlaceFacts
  <2>2. ~Started(s) /\ ~Ahead(tasks, Task("start", s), Task("start", r))
    BY <1>1, <2>1 DEF Ordered, ToStart, Has
  <2>3. CASE q[1] = 1
    <3>1. q[2] \in 1 .. Len(tasks) /\ tasks[q[2]] = Task("start", s)
      BY <1>1, <1>2, <2>3, PlaceFacts
    <3>2. Task("start", r) # Task("start", s)  BY <1>2, RequestTaskFacts
    <3> QED BY <1>3, <1>7, <2>1, <2>2, <2>3, <3>1, <3>2, SameStage
  <2> QED BY <1>4, <1>5, <1>7, <2>2, <2>3
<1>8. CASE p[1] = 2
  <2>1. p[2] \in 1 .. Len(aioSem.waiters) /\ aioSem.waiters[p[2]] = Task("prepare", r)
    BY <1>1, <1>2, <1>8, PlaceFacts
  <2>2. ~HasUnit(s) /\ ~Ahead(aioSem.waiters, Task("prepare", s), Task("prepare", r))
    BY <1>1, <2>1 DEF Ordered, ForAio, Has
  <2>3. CASE q[1] = 2
    <3>1. q[2] \in 1 .. Len(aioSem.waiters) /\ aioSem.waiters[q[2]] = Task("prepare", s)
      BY <1>1, <1>2, <2>3, PlaceFacts
    <3>2. Task("prepare", r) # Task("prepare", s)  BY <1>2, RequestTaskFacts
    <3> QED BY <1>3, <1>8, <2>1, <2>2, <2>3, <3>1, <3>2, SameStage
  <2> QED BY <1>4, <1>5, <1>8, <2>2, <2>3
<1>9. CASE p[1] = 3
  <2>1. p[2] \in 1 .. Len(tasks) /\ tasks[p[2]] = Task("prepare", r)
    BY <1>1, <1>2, <1>9, PlaceFacts
  <2>2. ~Prepared(s) /\ ~Ahead(tasks, Task("prepare", s), Task("prepare", r))
    BY <1>1, <2>1 DEF Ordered, ToPrepare, Has
  <2>3. CASE q[1] = 3
    <3>1. q[2] \in 1 .. Len(tasks) /\ tasks[q[2]] = Task("prepare", s)
      BY <1>1, <1>2, <2>3, PlaceFacts
    <3>2. Task("prepare", r) # Task("prepare", s)  BY <1>2, RequestTaskFacts
    <3> QED BY <1>3, <1>9, <2>1, <2>2, <2>3, <3>1, <3>2, SameStage
  <2> QED BY <1>4, <1>5, <1>9, <2>2, <2>3
<1>10. CASE p[1] = 4
  <2>1. p[2] \in 1 .. Len(pending) /\ pending[p[2]] = r
    BY <1>1, <1>2, <1>10, PlaceFacts
  <2>2. ~Issued(s) /\ ~Ahead(pending, s, r)  BY <1>1, <2>1 DEF Ordered, InBatch, Has
  <2>3. CASE q[1] = 4
    <3>1. q[2] \in 1 .. Len(pending) /\ pending[q[2]] = s
      BY <1>1, <1>2, <2>3, PlaceFacts
    <3> QED BY <1>2, <1>3, <1>10, <2>1, <2>2, <2>3, <3>1, SameStage
  <2> QED BY <1>4, <1>5, <1>10, <2>2, <2>3
<1>11. p[1] \in {0, 1, 2, 3, 4} \/ p[1] >= 5
  <2>1. p[1] \in 0 .. 8  BY <1>1, <1>2, PlaceFacts
  <2> QED BY <2>1
<1> QED BY <1>6, <1>7, <1>8, <1>9, <1>10, <1>11

(* Requests of one class reach io_submit() in the order they were made,    *)
(* for any number of requests, classes and units: neither the queue, the   *)
(* tasks, the wait for the aio context nor a batch of which io_submit()    *)
(* takes a part lets one overtake another.                                 *)
THEOREM IssuedInOrderHolds == Spec => []IssuedInOrder
BY OrderHolds, IssuedInOrderFromInv, PTL
-----------------------------------------------------------------------------
(* Who closes a descriptor, for any number of files, handles, descriptors  *)
(* and calls.  The inductive invariant says of every file and handle what  *)
(* the count of its descriptor is (SharesExact), and of every open() and   *)
(* close() on its way that nobody else has or works on its descriptor      *)
(* (OpensExact, ClosesExact).  A close() empties the kernel's entry when   *)
(* the syscall thread makes it, so the invariant follows each call up to   *)
(* there (BeforeCount).                                                    *)

Live(o) == IsFile(o) \/ IsHandle(o)

Opening == {c \in 1 .. made : call[c].op = "open" /\ c \notin returned}

(* The places of a call that the thread has not made yet.                  *)
BeforeCount(c) ==
    Count(tasks, {Task("push", c)}) + Count(room.waiters, {Task("push", c)})
        + Count(toThread, {c}) + Count(taken, {c})

ObjectKinds == {"nothing", "file", "handle", "awaited"}
CallKinds == {"none", "path", "open", "use", "close"}

FileTypes ==
    /\ object \in [Objects -> [kind : ObjectKinds, fd : 0 .. MaxOpens, counted : BOOLEAN]]
    /\ count \in [Descriptors -> Int]
    /\ opened \in 1 .. MaxOpens
    /\ open \subseteq 1 .. opened
    /\ call \in [Calls -> [op : CallKinds, of : Objects \union {NoObject}, fd : 0 .. MaxOpens]]

(* A file or handle has an open descriptor; it is the only one that has    *)
(* it, or all that do are counted.                                         *)
SharesExact ==
    /\ \A o \in Objects : Live(o) => object[o].fd \in open /\ (IsHandle(o) => object[o].counted)
    /\ \A fd \in Descriptors : \A o \in Holders(fd) :
           IF object[o].counted THEN count[fd] = Cardinality(Holders(fd)) ELSE Holders(fd) = {o}

NobodyHas(fd) == \A o \in Objects : Live(o) => object[o].fd # fd

OpensExact ==
    \A c \in Opening :
        /\ call[c].of \in Objects /\ object[call[c].of].kind = "awaited"
        /\ call[c].fd \in 1 .. opened /\ NobodyHas(call[c].fd)
        /\ \A d \in Opening \ {c} : call[d].of # call[c].of /\ call[d].fd # call[c].fd
        /\ \A d \in Closing : call[d].fd # call[c].fd

ClosesExact ==
    \A c \in Closing :
        /\ call[c].fd \in 1 .. opened /\ NobodyHas(call[c].fd)
        /\ IF BeforeCount(c) = 0 THEN call[c].fd \notin open ELSE call[c].fd \in open
        /\ \A d \in Closing \ {c} : call[d].fd # call[c].fd

OpenIsKept ==
    \A fd \in open \cap Accepted :
        \/ ~NobodyHas(fd)
        \/ \E c \in Closing : call[c].fd = fd
        \/ \E c \in Opening : call[c].fd = fd

FInv == FileTypes /\ SharesExact /\ OpensExact /\ ClosesExact /\ OpenIsKept
-----------------------------------------------------------------------------
(* The way of a call to the syscall thread.                                *)
LEMMA BeforeNumbers ==
    ASSUME Types, NEW c \in Calls
    PROVE  /\ Count(tasks, {Task("push", c)}) \in Nat
           /\ Count(room.waiters, {Task("push", c)}) \in Nat
           /\ Count(toThread, {c}) \in Nat /\ Count(taken, {c}) \in Nat
           /\ BeforeCount(c) \in Nat
<1>1. /\ Count(tasks, {Task("push", c)}) \in Nat
      /\ Count(room.waiters, {Task("push", c)}) \in Nat
      /\ Count(toThread, {c}) \in Nat /\ Count(taken, {c}) \in Nat
  BY CountNumbers
<1> QED BY <1>1 DEF BeforeCount

(* A sequence that counts none of x has none of it.                        *)
LEMMA NoneOfIt ==
    ASSUME NEW S, NEW s \in Seq(S), NEW x
    PROVE  (\E i \in 1 .. Len(s) : s[i] = x) <=> Count(s, {x}) # 0
<1>1. ASSUME NEW i \in 1 .. Len(s), s[i] = x PROVE Count(s, {x}) # 0
  <2>1. Count(s, {x}) >= 1 /\ Count(s, {x}) \in Nat
    BY <1>1, CountPositive, CountType
  <2> QED BY <2>1
<1>2. ASSUME Count(s, {x}) # 0 PROVE \E i \in 1 .. Len(s) : s[i] = x
  <2>1. Count(s, {x}) \in Nat  BY CountType
  <2>2. Count(s, {x}) > 0  BY <1>2, <2>1
  <2> QED BY <2>2, CountWitness
<1> QED BY <1>1, <1>2

(* BeforeThread is what the count says.                                    *)
LEMMA BeforeIsCounted ==
    ASSUME Types, NEW c \in Calls
    PROVE  BeforeThread(c) <=> BeforeCount(c) # 0
<1> DEFINE ring == toThread \o taken
           p == Task("push", c)
<1>1. /\ tasks \in Seq(AnyTask) /\ room.waiters \in Seq(Pushes)
      /\ toThread \in Seq(Calls) /\ taken \in Seq(Calls)
  BY DEF Types, CallTypes, Semaphores
<1>2. /\ ring \in Seq(Calls)
      /\ Count(ring, {c}) = Count(toThread, {c}) + Count(taken, {c})
  BY <1>1, CountConcat
<1> HIDE DEF ring, p
<1>3. (\E i \in 1 .. Len(tasks) : tasks[i] = p) <=> Count(tasks, {p}) # 0
  BY <1>1, NoneOfIt
<1>4. (\E i \in 1 .. Len(room.waiters) : room.waiters[i] = p)
          <=> Count(room.waiters, {p}) # 0
  BY <1>1, NoneOfIt
<1>5. (\E i \in 1 .. Len(ring) : ring[i] = c) <=> Count(ring, {c}) # 0
  BY <1>2, NoneOfIt
<1>6. /\ Count(tasks, {p}) \in Nat /\ Count(room.waiters, {p}) \in Nat
      /\ Count(toThread, {c}) \in Nat /\ Count(taken, {c}) \in Nat
  BY BeforeNumbers DEF p
<1>7. BeforeThread(c) <=> \/ Count(tasks, {p}) # 0 \/ Count(room.waiters, {p}) # 0
                          \/ Count(ring, {c}) # 0
  BY <1>3, <1>4, <1>5 DEF BeforeThread, p, ring
<1>8. BeforeCount(c) = Count(tasks, {p}) + Count(room.waiters, {p})
                           + Count(toThread, {c}) + Count(taken, {c})
  BY DEF BeforeCount, p
<1>9. BeforeCount(c) = 0 <=> /\ Count(tasks, {p}) = 0 /\ Count(room.waiters, {p}) = 0
                             /\ Count(ring, {c}) = 0
  BY ONLY <1>2, <1>6, <1>8
<1> QED BY <1>7, <1>9

(* The push is one of the tasks of a call, and none of a request.          *)
LEMMA PushFacts ==
    ASSUME NEW c \in Calls
    PROVE  /\ Task("push", c) \in CallTasks /\ Task("push", c) \in AnyTask
           /\ Task("push", c) \notin IoTasks
           /\ {Task("push", c)} \subseteq TasksOfCall(c)
           /\ \A d \in Calls : Task("push", d) = Task("push", c) <=> d = c
           /\ \A d \in Calls : Task("return", d) # Task("push", c)
           /\ \A kind \in {"start", "prepare", "finally"}, r \in Requests :
                  Task(kind, r) # Task("push", c)
           /\ ExecuteTask # Task("push", c)
BY CallTaskFacts DEF Task, TasksOfCall, ExecuteTask

(* A call that was made is in one place: when it has returned, or is about *)
(* to, it is not before the thread.                                        *)
LEMMA OnceOnly ==
    ASSUME IInv, NEW c \in Calls
    PROVE  /\ BeforeCount(c) # 0 => c \in 1 .. made /\ c \notin returned
           /\ BeforeCount(c) \in {0, 1}
           /\ Count(tasks, {Task("return", c)}) # 0 =>
                  c \in 1 .. made /\ c \notin returned /\ BeforeCount(c) = 0
<1> DEFINE p == Count(tasks, {Task("push", c)})
           q == Count(tasks, {Task("return", c)})
           w == Count(room.waiters, {Task("push", c)})
           t == Count(toThread, {c})
           k == Count(taken, {c})
           s == Count(stored, {c})
           d == Count(completed, {c})
           r == Indicator(c \in returned)
<1>0. Types /\ CallsCounted  BY DEF IInv, CallParts
<1>1. /\ p \in Nat /\ q \in Nat /\ w \in Nat /\ t \in Nat /\ k \in Nat /\ s \in Nat
      /\ d \in Nat /\ r \in Nat
  BY <1>0, CountNumbers DEF Indicator
<1>2. Count(tasks, TasksOfCall(c)) = p + q  BY <1>0, CallTaskSum
<1>3. Count(room.waiters, TasksOfCall(c)) = w
  <2>1. room.waiters \in Seq(Pushes)  BY <1>0 DEF Types, CallTypes, Semaphores
  <2>2. \A x \in Pushes : x \in TasksOfCall(c) <=> x \in {Task("push", c)}
    BY DEF Pushes, TasksOfCall, Task
  <2>3. \A i \in 1 .. Len(room.waiters) : room.waiters[i] \in Pushes
    BY <2>1, ElementOfSeq
  <2> QED BY <2>2, <2>3, CountAlike
<1>4. CallCount(c) = w + (p + q) + (t + k + s + d) + r
  BY <1>2, <1>3 DEF CallCount, InThread
<1>5. BeforeCount(c) = p + w + t + k  BY DEF BeforeCount
<1>6. CallCount(c) = IF c <= made THEN 1 ELSE 0  BY <1>0 DEF CallsCounted, Indicator
<1>7. r = IF c \in returned THEN 1 ELSE 0  BY DEF Indicator
<1>8. c \in Nat /\ c >= 1 /\ made \in Nat
  BY <1>0, CallsAssumption DEF Calls, Types, CallTypes
<1> HIDE DEF p, q, w, t, k, s, d, r
<1>9. BeforeCount(c) # 0 => c <= made /\ r = 0  BY ONLY <1>1, <1>4, <1>5, <1>6
<1>10. BeforeCount(c) \in {0, 1}  BY ONLY <1>1, <1>4, <1>5, <1>6
<1>11. q # 0 => c <= made /\ r = 0 /\ BeforeCount(c) = 0
  BY ONLY <1>1, <1>4, <1>5, <1>6
<1>12. r = 0 => c \notin returned  BY ONLY <1>7
<1>13. c <= made => c \in 1 .. made  BY ONLY <1>8
<1> QED BY <1>9, <1>10, <1>11, <1>12, <1>13 DEF q

-----------------------------------------------------------------------------
(* Steps that leave a call where it is before the thread.                  *)
SamePlace(c) == BeforeCount(c)' = BeforeCount(c)
GetsMade(c) == BeforeCount(c)' = 0

(* Tasks of the I/O queue come and go; the calls' stay.                    *)
LEMMA IoTasksOnly ==
    ASSUME Types, NEW more \in Seq(IoTasks),
           \/ tasks' = tasks \o more
           \/ tasks # <<>> /\ Head(tasks) \in IoTasks /\ tasks' = Tail(tasks) \o more,
           UNCHANGED <<room, toThread, taken>>, NEW c \in Calls
    PROVE  SamePlace(c)
<1> DEFINE K == {Task("push", c)}
<1>1. more \in Seq(AnyTask)  BY Kinds, SeqMonotonic
<1>2. IoTasks \intersect K = {}  BY PushFacts
<1>3. Count(more, K) = 0  BY <1>2, CountNone
<1> HIDE DEF K
<1>4. Count(tasks', K) = Count(tasks, K)
  <2>1. CASE tasks' = tasks \o more
    <3>1. Count(tasks, K) \in Nat /\ Count(tasks', K) = Count(tasks, K) + Count(more, K)
      BY <1>1, <2>1, TasksCome
    <3> QED BY <1>3, <3>1
  <2>2. CASE tasks # <<>> /\ Head(tasks) \in IoTasks /\ tasks' = Tail(tasks) \o more
    <3>1. /\ Count(tasks, K) \in Nat /\ Count(tasks', K) \in Nat
          /\ Count(tasks', K) + Indicator(Head(tasks) \in K) = Count(tasks, K) + Count(more, K)
      BY <1>1, <2>2, TaskRuns
    <3>2. Indicator(Head(tasks) \in K) = 0  BY <1>2, <2>2 DEF Indicator
    <3> QED BY <1>3, <3>1, <3>2
  <2> QED BY <2>1, <2>2
<1> QED BY <1>4 DEF SamePlace, BeforeCount, K

(* The reactor's part of the I/O queue.                                    *)
LEMMA IoKeepsPlaces ==
    ASSUME Types, IoReactor \/ (\E q \in Classes : Queue(q)),
           UNCHANGED <<room, toThread, taken>>, NEW c \in Calls
    PROVE  SamePlace(c)
<1>0. UNCHANGED <<room, toThread, taken>>  OBVIOUS
<1>1. tasks \in Seq(AnyTask) /\ fairSem \in Semaphores({ExecuteTask})
      /\ aioSem \in Semaphores(Prepares)
  BY DEF Types, IoTypes
<1>2. {ExecuteTask} \subseteq IoTasks /\ Prepares \subseteq IoTasks  BY Kinds
<1>3. ASSUME NEW q \in Classes, Queue(q) PROVE SamePlace(c)
  <2> DEFINE more == ReadyAfterWait(fairSem, ExecuteTask)
  <2>1. more \in Seq({ExecuteTask})  BY <1>1, WaitSem
  <2>2. more \in Seq(IoTasks)  BY <1>2, <2>1, SeqMonotonic
  <2>3. tasks' = tasks \o more  BY <1>3 DEF Queue, ExecuteTask
  <2> QED BY <1>0, <2>2, <2>3, IoTasksOnly
<1>4. ASSUME NEW q \in Classes, Execute(q) PROVE SamePlace(c)
  <2> DEFINE r == Head(queues[q])
             one == <<Task("start", r)>>
  <2>1. /\ NextTask("execute") /\ queues[q] # <<>>
        /\ tasks' = Append(Tail(tasks), Task("start", r))
    BY <1>4 DEF Execute
  <2>2. r \in Requests
    <3>1. queues[q] \in Seq(Requests)  BY DEF Types, IoTypes
    <3> QED BY <2>1, <3>1, HeadThenTail
  <2>3. Task("start", r) \in IoTasks  BY <2>2, TaskFacts
  <2>4. tasks # <<>> /\ Head(tasks) \in IoTasks  BY <1>2, <2>1, TaskThatRuns
  <2>5. Tail(tasks) \in Seq(AnyTask) /\ Task("start", r) \in AnyTask
    BY <1>1, <2>3, <2>4, HeadThenTail, Kinds
  <2>6. one \in Seq(IoTasks) /\ tasks' = Tail(tasks) \o one
    BY <2>1, <2>3, <2>5, AppendIsConcat
  <2> HIDE DEF one
  <2> QED BY <1>0, <2>4, <2>6, IoTasksOnly
<1>5. CASE Start
  <2> DEFINE w == Task("prepare", Head(tasks).req)
             more == ReadyAfterWait(aioSem, w)
  <2>1. NextTask("start") /\ tasks' = Tail(tasks) \o more  BY <1>5 DEF Start
  <2>2. tasks # <<>> /\ Head(tasks).req \in Requests
        /\ Head(tasks) = Task("start", Head(tasks).req)
    BY <2>1, TaskThatRuns
  <2>3. w \in Prepares /\ w \in IoTasks /\ Head(tasks) \in IoTasks
    BY <2>2, TaskFacts
  <2>4. more \in Seq({w})  BY <1>1, <2>3, WaitSem
  <2>5. more \in Seq(IoTasks)  BY <2>3, <2>4, SeqMonotonic
  <2> HIDE DEF more
  <2> QED BY <1>0, <2>1, <2>2, <2>3, <2>5, IoTasksOnly
<1>6. CASE Prepare
  <2> DEFINE none == <<>>
  <2>1. NextTask("prepare") /\ tasks' = Tail(tasks)  BY <1>6 DEF Prepare
  <2>2. tasks # <<>> /\ Head(tasks) \in IoTasks  BY <2>1, TaskThatRuns, TaskFacts
  <2>3. Tail(tasks) \in Seq(AnyTask)  BY <1>1, <2>2, HeadThenTail
  <2>4. none \in Seq(IoTasks) /\ tasks' = Tail(tasks) \o none
    BY <2>1, <2>3, ConcatEmptySeq
  <2> HIDE DEF none
  <2> QED BY <1>0, <2>2, <2>4, IoTasksOnly
<1>7. CASE Finally
  <2> DEFINE more == Granted(fairSem, 1)
  <2>1. NextTask("finally") /\ tasks' = Tail(tasks) \o more  BY <1>7 DEF Finally
  <2>2. tasks # <<>> /\ Head(tasks) \in IoTasks  BY <2>1, TaskThatRuns, TaskFacts
  <2>3. more \in Seq({ExecuteTask})  BY <1>1, SignalSem
  <2>4. more \in Seq(IoTasks)  BY <1>2, <2>3, SeqMonotonic
  <2> HIDE DEF more
  <2> QED BY <1>0, <2>1, <2>2, <2>4, IoTasksOnly
<1>8. CASE PollIo
  <2> DEFINE n == IF Len(events) <= MaxAio THEN Len(events) ELSE MaxAio
             more == Finallys(SubSeq(events, 1, n)) \o Granted(aioSem, n)
  <2>1. tasks = <<>> /\ tasks' = more  BY <1>8 DEF PollIo
  <2>2. events \in Seq(Requests) /\ n \in 0 .. Len(events) /\ n \in Nat
    BY IoAssumption DEF Types, IoTypes
  <2>3. SubSeq(events, 1, n) \in Seq(Requests)  BY <2>2, CountSplit
  <2>4. Finallys(SubSeq(events, 1, n)) \in Seq(IoTasks)
    BY <2>3, FinallysCount, Kinds, SeqMonotonic
  <2>5. Granted(aioSem, n) \in Seq(Prepares)  BY <1>1, <2>2, SignalSem
  <2>6. Granted(aioSem, n) \in Seq(IoTasks)  BY <1>2, <2>5, SeqMonotonic
  <2>7. more \in Seq(IoTasks)  BY <2>4, <2>6, ConcatProperties
  <2> HIDE DEF more
  <2>8. tasks' = tasks \o more  BY <2>1, <2>7, ConcatEmptySeq
  <2> QED BY <1>0, <2>7, <2>8, IoTasksOnly
<1>9. CASE SubmitBad
  <2> DEFINE f == Task("finally", Head(pending))
             one == <<f>>
             g == Granted(aioSem, 1)
             more == one \o g
  <2>1. pending # <<>> /\ tasks' = Append(tasks, f) \o g  BY <1>9 DEF SubmitBad
  <2>2. Head(pending) \in Requests
    <3>1. pending \in Seq(Requests)  BY DEF Types, IoTypes
    <3> QED BY <2>1, <3>1, HeadThenTail
  <2>3. f \in IoTasks /\ f \in AnyTask  BY <2>2, TaskFacts
  <2>4. g \in Seq(Prepares)  BY <1>1, SignalSem
  <2>5. g \in Seq(IoTasks) /\ g \in Seq(AnyTask)  BY <1>2, <2>4, SeqMonotonic, Kinds
  <2>6. one \in Seq(IoTasks) /\ one \in Seq(AnyTask) /\ Append(tasks, f) = tasks \o one
    BY <1>1, <2>3, AppendIsConcat
  <2> HIDE DEF one, g
  <2>7. more \in Seq(IoTasks)  BY <2>5, <2>6, ConcatProperties
  <2>8. (tasks \o one) \o g = tasks \o more  BY <1>1, <2>5, <2>6, ConcatAssociative
  <2>9. tasks' = tasks \o more  BY <2>1, <2>6, <2>8
  <2> HIDE DEF more
  <2> QED BY <1>0, <2>7, <2>9, IoTasksOnly
<1>10. CASE \/ PollAio \/ SubmitAgain \/ FlushDone \/ \E k \in Requests : SubmitBatch(k)
  <2>1. tasks' = tasks  BY <1>10 DEF PollAio, SubmitAgain, FlushDone, SubmitBatch
  <2> QED BY <1>0, <2>1 DEF SamePlace, BeforeCount
<1> QED BY <1>3, <1>4, <1>5, <1>6, <1>7, <1>8, <1>9, <1>10 DEF IoReactor, Flush

(* The push of a call into the ring.                                       *)
LEMMA PushKeepsPlaces ==
    ASSUME Types, PushCall, NEW c \in Calls
    PROVE  SamePlace(c)
<1> DEFINE d == Head(tasks).req
           K == {Task("push", c)}
           i == Indicator(d = c)
<1>1. /\ NextTask("push") /\ toThread' = Append(toThread, d) /\ tasks' = Tail(tasks)
      /\ UNCHANGED <<room, taken>>
  BY DEF PushCall, Push
<1>2. tasks # <<>> /\ d \in Calls /\ Head(tasks) = Task("push", d)
  BY <1>1, TaskThatRuns
<1>3. Head(tasks) \in K <=> d = c  BY <1>2, PushFacts
<1>4. /\ Count(tasks, K) \in Nat /\ Count(tasks', K) \in Nat
      /\ Count(tasks', K) + Indicator(Head(tasks) \in K) = Count(tasks, K)
  BY <1>1, <1>2, TaskEnds
<1>5. Count(toThread', {c}) = Count(toThread, {c}) + Indicator(d \in {c})
  <2>1. toThread \in Seq(Calls)  BY DEF Types, CallTypes
  <2> QED BY <1>1, <1>2, <2>1, CountAppend
<1>6. Indicator(Head(tasks) \in K) = i /\ Indicator(d \in {c}) = i /\ i \in Nat
  BY <1>3 DEF Indicator
<1> DEFINE t1 == Count(tasks, K)
           t2 == Count(tasks', K)
           w == Count(room.waiters, K)
           r1 == Count(toThread, {c})
           r2 == Count(toThread', {c})
           k == Count(taken, {c})
<1>7. w \in Nat /\ r1 \in Nat /\ k \in Nat /\ t2 \in Nat  BY <1>4, BeforeNumbers
<1>8. t2 + i = t1 /\ r2 = r1 + i  BY <1>4, <1>5, <1>6
<1>9. BeforeCount(c) = t1 + w + r1 + k /\ BeforeCount(c)' = t2 + w + r2 + k
  BY <1>1 DEF BeforeCount
<1> HIDE DEF K, i, t1, t2, w, r1, r2, k
<1>10. BeforeCount(c)' = BeforeCount(c)  BY ONLY <1>6, <1>7, <1>8, <1>9
<1> QED BY <1>10 DEF SamePlace

(* The answers, which are with the reactor.                                *)
LEMMA ReturnKeepsPlaces ==
    ASSUME Types, Return, NEW c \in Calls
    PROVE  SamePlace(c)
<1> DEFINE K == {Task("push", c)}
<1>1. /\ NextTask("return") /\ tasks' = Tail(tasks) /\ UNCHANGED <<room, toThread, taken>>
  BY DEF Return, poolVars, threadVars
<1>2. tasks # <<>> /\ Head(tasks).req \in Calls /\ Head(tasks) = Task("return", Head(tasks).req)
  BY <1>1, TaskThatRuns
<1>3. Head(tasks) \notin K  BY <1>2, PushFacts
<1>4. /\ Count(tasks, K) \in Nat /\ Count(tasks', K) \in Nat
      /\ Count(tasks', K) + Indicator(Head(tasks) \in K) = Count(tasks, K)
  BY <1>1, <1>2, TaskEnds
<1>5. Count(tasks', K) = Count(tasks, K)  BY <1>3, <1>4 DEF Indicator
<1> QED BY <1>1, <1>5 DEF SamePlace, BeforeCount

LEMMA CompleteKeepsPlaces ==
    ASSUME Types, CompleteCalls, NEW c \in Calls
    PROVE  SamePlace(c)
<1> DEFINE K == {Task("push", c)}
           n == Len(completed)
           rs == Returns
           more == Granted(room, n)
<1>1. /\ room' = AfterSignal(room, n) /\ tasks' = (tasks \o rs) \o more
      /\ UNCHANGED <<toThread, taken>>
  BY DEF CompleteCalls, Complete, PushesGranted
<1>2. /\ room \in Semaphores(Pushes) /\ n \in Nat /\ completed \in Seq(Calls)
      /\ tasks \in Seq(AnyTask)
  BY Numbers DEF Types, CallTypes
<1>3. /\ more \in Seq(Pushes) /\ room' \in Semaphores(Pushes)
      /\ Count(room'.waiters, K) + Count(more, K) = Count(room.waiters, K)
  BY <1>1, <1>2, SignalSem, SignalCount
<1>4. more \in Seq(AnyTask)  BY <1>3, Kinds, SeqMonotonic
<1>5. rs \in Seq(AnyTask) /\ Count(rs, K) = 0
  <2> DEFINE R == [kind : {"return"}, req : Calls]
  <2>1. rs \in Seq(AnyTask)  BY ReturnsCount
  <2>2. rs \in Seq(R)
    <3>1. \A i \in 1 .. Len(completed) : Task("return", completed[i]) \in R
      BY <1>2 DEF Task
    <3>2. rs = [i \in 1 .. Len(completed) |-> Task("return", completed[i])]
      BY DEF Returns
    <3> QED BY <1>2, <3>1, <3>2
  <2>3. R \intersect K = {}  BY DEF Task
  <2> HIDE DEF R
  <2> QED BY <2>1, <2>2, <2>3, CountNone
<1> HIDE DEF K, n, rs, more
<1>6. Count(tasks', K) = Count(tasks, K) + Count(rs, K) + Count(more, K)
  <2> DEFINE longer == tasks \o rs
  <2>1. longer \in Seq(AnyTask) /\ Count(longer, K) = Count(tasks, K) + Count(rs, K)
    BY <1>2, <1>5, CountConcat
  <2>2. tasks' = longer \o more  BY <1>1
  <2> HIDE DEF longer
  <2>3. Count(longer \o more, K) = Count(longer, K) + Count(more, K)
    BY <1>4, <2>1, CountConcat
  <2> QED BY <2>1, <2>2, <2>3
<1> DEFINE t1 == Count(tasks, K)
           t2 == Count(tasks', K)
           w1 == Count(room.waiters, K)
           w2 == Count(room'.waiters, K)
           m == Count(more, K)
           r == Count(toThread, {c})
           k == Count(taken, {c})
<1>7. t1 \in Nat /\ w1 \in Nat /\ r \in Nat /\ k \in Nat  BY BeforeNumbers DEF K
<1>8. m \in Nat /\ w2 \in Nat  BY <1>3, <1>4, CountType DEF Semaphores
<1>9. t2 = t1 + m /\ w2 + m = w1  BY <1>3, <1>5, <1>6, <1>7, <1>8
<1>10. BeforeCount(c) = t1 + w1 + r + k /\ BeforeCount(c)' = t2 + w2 + r + k
  BY <1>1 DEF BeforeCount, K
<1> HIDE DEF t1, t2, w1, w2, m, r, k
<1>11. BeforeCount(c)' = BeforeCount(c)  BY ONLY <1>7, <1>8, <1>9, <1>10
<1> QED BY <1>11 DEF SamePlace

(* The thread, until it makes a call.                                      *)
LEMMA ThreadKeepsPlaces ==
    ASSUME Types, Missed, ReadEventfd \/ Take \/ Notify \/ Drain, tasks' = tasks,
           NEW c \in Calls
    PROVE  SamePlace(c)
<1>1. CASE ReadEventfd \/ Notify \/ Drain
  <2>1. UNCHANGED <<tasks, room, toThread, taken>>
    BY <1>1 DEF ReadEventfd, Notify, Drain
  <2> QED BY <2>1 DEF SamePlace, BeforeCount
<1>2. CASE Take
  <2>1. taken = <<>> /\ taken' = toThread /\ toThread' = <<>> /\ room' = room
    BY <1>2 DEF Take, Missed
  <2>2. Count(taken, {c}) = 0 /\ Count(toThread', {c}) = 0  BY <2>1, CountEmpty
  <2> DEFINE p == Count(tasks, {Task("push", c)})
             w == Count(room.waiters, {Task("push", c)})
             r == Count(toThread, {c})
  <2>3. p \in Nat /\ w \in Nat /\ r \in Nat  BY BeforeNumbers
  <2>4. BeforeCount(c) = p + w + r + 0 /\ BeforeCount(c)' = p + w + 0 + r
    BY <2>1, <2>2 DEF BeforeCount
  <2> HIDE DEF p, w, r
  <2>5. BeforeCount(c)' = BeforeCount(c)  BY ONLY <2>3, <2>4
  <2> QED BY <2>5 DEF SamePlace
<1> QED BY <1>1, <1>2

(* The thread makes a call, the only one that gets behind it.              *)
LEMMA ProcessPlaces ==
    ASSUME IInv, Process, tasks' = tasks, NEW c, c = Head(taken)
    PROVE  /\ c \in Calls /\ c \in 1 .. made /\ c \notin returned
           /\ BeforeCount(c) # 0 /\ GetsMade(c)
           /\ \A d \in Calls \ {c} : SamePlace(d)
<1>0. Types  BY DEF IInv
<1>1. taken # <<>> /\ taken' = Tail(taken) /\ UNCHANGED <<room, toThread>>
  BY DEF Process
<1>2. taken \in Seq(Calls)  BY <1>0 DEF Types, CallTypes
<1>3. c \in Calls /\ taken' \in Seq(Calls)  BY <1>1, <1>2, HeadThenTail
<1>4. ASSUME NEW d \in Calls
      PROVE  /\ BeforeCount(d) = Indicator(c \in {d}) + BeforeCount(d)'
             /\ BeforeCount(d)' \in Nat /\ BeforeCount(d) \in Nat
  <2> DEFINE p == Count(tasks, {Task("push", d)})
             w == Count(room.waiters, {Task("push", d)})
             r == Count(toThread, {d})
             k1 == Count(taken, {d})
             k2 == Count(taken', {d})
             i == Indicator(c \in {d})
  <2>1. p \in Nat /\ w \in Nat /\ r \in Nat /\ i \in Nat
    BY <1>0, BeforeNumbers DEF Indicator
  <2>2. k1 = i + k2 /\ k2 \in Nat  BY <1>1, <1>2, <1>3, CountHead, CountType
  <2>3. BeforeCount(d) = p + w + r + k1 /\ BeforeCount(d)' = p + w + r + k2
    BY <1>1 DEF BeforeCount
  <2> HIDE DEF p, w, r, k1, k2, i
  <2>4. BeforeCount(d) = i + BeforeCount(d)' /\ BeforeCount(d)' \in Nat
    BY ONLY <2>1, <2>2, <2>3
  <2> QED BY <1>0, <2>4, BeforeNumbers DEF i
<1>5. Indicator(c \in {c}) = 1  BY DEF Indicator
<1>6. BeforeCount(c) # 0  BY <1>3, <1>4, <1>5
<1>7. c \in 1 .. made /\ c \notin returned /\ BeforeCount(c) \in {0, 1}
  BY <1>3, <1>6, OnceOnly
<1>8. GetsMade(c)  BY <1>3, <1>4, <1>5, <1>7 DEF GetsMade
<1>9. ASSUME NEW d \in Calls \ {c} PROVE SamePlace(d)
  <2>1. Indicator(c \in {d}) = 0  BY <1>9 DEF Indicator
  <2> QED BY <1>4, <2>1 DEF SamePlace
<1> QED BY <1>3, <1>6, <1>7, <1>8, <1>9

(* A new call waits for room or is on its way at once.                     *)
LEMMA NewCall ==
    ASSUME IInv, workload \in Workloads, NEW op, NEW o, NEW fd, Submit(op, o, fd),
           call \in [Calls -> [op : CallKinds, of : Objects \union {NoObject}, fd : 0 .. MaxOpens]],
           NEW c, c = made + 1
    PROVE  /\ c \in Calls /\ c \notin 1 .. made /\ made' = c /\ 1 .. c = (1 .. made) \union {c}
           /\ returned' = returned /\ c \notin returned
           /\ call' = [call EXCEPT ![c] = [op |-> op, of |-> o, fd |-> fd]]
           /\ ~GetsMade(c)
           /\ \A d \in Calls \ {c} : SamePlace(d)
<1> DEFINE w == Task("push", c)
           more == ReadyAfterWait(room, w)
<1>0. Types /\ CallsCounted  BY DEF IInv, CallParts
<1>1. /\ made < workload.calls /\ made' = c
      /\ room' = AfterWait(room, w) /\ tasks' = tasks \o more
      /\ UNCHANGED <<toThread, taken, returned>>
      /\ call' = [call EXCEPT ![c] = [op |-> op, of |-> o, fd |-> fd]]
  BY DEF Submit, threadVars
<1>2. c \in Calls /\ made \in Nat /\ 1 .. c = (1 .. made) \union {c} /\ c \notin 1 .. made
  <2>1. workload.calls \in 0 .. MaxCalls  BY CallsAssumption DEF Workloads, Load
  <2>2. made \in Nat /\ MaxCalls \in Nat  BY <1>0, Numbers, CallsAssumption
  <2>3. c \in 1 .. MaxCalls  BY <1>1, <2>1, <2>2
  <2> QED BY <2>2, <2>3 DEF Calls
<1>3. w \in Pushes /\ w \in AnyTask  BY <1>2, CallTaskFacts
<1>4. room \in Semaphores(Pushes)  BY <1>0 DEF Types, CallTypes
<1>5. room' \in Semaphores(Pushes) /\ more \in Seq({w})
  BY <1>1, <1>3, <1>4, WaitSem
<1>6. more \in Seq(AnyTask)  BY <1>0, <1>3, <1>5, MoreTasks
<1>7. ASSUME NEW d \in Calls
      PROVE  BeforeCount(d)' = BeforeCount(d) + Indicator(d = c)
  <2> DEFINE K == {Task("push", d)}
             t1 == Count(tasks, K)
             t2 == Count(tasks', K)
             w1 == Count(room.waiters, K)
             w2 == Count(room'.waiters, K)
             m == Count(more, K)
             i == Indicator(d = c)
             r == Count(toThread, {d})
             k == Count(taken, {d})
  <2>1. w2 + m = w1 + Indicator(w \in K)  BY <1>1, <1>3, <1>4, WaitCount
  <2>2. Indicator(w \in K) = i /\ i \in Nat  BY <1>2, PushFacts DEF Indicator
  <2>3. t2 = t1 + m /\ m \in Nat  BY <1>0, <1>1, <1>6, TasksCome
  <2>4. t1 \in Nat /\ w1 \in Nat /\ r \in Nat /\ k \in Nat  BY <1>0, BeforeNumbers
  <2>5. w2 \in Nat  BY <1>5, CountType DEF Semaphores
  <2>6. BeforeCount(d) = t1 + w1 + r + k /\ BeforeCount(d)' = t2 + w2 + r + k
    BY <1>1 DEF BeforeCount
  <2>7. w2 + m = w1 + i  BY <2>1, <2>2
  <2> HIDE DEF K, t1, t2, w1, w2, m, i, r, k
  <2>8. BeforeCount(d)' = BeforeCount(d) + i
    BY ONLY <2>2, <2>3, <2>4, <2>5, <2>6, <2>7
  <2> QED BY <2>8 DEF i
<1>8. c \notin returned
  <2>1. CallCount(c) = 0  BY <1>0, <1>2 DEF CallsCounted, Indicator, Calls
  <2> DEFINE a == Count(room.waiters, TasksOfCall(c))
             b == Count(tasks, TasksOfCall(c))
             h == InThread(c)
             z == Indicator(c \in returned)
  <2>2. a \in Nat /\ b \in Nat /\ h \in Nat /\ z \in Nat  BY <1>0, <1>2, CallNumbers
  <2>3. a + b + h + z = 0  BY <2>1 DEF CallCount
  <2> HIDE DEF a, b, h, z
  <2>4. z = 0  BY ONLY <2>2, <2>3
  <2> QED BY <2>4 DEF z, Indicator
<1>9. ~GetsMade(c)
  <2>1. BeforeCount(c) \in Nat  BY <1>0, <1>2, BeforeNumbers
  <2>2. BeforeCount(c)' = BeforeCount(c) + 1  BY <1>2, <1>7 DEF Indicator
  <2> QED BY <2>1, <2>2 DEF GetsMade
<1>10. ASSUME NEW d \in Calls \ {c} PROVE SamePlace(d)
  <2>1. BeforeCount(d)' = BeforeCount(d) + 0 /\ BeforeCount(d) \in Nat
    BY <1>0, <1>7, BeforeNumbers DEF Indicator
  <2> QED BY <2>1 DEF SamePlace
<1> QED BY <1>1, <1>2, <1>8, <1>9, <1>10

-----------------------------------------------------------------------------
(* Who has a descriptor.                                                   *)
LEMMA HoldersFacts ==
    ASSUME NEW fd
    PROVE  /\ IsFiniteSet(Holders(fd)) /\ Cardinality(Holders(fd)) \in Nat
           /\ \A o : o \in Holders(fd) <=> o \in Objects /\ Live(o) /\ object[o].fd = fd
           /\ NobodyHas(fd) <=> Holders(fd) = {}
<1>1. \A o : o \in Holders(fd) <=> o \in Objects /\ Live(o) /\ object[o].fd = fd
  BY DEF Holders, Live
<1>2. IsFiniteSet(Objects) /\ Holders(fd) \subseteq Objects
  BY <1>1, FilesAssumption
<1>3. NobodyHas(fd) <=> Holders(fd) = {}  BY <1>1 DEF NobodyHas
<1> QED BY <1>1, <1>2, <1>3, FS_Subset, FS_CardinalityType

LEMMA NextFreeIsFree ==
    ASSUME NextFree \in Objects
    PROVE  Free(NextFree) /\ ~Live(NextFree) /\ object[NextFree].kind # "awaited"
<1>1. \E o \in Objects : Free(o)  BY FilesAssumption DEF NextFree
<1>2. Free(NextFree)  BY <1>1 DEF NextFree
<1> QED BY <1>2 DEF Free, Live, IsFile, IsHandle

(* What is open is a descriptor.                                           *)
LEMMA OpenDescriptors ==
    ASSUME FileTypes
    PROVE  /\ open \subseteq 1 .. opened /\ 1 .. opened \subseteq Descriptors
           /\ open \subseteq 0 .. MaxOpens /\ 1 .. opened \subseteq 0 .. MaxOpens
           /\ opened \in Nat /\ MaxOpens \in Nat
BY FilesAssumption DEF FileTypes, Descriptors

(* A file or handle, the descriptor it has, and who else has it.           *)
LEMMA Share1 ==
    ASSUME FileTypes, SharesExact, NEW o \in Objects, Live(o), NEW fd, fd = object[o].fd
    PROVE  /\ fd \in open /\ fd \in Descriptors /\ o \in Holders(fd)
           /\ IF object[o].counted
              THEN count[fd] = Cardinality(Holders(fd)) ELSE Holders(fd) = {o}
           /\ \A q \in Holders(fd) : ~object[q].counted => q = o
<1>1. fd \in open /\ fd \in Descriptors /\ o \in Holders(fd)
  BY OpenDescriptors, HoldersFacts DEF SharesExact
<1>2. \A q \in Holders(fd) :
          IF object[q].counted THEN count[fd] = Cardinality(Holders(fd)) ELSE Holders(fd) = {q}
  BY <1>1 DEF SharesExact
<1> QED BY <1>1, <1>2

(* The fetch_add(-1) knows who is the last.                                *)
LEMMA LastIsAlone ==
    ASSUME FileTypes, SharesExact, NEW o \in Objects, Live(o), NEW fd, fd = object[o].fd
    PROVE  /\ IsLast(o) <=> Holders(fd) = {o}
           /\ ~IsLast(o) => \E q \in Holders(fd) : q # o
<1> DEFINE H == Holders(fd)
<1>1. /\ IsFiniteSet(H) /\ o \in H
      /\ IF object[o].counted THEN count[fd] = Cardinality(H) ELSE H = {o}
  BY HoldersFacts, Share1
<1>2. H = {o} => Cardinality(H) = 1  BY FS_Singleton
<1>3. Cardinality(H) = 1 => H = {o}
  <2> SUFFICES ASSUME Cardinality(H) = 1 PROVE H = {o}  OBVIOUS
  <2>1. \E x : H = {x}  BY <1>1, FS_Singleton
  <2> QED BY <1>1, <2>1
<1> HIDE DEF H
<1>4. IsLast(o) <=> H = {o}  BY <1>1, <1>2, <1>3 DEF IsLast
<1> QED BY <1>1, <1>4 DEF H

(* What a file or handle that gives up its share leaves to the others.     *)
LEMMA GivenUp ==
    ASSUME FileTypes, SharesExact, NEW o \in Objects, Live(o), GiveUp(o)
    PROVE  /\ object' \in [Objects -> [kind : ObjectKinds, fd : 0 .. MaxOpens, counted : BOOLEAN]]
           /\ count' \in [Descriptors -> Int]
           /\ \A q \in Objects \ {o} : object'[q] = object[q]
           /\ object'[o] = Nothing
           /\ \A q \in Objects : Live(q)' <=> q # o /\ Live(q)
           /\ \A fd : Holders(fd)' = Holders(fd) \ {o}
           /\ \A fd \in Descriptors : \A q \in Holders(fd)' :
                  IF object'[q].counted
                  THEN count'[fd] = Cardinality(Holders(fd)') ELSE Holders(fd)' = {q}
<1> DEFINE f == object[o].fd
           types == [kind : ObjectKinds, fd : 0 .. MaxOpens, counted : BOOLEAN]
<1>1. /\ object \in [Objects -> types]
      /\ count \in [Descriptors -> Int] /\ MaxOpens \in Nat /\ f \in Descriptors
  BY OpenDescriptors, Share1 DEF FileTypes
<1>2. /\ object' = [object EXCEPT ![o] = Nothing]
      /\ object[o].counted => count' = [count EXCEPT ![f] = @ - 1]
      /\ ~object[o].counted => count' = count
  BY DEF GiveUp
<1>3. Nothing \in types /\ Nothing.kind = "nothing"
  BY <1>1 DEF Nothing, ObjectKinds, NoDescriptor
<1>4. /\ object' \in [Objects -> types] /\ object'[o] = Nothing
      /\ \A q \in Objects \ {o} : object'[q] = object[q]
  BY <1>1, <1>2, <1>3
<1>5. /\ count' \in [Descriptors -> Int]
      /\ \A e \in Descriptors : e # f => count'[e] = count[e]
      /\ object[o].counted => count'[f] = count[f] - 1
  <2>1. CASE object[o].counted  BY <1>1, <1>2, <2>1
  <2>2. CASE ~object[o].counted  BY <1>1, <1>2, <2>2
  <2> QED BY <2>1, <2>2
<1>6. \A q \in Objects : Live(q)' <=> q # o /\ Live(q)
  BY <1>3, <1>4 DEF Live, IsFile, IsHandle
<1>7. ASSUME NEW fd PROVE Holders(fd)' = Holders(fd) \ {o}
  <2>1. Holders(fd)' = {q \in Objects : Live(q)' /\ object'[q].fd = fd}
    BY DEF Holders, Live
  <2> QED BY <1>4, <1>6, <2>1, HoldersFacts
<1>8. ASSUME NEW fd \in Descriptors, NEW q \in Holders(fd)'
      PROVE  IF object'[q].counted
             THEN count'[fd] = Cardinality(Holders(fd)') ELSE Holders(fd)' = {q}
  <2>1. Holders(fd)' = Holders(fd) \ {o}  BY <1>7
  <2>2. q \in Holders(fd) /\ q # o /\ q \in Objects /\ Live(q) /\ object[q].fd = fd
    BY <1>8, <2>1, HoldersFacts
  <2>3. object'[q] = object[q]  BY <1>4, <2>2
  <2>4. IF object[q].counted THEN count[fd] = Cardinality(Holders(fd)) ELSE Holders(fd) = {q}
    BY <2>2, Share1
  <2>5. CASE fd # f
    <3>1. o \notin Holders(fd)  BY <2>5, HoldersFacts
    <3>2. Holders(fd)' = Holders(fd) /\ count'[fd] = count[fd]
      BY <1>5, <2>1, <2>5, <3>1
    <3> QED BY <2>3, <2>4, <3>2
  <2>6. CASE fd = f
    <3>1. o \in Holders(fd) /\ object[o].counted /\ object[q].counted
      <4>1. o \in Holders(fd)  BY <2>6, HoldersFacts
      <4> QED BY <2>2, <4>1, Share1
    <3>2. count'[fd] = count[fd] - 1 /\ count[fd] = Cardinality(Holders(fd))
      BY <1>5, <2>4, <2>6, <3>1
    <3>3. Cardinality(Holders(fd) \ {o}) = Cardinality(Holders(fd)) - 1
      BY <3>1, HoldersFacts, FS_RemoveElement
    <3>4. count'[fd] = Cardinality(Holders(fd)')  BY <2>1, <3>2, <3>3
    <3> QED BY <2>3, <3>1, <3>4
  <2> QED BY <2>5, <2>6
<1> QED BY <1>4, <1>5, <1>6, <1>7, <1>8

-----------------------------------------------------------------------------
(* Steps that change nothing of the files, and make no call.               *)
LEMMA FilesFrame ==
    ASSUME FInv, UNCHANGED <<fileVars, callVars>>,
           \A c \in Closing : GetsMade(c) <=> BeforeCount(c) = 0
    PROVE  FInv'
<1>1. /\ UNCHANGED <<object, count, open, opened, made, call, returned>>
      /\ Opening' = Opening /\ Closing' = Closing
  BY DEF fileVars, callVars, Opening, Closing
<1>2. /\ \A o : (Live(o)' <=> Live(o)) /\ (IsHandle(o)' <=> IsHandle(o))
      /\ \A fd : Holders(fd)' = Holders(fd) /\ (NobodyHas(fd)' <=> NobodyHas(fd))
  BY <1>1 DEF Live, IsFile, IsHandle, Holders, NobodyHas
<1>3. FileTypes'  BY <1>1 DEF FInv, FileTypes
<1>4. SharesExact'  BY <1>1, <1>2 DEF FInv, SharesExact
<1>5. OpensExact'  BY <1>1, <1>2 DEF FInv, OpensExact
<1>6. ClosesExact'  BY <1>1, <1>2 DEF FInv, ClosesExact, GetsMade
<1>7. OpenIsKept'  BY <1>1, <1>2 DEF FInv, OpenIsKept
<1> QED BY <1>3, <1>4, <1>5, <1>6, <1>7 DEF FInv

(* A call that waits or is on its way is one of Calls.                     *)
LEMMA OnTheirWay ==
    ASSUME Types
    PROVE  /\ 1 .. made \subseteq Calls
           /\ \A c : c \in Opening <=> c \in 1 .. made /\ c \notin returned /\ call[c].op = "open"
           /\ \A c : c \in Closing <=> c \in 1 .. made /\ c \notin returned /\ call[c].op = "close"
BY CallsAssumption DEF Types, CallTypes, Calls, Opening, Closing

(* What a call that is made adds.                                          *)
LEMMA CallIsMade ==
    ASSUME IInv, workload \in Workloads, FileTypes, NEW op \in CallKinds,
           NEW o \in Objects \union {NoObject}, NEW fd \in 0 .. MaxOpens, Submit(op, o, fd),
           NEW c, c = made + 1
    PROVE  /\ c \in Calls /\ c \notin Opening /\ c \notin Closing
           /\ call' \in [Calls -> [op : CallKinds, of : Objects \union {NoObject},
                                    fd : 0 .. MaxOpens]]
           /\ call'[c].op = op /\ call'[c].of = o /\ call'[c].fd = fd
           /\ \A d \in Opening \union Closing :
                  d \in Calls /\ d # c /\ call'[d] = call[d] /\ SamePlace(d)
           /\ Opening' = Opening \union (IF op = "open" THEN {c} ELSE {})
           /\ Closing' = Closing \union (IF op = "close" THEN {c} ELSE {})
           /\ ~GetsMade(c)
<1> DEFINE new == [op |-> op, of |-> o, fd |-> fd]
           types == [op : CallKinds, of : Objects \union {NoObject}, fd : 0 .. MaxOpens]
<1>0. Types /\ call \in [Calls -> types]  BY DEF IInv, FileTypes
<1>1. /\ c \in Calls /\ c \notin 1 .. made /\ made' = c /\ 1 .. c = (1 .. made) \union {c}
      /\ returned' = returned /\ c \notin returned
      /\ call' = [call EXCEPT ![c] = new]
      /\ ~GetsMade(c)
      /\ \A d \in Calls \ {c} : SamePlace(d)
  BY NewCall DEF FileTypes
<1>2. /\ new \in types /\ new.op = op /\ new.of = o /\ new.fd = fd  OBVIOUS
<1> HIDE DEF new, types
<1>3. /\ call' \in [Calls -> types] /\ call'[c] = new
      /\ \A d \in Calls \ {c} : call'[d] = call[d]
  BY <1>0, <1>1, <1>2
<1>4. 1 .. made \subseteq Calls  BY <1>0, OnTheirWay
<1>5. /\ \A d : d \in Opening' <=> d \in 1 .. c /\ d \notin returned /\ call'[d].op = "open"
      /\ \A d : d \in Closing' <=> d \in 1 .. c /\ d \notin returned /\ call'[d].op = "close"
  BY <1>1 DEF Opening, Closing
<1>6. /\ \A d : d \in Opening <=> d \in 1 .. made /\ d \notin returned /\ call[d].op = "open"
      /\ \A d : d \in Closing <=> d \in 1 .. made /\ d \notin returned /\ call[d].op = "close"
  BY <1>0, OnTheirWay
<1>7. Opening' = Opening \union (IF op = "open" THEN {c} ELSE {})
  BY <1>1, <1>2, <1>3, <1>4, <1>5, <1>6
<1>8. Closing' = Closing \union (IF op = "close" THEN {c} ELSE {})
  BY <1>1, <1>2, <1>3, <1>4, <1>5, <1>6
<1>9. \A d \in Opening \union Closing :
          d \in Calls /\ d # c /\ call'[d] = call[d] /\ SamePlace(d)
  BY <1>1, <1>3, <1>4, <1>6
<1>10. c \notin Opening /\ c \notin Closing  BY <1>1, <1>6
<1> QED BY <1>1, <1>2, <1>3, <1>7, <1>8, <1>9, <1>10 DEF types

(* flush(), stat(), remove_file() and the like.                            *)
LEMMA OtherCall ==
    ASSUME IInv, workload \in Workloads, FInv, NEW op \in {"path", "use"},
           NEW o \in Objects \union {NoObject}, NEW fd \in 0 .. MaxOpens, Submit(op, o, fd),
           UNCHANGED fileVars
    PROVE  FInv'
<1>c. PICK c : c = made + 1  OBVIOUS
<1>0. FileTypes /\ op \in CallKinds /\ op # "open" /\ op # "close"
  BY DEF FInv, CallKinds
<1>1. /\ call' \in [Calls -> [op : CallKinds, of : Objects \union {NoObject},
                               fd : 0 .. MaxOpens]]
      /\ \A d \in Opening \union Closing : d \in Calls /\ call'[d] = call[d] /\ SamePlace(d)
      /\ Opening' = Opening /\ Closing' = Closing
  <2>1. /\ call' \in [Calls -> [op : CallKinds, of : Objects \union {NoObject},
                                 fd : 0 .. MaxOpens]]
        /\ \A d \in Opening \union Closing :
               d \in Calls /\ d # c /\ call'[d] = call[d] /\ SamePlace(d)
        /\ Opening' = Opening \union (IF op = "open" THEN {c} ELSE {})
        /\ Closing' = Closing \union (IF op = "close" THEN {c} ELSE {})
    BY <1>c, <1>0, CallIsMade
  <2> QED BY <1>0, <2>1
<1>2. UNCHANGED <<object, count, open, opened>>  BY DEF fileVars
<1>3. /\ \A q : (Live(q)' <=> Live(q)) /\ (IsHandle(q)' <=> IsHandle(q))
      /\ \A e : Holders(e)' = Holders(e) /\ (NobodyHas(e)' <=> NobodyHas(e))
  BY <1>2 DEF Live, IsFile, IsHandle, Holders, NobodyHas
<1>4. FileTypes'  BY <1>0, <1>1, <1>2 DEF FileTypes
<1>5. SharesExact'  BY <1>2, <1>3 DEF FInv, SharesExact
<1>6. OpensExact'  BY <1>1, <1>2, <1>3 DEF FInv, OpensExact
<1>7. ClosesExact'  BY <1>1, <1>2, <1>3 DEF FInv, ClosesExact, SamePlace
<1>8. OpenIsKept'  BY <1>1, <1>2, <1>3 DEF FInv, OpenIsKept
<1> QED BY <1>4, <1>5, <1>6, <1>7, <1>8 DEF FInv

(* A fiber asks for a file: nobody else waits with its object or has the   *)
(* descriptor it will get.                                                 *)
LEMMA OpenCalled ==
    ASSUME IInv, workload \in Workloads, FInv, CallOpenFile
    PROVE  FInv'
<1>c. PICK c, p, f : c = made + 1 /\ p = NextFree /\ f = opened + 1  OBVIOUS
<1> DEFINE types == [kind : ObjectKinds, fd : 0 .. MaxOpens, counted : BOOLEAN]
<1>0. /\ FileTypes /\ SharesExact /\ OpensExact /\ ClosesExact /\ OpenIsKept
      /\ "open" \in CallKinds
  BY DEF FInv, CallKinds
<1>1. /\ Submit("open", p, f) /\ p \in Objects /\ opened < MaxOpens
      /\ object' = [object EXCEPT ![p] = Awaited] /\ opened' = f
      /\ UNCHANGED <<count, open>>
  BY <1>c DEF CallOpenFile, Await
<1>2. ~Live(p) /\ object[p].kind # "awaited"  BY <1>c, <1>1, NextFreeIsFree
<1>3. /\ f \in 1 .. MaxOpens /\ f \in 0 .. MaxOpens /\ f \notin 1 .. opened
      /\ 1 .. opened \subseteq 1 .. f /\ f \in 1 .. f
      /\ open \subseteq 1 .. opened
  BY <1>c, <1>0, <1>1, OpenDescriptors
<1>4. /\ call' \in [Calls -> [op : CallKinds, of : Objects \union {NoObject},
                               fd : 0 .. MaxOpens]]
      /\ c \notin Opening /\ c \notin Closing
      /\ call'[c].of = p /\ call'[c].fd = f
      /\ \A d \in Opening \union Closing : d \in Calls /\ call'[d] = call[d] /\ SamePlace(d)
      /\ Opening' = Opening \union {c} /\ Closing' = Closing
  <2> PICK op, at : op = "open" /\ at = p  OBVIOUS
  <2>1. at \in Objects \union {NoObject} /\ f \in 0 .. MaxOpens /\ op \in CallKinds
    BY <1>0, <1>1, <1>3
  <2>2. FileTypes /\ Submit(op, at, f)  BY <1>0, <1>1
  <2>3. c \notin Opening /\ c \notin Closing  BY <1>c, <2>1, <2>2, CallIsMade
  <2>4. call' \in [Calls -> [op : CallKinds, of : Objects \union {NoObject},
                               fd : 0 .. MaxOpens]]
    BY <1>c, <2>1, <2>2, CallIsMade
  <2>5. call'[c].of = at /\ call'[c].fd = f  BY <1>c, <2>1, <2>2, CallIsMade
  <2>6. \A d \in Opening \union Closing :
            d \in Calls /\ d # c /\ call'[d] = call[d] /\ SamePlace(d)
    BY <1>c, <2>1, <2>2, CallIsMade
  <2>7. Opening' = Opening \union (IF op = "open" THEN {c} ELSE {})
    BY <1>c, <2>1, <2>2, CallIsMade
  <2>8. Closing' = Closing \union (IF op = "close" THEN {c} ELSE {})
    BY <1>c, <2>1, <2>2, CallIsMade
  <2>9. ~GetsMade(c)  BY <1>c, <2>1, <2>2, CallIsMade
  <2> QED BY <2>3, <2>4, <2>5, <2>6, <2>7, <2>8, <2>9
<1>5. /\ Awaited \in types /\ Awaited.kind = "awaited"
  BY <1>0, OpenDescriptors DEF Awaited, ObjectKinds, NoDescriptor
<1>6. /\ object' \in [Objects -> types] /\ object'[p] = Awaited
      /\ \A q \in Objects \ {p} : object'[q] = object[q]
  BY <1>0, <1>1, <1>5 DEF FileTypes
<1>7. /\ \A q \in Objects : (Live(q)' <=> Live(q)) /\ (IsHandle(q)' <=> IsHandle(q))
      /\ \A q \in Objects : Live(q) => object'[q] = object[q]
  BY <1>2, <1>5, <1>6 DEF Live, IsFile, IsHandle
<1>8. \A e : Holders(e)' = Holders(e) /\ (NobodyHas(e)' <=> NobodyHas(e))
  <2> SUFFICES ASSUME NEW e PROVE Holders(e)' = Holders(e) /\ (NobodyHas(e)' <=> NobodyHas(e))
    OBVIOUS
  <2>1. /\ Holders(e)' = {q \in Objects : Live(q)' /\ object'[q].fd = e}
        /\ Holders(e) = {q \in Objects : Live(q) /\ object[q].fd = e}
    BY DEF Holders, Live
  <2> QED BY <1>7, <2>1 DEF NobodyHas
<1>9. FileTypes'  BY <1>0, <1>1, <1>3, <1>4, <1>6 DEF FileTypes
<1>10. SharesExact'
  <2>1. \A q \in Objects : Live(q)' =>
            object'[q].fd \in open /\ (IsHandle(q)' => object'[q].counted)
    BY <1>0, <1>7 DEF SharesExact
  <2>2. ASSUME NEW fd \in Descriptors, NEW q \in Holders(fd)'
        PROVE  IF object'[q].counted THEN count[fd] = Cardinality(Holders(fd))
               ELSE Holders(fd) = {q}
    <3>1. q \in Holders(fd) /\ q \in Objects /\ Live(q)  BY <1>8, <2>2, HoldersFacts
    <3> QED BY <1>0, <1>7, <3>1 DEF SharesExact
  <2> QED BY <1>1, <1>8, <2>1, <2>2 DEF SharesExact
<1>11. NobodyHas(f)  BY <1>0, <1>3 DEF SharesExact, NobodyHas
<1>12. OpensExact'
  <2>1. ASSUME NEW d \in Opening
        PROVE  /\ call'[d] = call[d] /\ call[d].of # p /\ call[d].fd # f
               /\ call'[d].of \in Objects /\ object'[call'[d].of].kind = "awaited"
               /\ call'[d].fd \in 1 .. f /\ NobodyHas(call[d].fd)
    BY <1>0, <1>2, <1>3, <1>4, <1>6 DEF OpensExact
  <2>2. ASSUME NEW d \in Closing PROVE call'[d] = call[d] /\ call[d].fd # f
    BY <1>0, <1>3, <1>4 DEF ClosesExact
  <2>3. ASSUME NEW d \in Opening'
        PROVE  /\ call'[d].of \in Objects /\ object'[call'[d].of].kind = "awaited"
               /\ call'[d].fd \in 1 .. f /\ NobodyHas(call'[d].fd)
               /\ \A e \in Opening' \ {d} :
                      call'[e].of # call'[d].of /\ call'[e].fd # call'[d].fd
               /\ \A e \in Closing' : call'[e].fd # call'[d].fd
    <3>1. CASE d = c  BY <1>1, <1>3, <1>4, <1>5, <1>6, <1>11, <2>1, <2>2, <3>1
    <3>2. CASE d \in Opening
      <4>1. /\ \A e \in Opening \ {d} : call[e].of # call[d].of /\ call[e].fd # call[d].fd
            /\ \A e \in Closing : call[e].fd # call[d].fd
        BY <1>0, <3>2 DEF OpensExact
      <4> QED BY <1>4, <2>1, <2>2, <3>2, <4>1
    <3> QED BY <1>4, <2>3, <3>1, <3>2
  <2> QED BY <1>1, <1>8, <2>3 DEF OpensExact
<1>13. ClosesExact'
  <2>1. ASSUME NEW d \in Closing'
        PROVE  /\ call'[d].fd \in 1 .. f /\ NobodyHas(call'[d].fd)
               /\ IF GetsMade(d) THEN call'[d].fd \notin open ELSE call'[d].fd \in open
               /\ \A e \in Closing' \ {d} : call'[e].fd # call'[d].fd
    BY <1>0, <1>3, <1>4, <2>1 DEF ClosesExact, SamePlace, GetsMade
  <2> QED BY <1>1, <1>8, <2>1 DEF ClosesExact, GetsMade
<1>14. OpenIsKept'
  <2> SUFFICES ASSUME NEW fd \in open \cap Accepted
               PROVE  \/ ~NobodyHas(fd)
                      \/ \E d \in Closing' : call'[d].fd = fd
                      \/ \E d \in Opening' : call'[d].fd = fd
    BY <1>1, <1>8 DEF OpenIsKept
  <2> QED BY <1>0, <1>4 DEF OpenIsKept
<1> QED BY <1>9, <1>10, <1>12, <1>13, <1>14 DEF FInv

-----------------------------------------------------------------------------
(* Steps that change who has a descriptor.                                 *)
LEMMA PlacesStay ==
    ASSUME UNCHANGED <<ioVars, poolVars, callVars>>
    PROVE  /\ UNCHANGED <<call, made, returned>>
           /\ Opening' = Opening /\ Closing' = Closing
           /\ \A c : SamePlace(c)
<1>1. UNCHANGED <<call, made, returned, tasks, room, toThread, taken>>
  BY DEF ioVars, poolVars, threadVars, callVars
<1> QED BY <1>1 DEF Opening, Closing, BeforeCount, SamePlace

(* close() of a file others share, and the destructors.                    *)
LEMMA ShareDropped ==
    ASSUME FInv, NEW o \in Objects, Live(o), GiveUp(o), opened' = opened,
           open' = IF IsLast(o) THEN open \ {object[o].fd} ELSE open,
           UNCHANGED <<ioVars, poolVars, callVars>>
    PROVE  FInv'
<1>f. PICK f : f = object[o].fd  OBVIOUS
<1>0. FileTypes /\ SharesExact /\ OpensExact /\ ClosesExact /\ OpenIsKept
  BY DEF FInv
<1>1. /\ object' \in [Objects -> [kind : ObjectKinds, fd : 0 .. MaxOpens, counted : BOOLEAN]]
      /\ count' \in [Descriptors -> Int]
      /\ \A q \in Objects \ {o} : object'[q] = object[q]
      /\ \A q \in Objects : Live(q)' <=> q # o /\ Live(q)
      /\ \A fd : Holders(fd)' = Holders(fd) \ {o}
      /\ \A fd \in Descriptors : \A q \in Holders(fd)' :
             IF object'[q].counted
             THEN count'[fd] = Cardinality(Holders(fd)') ELSE Holders(fd)' = {q}
  BY <1>0, GivenUp
<1>2. /\ UNCHANGED <<call, made, returned>> /\ Opening' = Opening /\ Closing' = Closing
      /\ \A c : SamePlace(c)
  BY PlacesStay
<1>3. /\ f \in open /\ o \in Holders(f) /\ (IsLast(o) <=> Holders(f) = {o})
      /\ ~IsLast(o) => \E q \in Holders(f) : q # o
  BY <1>f, <1>0, Share1, LastIsAlone
<1>4. /\ f \in open /\ open' \subseteq open /\ \A fd \in open : fd # f => fd \in open'
      /\ IsLast(o) <=> f \notin open'
  BY <1>f, <1>3
<1>5. ASSUME NEW fd, NobodyHas(fd)
      PROVE  fd # f /\ \A q \in Objects : Live(q)' => object'[q].fd # fd
  BY <1>f, <1>1, <1>3, <1>5, HoldersFacts DEF NobodyHas
<1>6. FileTypes'  BY <1>0, <1>1, <1>2, <1>4 DEF FileTypes
<1>7. ASSUME NEW q \in Objects, Live(q)'
      PROVE  object'[q].fd \in open' /\ (IsHandle(q)' => object'[q].counted)
  <2>1. q # o /\ Live(q) /\ object'[q] = object[q] /\ (IsHandle(q)' <=> IsHandle(q))
    BY <1>1, <1>7 DEF IsHandle
  <2>2. object[q].fd \in open /\ (IsHandle(q) => object[q].counted)
    BY <1>0, <2>1 DEF SharesExact
  <2>3. object[q].fd = f => q \in Holders(f)  BY <2>1, HoldersFacts
  <2>4. object[q].fd = f => ~IsLast(o)  BY <1>3, <2>1, <2>3
  <2> QED BY <1>4, <2>1, <2>2, <2>4
<1>8. SharesExact'  BY <1>1, <1>7 DEF SharesExact
<1>9. OpensExact'
  <2>1. ASSUME NEW c \in Opening
        PROVE  /\ object'[call[c].of] = object[call[c].of]
               /\ \A q \in Objects : Live(q)' => object'[q].fd # call[c].fd
    <3>1. call[c].of \in Objects /\ object[call[c].of].kind = "awaited" /\ NobodyHas(call[c].fd)
      BY <1>0 DEF OpensExact
    <3>2. call[c].of # o  BY <3>1 DEF Live, IsFile, IsHandle
    <3> QED BY <1>1, <1>5, <3>1, <3>2
  <2> QED BY <1>0, <1>2, <2>1 DEF OpensExact, NobodyHas
<1>10. ClosesExact'
  <2>1. ASSUME NEW c \in Closing
        PROVE  /\ \A q \in Objects : Live(q)' => object'[q].fd # call[c].fd
               /\ call[c].fd \in open' <=> call[c].fd \in open
    <3>1. NobodyHas(call[c].fd)  BY <1>0 DEF ClosesExact
    <3> QED BY <1>4, <1>5, <3>1
  <2> QED BY <1>0, <1>2, <2>1 DEF ClosesExact, NobodyHas, SamePlace
<1>11. OpenIsKept'
  <2> SUFFICES ASSUME NEW fd \in open' \cap Accepted
               PROVE  \/ ~NobodyHas(fd)'
                      \/ \E c \in Closing : call[c].fd = fd
                      \/ \E c \in Opening : call[c].fd = fd
    BY <1>2 DEF OpenIsKept
  <2>1. CASE NobodyHas(fd)  BY <1>0, <1>4, <2>1 DEF OpenIsKept
  <2>2. CASE ~NobodyHas(fd)
    <3>1. \E q \in Holders(fd) : q # o
      <4>1. CASE fd = f  BY <1>3, <1>4, <4>1
      <4>2. CASE fd # f  BY <2>2, <4>2, HoldersFacts, <1>f
      <4> QED BY <4>1, <4>2
    <3>2. \E q \in Objects : Live(q)' /\ object'[q].fd = fd
      BY <1>1, <3>1, HoldersFacts
    <3> QED BY <3>2 DEF NobodyHas
  <2> QED BY <2>1, <2>2
<1> QED BY <1>6, <1>8, <1>9, <1>10, <1>11 DEF FInv

(* The close() of the last file: from here on nobody has the descriptor,   *)
(* until the thread has closed it.                                         *)
LEMMA LastClosed ==
    ASSUME IInv, workload \in Workloads, FInv, NEW o \in Objects, CloseLast(o)
    PROVE  FInv'
<1>c. PICK c, f : c = made + 1 /\ f = object[o].fd  OBVIOUS
<1>0. /\ FileTypes /\ SharesExact /\ OpensExact /\ ClosesExact /\ OpenIsKept
      /\ "close" \in CallKinds
  BY DEF FInv, CallKinds
<1>1. /\ IsFile(o) /\ IsLast(o) /\ Submit("close", NoObject, f) /\ GiveUp(o)
      /\ UNCHANGED <<open, opened>>
  BY <1>c DEF CloseLast
<1>2. Live(o)  BY <1>1 DEF Live
<1>3. /\ f \in open /\ f \in 1 .. opened /\ f \in 0 .. MaxOpens
      /\ o \in Holders(f) /\ Holders(f) = {o}
  BY <1>c, <1>0, <1>1, <1>2, Share1, LastIsAlone, OpenDescriptors
<1>4. /\ object' \in [Objects -> [kind : ObjectKinds, fd : 0 .. MaxOpens, counted : BOOLEAN]]
      /\ count' \in [Descriptors -> Int]
      /\ \A q \in Objects \ {o} : object'[q] = object[q]
      /\ \A q \in Objects : Live(q)' <=> q # o /\ Live(q)
      /\ \A fd : Holders(fd)' = Holders(fd) \ {o}
      /\ \A fd \in Descriptors : \A q \in Holders(fd)' :
             IF object'[q].counted
             THEN count'[fd] = Cardinality(Holders(fd)') ELSE Holders(fd)' = {q}
  BY <1>0, <1>1, <1>2, GivenUp
<1>5. /\ call' \in [Calls -> [op : CallKinds, of : Objects \union {NoObject},
                               fd : 0 .. MaxOpens]]
      /\ c \notin Opening /\ c \notin Closing /\ call'[c].fd = f
      /\ \A d \in Opening \union Closing : call'[d] = call[d] /\ SamePlace(d)
      /\ Opening' = Opening /\ Closing' = Closing \union {c}
      /\ ~GetsMade(c)
  <2> PICK op, at : op = "close" /\ at = NoObject  OBVIOUS
  <2>1. at \in Objects \union {NoObject} /\ f \in 0 .. MaxOpens /\ op \in CallKinds
    BY <1>0, <1>1, <1>3
  <2>2. IInv /\ workload \in Workloads /\ FileTypes /\ Submit(op, at, f)
    BY <1>0, <1>1
  <2>3. c \notin Opening /\ c \notin Closing  BY ONLY <1>c, <2>1, <2>2, CallIsMade
  <2>4. call' \in [Calls -> [op : CallKinds, of : Objects \union {NoObject},
                               fd : 0 .. MaxOpens]]
    BY ONLY <1>c, <2>1, <2>2, CallIsMade
  <2>5. call'[c].of = at /\ call'[c].fd = f  BY ONLY <1>c, <2>1, <2>2, CallIsMade
  <2>6. \A d \in Opening \union Closing :
            d \in Calls /\ d # c /\ call'[d] = call[d] /\ SamePlace(d)
    BY ONLY <1>c, <2>1, <2>2, CallIsMade
  <2>7. Opening' = Opening \union (IF op = "open" THEN {c} ELSE {})
    BY ONLY <1>c, <2>1, <2>2, CallIsMade
  <2>8. Closing' = Closing \union (IF op = "close" THEN {c} ELSE {})
    BY ONLY <1>c, <2>1, <2>2, CallIsMade
  <2>9. ~GetsMade(c)  BY ONLY <1>c, <2>1, <2>2, CallIsMade
  <2> QED BY <2>3, <2>4, <2>5, <2>6, <2>7, <2>8, <2>9
<1>6. ASSUME NEW fd, NobodyHas(fd)
      PROVE  fd # f /\ \A q \in Objects : Live(q)' => object'[q].fd # fd
  BY <1>c, <1>2, <1>3, <1>4, <1>6, HoldersFacts DEF NobodyHas
<1>7. \A q \in Objects : Live(q)' => object'[q].fd # f  BY <1>3, <1>4, HoldersFacts
<1>8. FileTypes'  BY <1>0, <1>1, <1>4, <1>5 DEF FileTypes
<1>9. SharesExact'
  <2>1. ASSUME NEW q \in Objects, Live(q)'
        PROVE  object'[q].fd \in open' /\ (IsHandle(q)' => object'[q].counted)
    BY <1>0, <1>1, <1>4, <2>1 DEF SharesExact, IsHandle
  <2> QED BY <1>4, <2>1 DEF SharesExact
<1>10. \A d \in Opening \union Closing : call'[d] = call[d]  BY <1>5
<1>11. OpensExact'
  <2>1. ASSUME NEW d \in Opening
        PROVE  /\ object'[call[d].of] = object[call[d].of] /\ call[d].fd # f
               /\ \A q \in Objects : Live(q)' => object'[q].fd # call[d].fd
    <3>1. call[d].of \in Objects /\ object[call[d].of].kind = "awaited" /\ NobodyHas(call[d].fd)
      BY <1>0 DEF OpensExact
    <3>2. call[d].of # o  BY <1>2, <3>1 DEF Live, IsFile, IsHandle
    <3> QED BY <1>4, <1>6, <3>1, <3>2
  <2>2. ASSUME NEW d \in Opening
        PROVE  /\ call'[d].of \in Objects /\ object'[call'[d].of].kind = "awaited"
               /\ call'[d].fd \in 1 .. opened
               /\ \A q \in Objects : Live(q)' => object'[q].fd # call'[d].fd
               /\ \A e \in Opening \ {d} : call'[e].of # call'[d].of /\ call'[e].fd # call'[d].fd
               /\ \A e \in Closing \union {c} : call'[e].fd # call'[d].fd
    BY <1>0, <1>5, <1>10, <2>1 DEF OpensExact
  <2> QED BY <1>1, <1>5, <2>2 DEF OpensExact, NobodyHas
<1>12. ClosesExact'
  <2>1. ASSUME NEW d \in Closing
        PROVE  /\ call[d].fd \in 1 .. opened /\ call[d].fd # f
               /\ \A q \in Objects : Live(q)' => object'[q].fd # call[d].fd
               /\ IF GetsMade(d) THEN call[d].fd \notin open ELSE call[d].fd \in open
               /\ \A e \in Closing \ {d} : call[e].fd # call[d].fd
    <3>1. NobodyHas(call[d].fd)  BY <1>0 DEF ClosesExact
    <3> QED BY <1>0, <1>5, <1>6, <3>1 DEF ClosesExact, SamePlace, GetsMade
  <2>2. ASSUME NEW d \in Closing \union {c}
        PROVE  /\ call'[d].fd \in 1 .. opened
               /\ \A q \in Objects : Live(q)' => object'[q].fd # call'[d].fd
               /\ IF GetsMade(d) THEN call'[d].fd \notin open ELSE call'[d].fd \in open
               /\ \A e \in (Closing \union {c}) \ {d} : call'[e].fd # call'[d].fd
    <3>1. CASE d = c  BY <1>3, <1>5, <1>7, <1>10, <2>1, <3>1
    <3>2. CASE d \in Closing  BY <1>5, <1>10, <2>1, <3>2
    <3> QED BY <3>1, <3>2
  <2> QED BY <1>1, <1>5, <2>2 DEF ClosesExact, NobodyHas, GetsMade
<1>13. OpenIsKept'
  <2> SUFFICES ASSUME NEW fd \in open \cap Accepted
               PROVE  \/ ~NobodyHas(fd)'
                      \/ \E d \in Closing \union {c} : call'[d].fd = fd
                      \/ \E d \in Opening : call'[d].fd = fd
    BY <1>1, <1>5 DEF OpenIsKept
  <2>1. CASE NobodyHas(fd)  BY <1>0, <1>10, <2>1 DEF OpenIsKept
  <2>2. CASE ~NobodyHas(fd) /\ fd # f
    <3>1. \E q \in Objects : Live(q)' /\ object'[q].fd = fd
      <4>1. \E q \in Holders(fd) : q # o  BY <1>c, <2>2, HoldersFacts
      <4> QED BY <1>4, <4>1, HoldersFacts
    <3> QED BY <3>1 DEF NobodyHas
  <2>3. CASE fd = f  BY <1>5, <2>3
  <2> QED BY <2>1, <2>2, <2>3
<1> QED BY <1>8, <1>9, <1>11, <1>12, <1>13 DEF FInv

(* dup() and clone(): one more handle of a descriptor.  The first one      *)
(* makes the count.                                                        *)
LEMMA HandleMade ==
    ASSUME FInv, NEW o \in Objects, Live(o), NEW f, f = object[o].fd,
           NEW p \in Objects, Free(p),
           object' \in [Objects -> [kind : ObjectKinds, fd : 0 .. MaxOpens, counted : BOOLEAN]],
           \A q \in Objects \ {o, p} : object'[q] = object[q],
           object'[o].kind = object[o].kind, object'[o].fd = f, object'[o].counted,
           object'[p].kind = "handle", object'[p].fd = f, object'[p].counted,
           count' = [count EXCEPT ![f] = IF object[o].counted THEN @ + 1 ELSE 2],
           UNCHANGED <<open, opened>>, UNCHANGED <<ioVars, poolVars, callVars>>
    PROVE  FInv'
<1>0. FileTypes /\ SharesExact /\ OpensExact /\ ClosesExact /\ OpenIsKept
  BY DEF FInv
<1>1. /\ UNCHANGED <<call, made, returned>> /\ Opening' = Opening /\ Closing' = Closing
      /\ \A c : SamePlace(c)
  BY PlacesStay
<1>2. ~Live(p) /\ p # o /\ object[p].kind # "awaited"
  BY DEF Free, Live, IsFile, IsHandle
<1>3. /\ f \in open /\ f \in Descriptors /\ o \in Holders(f)
      /\ IF object[o].counted THEN count[f] = Cardinality(Holders(f)) ELSE Holders(f) = {o}
      /\ \A q \in Holders(f) : ~object[q].counted => q = o
  BY <1>0, Share1
<1>4. \A q \in Objects : q # p => (Live(q)' <=> Live(q)) /\ (IsHandle(q)' <=> IsHandle(q))
  BY DEF Live, IsFile, IsHandle
<1>5. Live(p)' /\ \A q \in Objects : q # p => object'[q].fd = object[q].fd
  BY DEF Live, IsFile, IsHandle
<1>6. ASSUME NEW e
      PROVE  /\ e = f => Holders(e)' = Holders(e) \union {p}
             /\ e # f => Holders(e)' = Holders(e)
  <2>1. Holders(e)' = {q \in Objects : Live(q)' /\ object'[q].fd = e}
    BY DEF Holders, Live
  <2> QED BY <1>2, <1>4, <1>5, <2>1, HoldersFacts
<1>7. p \notin Holders(f)  BY <1>2, HoldersFacts
<1>8. /\ count' \in [Descriptors -> Int]
      /\ \A e \in Descriptors : e # f => count'[e] = count[e]
      /\ count'[f] = Cardinality(Holders(f)) + 1
  <2>1. ~object[o].counted => Cardinality(Holders(f)) = 1
    <3>1. Cardinality({o}) = 1  BY ONLY FS_Singleton
    <3> QED BY <1>3, <3>1
  <2>2. count \in [Descriptors -> Int]  BY <1>0 DEF FileTypes
  <2> QED BY <1>3, <2>1, <2>2
<1>9. ASSUME NEW e \in Descriptors, NEW q \in Holders(e)'
      PROVE  IF object'[q].counted
             THEN count'[e] = Cardinality(Holders(e)') ELSE Holders(e)' = {q}
  <2>1. CASE e = f
    <3>1. Holders(e)' = Holders(f) \union {p}  BY <1>6, <2>1
    <3>2. Cardinality(Holders(f) \union {p}) = Cardinality(Holders(f)) + 1
      <4>1. IsFiniteSet(Holders(f))  BY HoldersFacts
      <4> QED BY ONLY <1>7, <4>1, FS_AddElement
    <3>3. object'[q].counted
      <4>1. q \in Holders(f) => q \in Objects  BY HoldersFacts
      <4> QED BY <1>3, <1>9, <3>1, <4>1
    <3> QED BY <1>8, <2>1, <3>1, <3>2, <3>3
  <2>2. CASE e # f
    <3>1. Holders(e)' = Holders(e) /\ count'[e] = count[e]  BY <1>6, <1>8, <2>2
    <3>2. q \in Objects /\ q # o /\ q # p /\ q \in Holders(e)
      BY <1>2, <1>9, <2>2, <3>1, HoldersFacts
    <3> QED BY <1>0, <3>1, <3>2 DEF SharesExact
  <2> QED BY <2>1, <2>2
<1>10. ASSUME NEW q \in Objects, Live(q)'
       PROVE  object'[q].fd \in open /\ (IsHandle(q)' => object'[q].counted)
  <2>1. CASE q = o \/ q = p  BY <1>3, <2>1
  <2>2. CASE q # o /\ q # p  BY <1>0, <1>4, <1>10, <2>2 DEF SharesExact
  <2> QED BY <2>1, <2>2
<1>11. FileTypes'  BY <1>0, <1>1, <1>8 DEF FileTypes
<1>12. SharesExact'  BY <1>9, <1>10 DEF SharesExact
<1>13. ASSUME NEW e, NobodyHas(e) PROVE \A q \in Objects : Live(q)' => object'[q].fd # e
  BY <1>3, <1>4, <1>5, <1>13, HoldersFacts DEF NobodyHas
<1>14. OpensExact'
  <2>1. ASSUME NEW c \in Opening
        PROVE  /\ object'[call[c].of] = object[call[c].of]
               /\ \A q \in Objects : Live(q)' => object'[q].fd # call[c].fd
    <3>1. call[c].of \in Objects /\ object[call[c].of].kind = "awaited" /\ NobodyHas(call[c].fd)
      BY <1>0 DEF OpensExact
    <3>2. call[c].of # o /\ call[c].of # p  BY <1>2, <3>1 DEF Live, IsFile, IsHandle
    <3> QED BY <1>13, <3>1, <3>2
  <2> QED BY <1>0, <1>1, <2>1 DEF OpensExact, NobodyHas
<1>15. ClosesExact'
  <2>1. ASSUME NEW c \in Closing
        PROVE  \A q \in Objects : Live(q)' => object'[q].fd # call[c].fd
    <3>1. NobodyHas(call[c].fd)  BY <1>0 DEF ClosesExact
    <3> QED BY <1>13, <3>1
  <2> QED BY <1>0, <1>1, <2>1 DEF ClosesExact, NobodyHas, SamePlace
<1>16. OpenIsKept'
  <2>1. ASSUME NEW e, ~NobodyHas(e) PROVE \E q \in Objects : Live(q)' /\ object'[q].fd = e
    BY <1>2, <1>4, <1>5, <2>1 DEF NobodyHas
  <2> QED BY <1>0, <1>1, <2>1 DEF OpenIsKept, NobodyHas
<1> QED BY <1>11, <1>12, <1>14, <1>15, <1>16 DEF FInv

(* to_file(): the handle's share becomes the file's.                       *)
LEMMA HandleOpened ==
    ASSUME FInv, NEW o \in Objects, ToFile(o), UNCHANGED <<ioVars, poolVars, callVars>>
    PROVE  FInv'
<1> DEFINE types == [kind : ObjectKinds, fd : 0 .. MaxOpens, counted : BOOLEAN]
<1>0. FileTypes /\ SharesExact /\ OpensExact /\ ClosesExact /\ OpenIsKept
  BY DEF FInv
<1>1. /\ UNCHANGED <<call, made, returned>> /\ Opening' = Opening /\ Closing' = Closing
      /\ \A c : SamePlace(c)
  BY PlacesStay
<1>2. /\ IsHandle(o) /\ object' = [object EXCEPT ![o] = File(@.fd, TRUE)]
      /\ UNCHANGED <<count, open, opened>>
  BY DEF ToFile
<1>3. Live(o) /\ object[o].counted /\ object[o].kind = "handle"
  BY <1>0, <1>2 DEF Live, IsHandle, SharesExact
<1> DEFINE new == File(object[o].fd, TRUE)
<1>4. /\ object \in [Objects -> types] /\ new \in types
      /\ new.kind = "file" /\ new.fd = object[o].fd /\ new.counted
  BY <1>0 DEF FileTypes, File, ObjectKinds
<1>5. object' = [object EXCEPT ![o] = new]  BY <1>2
<1> HIDE DEF new, types
<1>6. /\ object' \in [Objects -> types] /\ object'[o] = new
      /\ \A q \in Objects : q # o => object'[q] = object[q]
  BY <1>4, <1>5
<1>7. /\ \A q \in Objects : Live(q)' <=> Live(q)
      /\ \A q \in Objects : IsHandle(q)' => IsHandle(q)
      /\ \A q \in Objects : object'[q].fd = object[q].fd
      /\ \A q \in Objects : object'[q].counted <=> object[q].counted
      /\ \A q \in Objects : object[q].kind = "awaited" => object'[q].kind = "awaited"
  BY <1>3, <1>4, <1>6 DEF Live, IsFile, IsHandle
<1>8. \A e : Holders(e)' = Holders(e) /\ (NobodyHas(e)' <=> NobodyHas(e))
  <2> SUFFICES ASSUME NEW e PROVE Holders(e)' = Holders(e) /\ (NobodyHas(e)' <=> NobodyHas(e))
    OBVIOUS
  <2>1. /\ Holders(e)' = {q \in Objects : Live(q)' /\ object'[q].fd = e}
        /\ Holders(e) = {q \in Objects : Live(q) /\ object[q].fd = e}
    BY DEF Holders, Live
  <2> QED BY <1>7, <2>1 DEF NobodyHas
<1>9. FileTypes'  BY <1>0, <1>1, <1>2, <1>6 DEF FileTypes, types
<1>10. SharesExact'
  <2>1. ASSUME NEW e \in Descriptors, NEW q \in Holders(e)
        PROVE  IF object'[q].counted THEN count[e] = Cardinality(Holders(e))
               ELSE Holders(e) = {q}
    <3>1. q \in Objects  BY HoldersFacts
    <3> QED BY <1>0, <1>7, <3>1 DEF SharesExact
  <2>2. ASSUME NEW q \in Objects, Live(q)'
        PROVE  object'[q].fd \in open /\ (IsHandle(q)' => object'[q].counted)
    BY <1>0, <1>7, <2>2 DEF SharesExact
  <2> QED BY <1>2, <1>8, <2>1, <2>2 DEF SharesExact
<1>11. OpensExact'  BY <1>0, <1>1, <1>2, <1>7, <1>8 DEF OpensExact
<1>12. ClosesExact'  BY <1>0, <1>1, <1>2, <1>8 DEF ClosesExact, SamePlace
<1>13. OpenIsKept'  BY <1>0, <1>1, <1>2, <1>8 DEF OpenIsKept
<1> QED BY <1>9, <1>10, <1>11, <1>12, <1>13 DEF FInv

(* All of these.                                                           *)
LEMMA ShareKeeps ==
    ASSUME FInv, Share
    PROVE  FInv'
<1> DEFINE types == [kind : ObjectKinds, fd : 0 .. MaxOpens, counted : BOOLEAN]
<1>0. /\ UNCHANGED <<ioVars, poolVars, callVars>> /\ FileTypes /\ SharesExact
      /\ object \in [Objects -> types]
  BY DEF Share, FInv, FileTypes
<1>1. ASSUME NEW o \in Objects, Dup(o, NextFree) PROVE FInv'
  <2>p. PICK p, f : p = NextFree /\ f = object[o].fd  OBVIOUS
  <2>1. /\ IsFile(o) /\ p \in Objects
        /\ object' = [object EXCEPT ![o].counted = TRUE, ![p] = Handle(f)]
        /\ count' = [count EXCEPT ![f] = IF object[o].counted THEN @ + 1 ELSE 2]
        /\ UNCHANGED <<open, opened>>
    BY <1>1, <2>p DEF Dup
  <2>2. Free(p) /\ Live(o) /\ p # o  BY <2>p, <2>1, NextFreeIsFree DEF Live, IsFile
  <2>3. /\ Handle(f) \in types /\ Handle(f).kind = "handle" /\ Handle(f).fd = f
        /\ Handle(f).counted
    BY <1>0, <2>p DEF Handle, ObjectKinds
  <2>4. /\ object' \in [Objects -> types] /\ object'[p] = Handle(f)
        /\ \A q \in Objects \ {o, p} : object'[q] = object[q]
        /\ object'[o].kind = object[o].kind /\ object'[o].fd = f /\ object'[o].counted
    BY <1>0, <2>p, <2>1, <2>2, <2>3
  <2> QED BY <1>0, <2>p, <2>1, <2>2, <2>3, <2>4, HandleMade
<1>2. ASSUME NEW o \in Objects, Clone(o, NextFree) PROVE FInv'
  <2>p. PICK p, f : p = NextFree /\ f = object[o].fd  OBVIOUS
  <2>1. /\ IsHandle(o) /\ p \in Objects
        /\ object' = [object EXCEPT ![p] = object[o]]
        /\ count' = [count EXCEPT ![f] = @ + 1]
        /\ UNCHANGED <<open, opened>>
    BY <1>2, <2>p DEF Clone
  <2>2. Free(p) /\ Live(o) /\ p # o /\ object[o].counted /\ object[o].kind = "handle"
    BY <1>0, <2>p, <2>1, NextFreeIsFree DEF Live, IsHandle, SharesExact
  <2>3. /\ object' \in [Objects -> types] /\ object'[p] = object[o] /\ object'[o] = object[o]
        /\ \A q \in Objects \ {o, p} : object'[q] = object[q]
    BY <1>0, <2>1, <2>2
  <2>4. count' = [count EXCEPT ![f] = IF object[o].counted THEN @ + 1 ELSE 2]
    BY <2>1, <2>2
  <2>5. /\ object'[o].kind = object[o].kind /\ object'[o].fd = f /\ object'[o].counted
        /\ object'[p].kind = "handle" /\ object'[p].fd = f /\ object'[p].counted
    BY <2>p, <2>2, <2>3
  <2> HIDE DEF types
  <2>6. object' \in [Objects -> [kind : ObjectKinds, fd : 0 .. MaxOpens, counted : BOOLEAN]]
        /\ \A q \in Objects \ {o, p} : object'[q] = object[q]
    BY <2>3 DEF types
  <2> QED BY <1>0, <2>p, <2>1, <2>2, <2>4, <2>5, <2>6, HandleMade
<1>3. ASSUME NEW o \in Objects, ToFile(o) PROVE FInv'  BY <1>0, <1>3, HandleOpened
<1>4. ASSUME NEW o \in Objects, Destroy(o) PROVE FInv'
  BY <1>0, <1>4, ShareDropped DEF Destroy, Live
<1> QED BY <1>1, <1>2, <1>3, <1>4 DEF Share

-----------------------------------------------------------------------------
(* A call returns: open() to a fiber that makes a file or gives up, and    *)
(* close() when the thread has made it.                                    *)
LEMMA CallReturned ==
    ASSUME IInv, FInv, Return
    PROVE  FInv'
<1>c. PICK c : c = Head(tasks).req  OBVIOUS
<1> DEFINE types == [kind : ObjectKinds, fd : 0 .. MaxOpens, counted : BOOLEAN]
<1>0. /\ Types /\ FileTypes /\ SharesExact /\ OpensExact /\ ClosesExact /\ OpenIsKept
      /\ object \in [Objects -> types]
  BY DEF IInv, FInv, FileTypes
<1>1. /\ NextTask("return") /\ returned' = returned \union {c}
      /\ IF call[c].op = "open" THEN NewFile(call[c].of, call[c].fd) ELSE UNCHANGED fileVars
      /\ UNCHANGED <<made, call>>
  BY <1>c DEF Return
<1>2. /\ tasks # <<>> /\ c \in Calls /\ Head(tasks) = Task("return", c)
  BY <1>c, <1>0, <1>1, TaskThatRuns
<1>3. c \in 1 .. made /\ c \notin returned /\ BeforeCount(c) = 0
  <2>1. Count(tasks, {Task("return", c)}) # 0
    <3>1. tasks \in Seq(AnyTask)  BY <1>0 DEF Types
    <3>2. 1 \in 1 .. Len(tasks) /\ tasks[1] = Task("return", c)
      BY <1>2, <3>1, HeadThenTail
    <3> QED BY <3>1, <3>2, NoneOfIt
  <2> QED BY <1>2, <2>1, OnceOnly
<1>4. /\ \A d : d \in Opening' <=> d \in Opening /\ d # c
      /\ \A d : d \in Closing' <=> d \in Closing /\ d # c
      /\ c \in Opening <=> call[c].op = "open"
      /\ c \in Closing <=> call[c].op = "close"
  BY <1>1, <1>3 DEF Opening, Closing
<1>5. \A d \in Opening \union Closing : SamePlace(d)
  <2>1. Opening \union Closing \subseteq Calls  BY <1>0, OnTheirWay
  <2> QED BY <1>0, <2>1, ReturnKeepsPlaces
<1>6. CASE call[c].op # "open"
  <2>1. UNCHANGED <<object, count, open, opened>> /\ Opening' = Opening
    BY <1>1, <1>4, <1>6 DEF fileVars
  <2>2. /\ \A q : (Live(q)' <=> Live(q)) /\ (IsHandle(q)' <=> IsHandle(q))
        /\ \A e : Holders(e)' = Holders(e) /\ (NobodyHas(e)' <=> NobodyHas(e))
    BY <2>1 DEF Live, IsFile, IsHandle, Holders, NobodyHas
  <2>3. FileTypes'  BY <1>0, <1>1, <2>1 DEF FileTypes
  <2>4. SharesExact'  BY <1>0, <2>1, <2>2 DEF SharesExact
  <2>5. OpensExact'  BY <1>0, <1>1, <1>4, <2>1, <2>2 DEF OpensExact
  <2>6. ClosesExact'
    BY <1>0, <1>1, <1>4, <1>5, <2>1, <2>2 DEF ClosesExact, SamePlace
  <2>7. OpenIsKept'
    <3>1. c \in Closing => call[c].fd \notin open  BY <1>0, <1>3 DEF ClosesExact
    <3> QED BY <1>0, <1>1, <1>4, <2>1, <2>2, <3>1 DEF OpenIsKept
  <2> QED BY <2>3, <2>4, <2>5, <2>6, <2>7 DEF FInv
<1>7. CASE call[c].op = "open"
  <2>p. PICK p, f : p = call[c].of /\ f = call[c].fd  OBVIOUS
  <2> DEFINE new == IF f \in open \cap Accepted THEN File(f, FALSE) ELSE Nothing
  <2>1. /\ object' = [object EXCEPT ![p] = new] /\ UNCHANGED <<count, open, opened>>
    BY <1>1, <1>7, <2>p DEF NewFile
  <2>2. /\ p \in Objects /\ object[p].kind = "awaited" /\ f \in 1 .. opened
        /\ NobodyHas(f) /\ ~Live(p)
        /\ \A d \in Opening \ {c} : call[d].of # p /\ call[d].fd # f
        /\ \A d \in Closing : call[d].fd # f
    BY <1>0, <1>4, <1>7, <2>p DEF OpensExact, Live, IsFile, IsHandle
  <2>3. f \in 0 .. MaxOpens /\ f \in Descriptors  BY <1>0, <2>2, OpenDescriptors
  <2>4. /\ new \in types
        /\ f \in open \cap Accepted => new.kind = "file" /\ new.fd = f /\ ~new.counted
        /\ f \notin open \cap Accepted => new.kind = "nothing"
    BY <1>0, <2>3, OpenDescriptors DEF File, Nothing, ObjectKinds, NoDescriptor
  <2> HIDE DEF new
  <2>5. /\ object' \in [Objects -> types] /\ object'[p] = new
        /\ \A q \in Objects : q # p => object'[q] = object[q]
    BY <1>0, <2>1, <2>2, <2>4
  <2>6. /\ \A q \in Objects : q # p => (Live(q)' <=> Live(q)) /\ (IsHandle(q)' <=> IsHandle(q))
        /\ Live(p)' <=> f \in open \cap Accepted
        /\ ~IsHandle(p)'
    BY <2>2, <2>4, <2>5 DEF Live, IsFile, IsHandle
  <2>7. ASSUME NEW e, e # f PROVE Holders(e)' = Holders(e)
    <3>1. Holders(e)' = {q \in Objects : Live(q)' /\ object'[q].fd = e}
      BY DEF Holders, Live
    <3> QED BY <2>2, <2>4, <2>5, <2>6, <2>7, <3>1, HoldersFacts
  <2>8. Holders(f)' \subseteq {p} /\ (f \in open \cap Accepted => Holders(f)' = {p})
    <3>1. Holders(f)' = {q \in Objects : Live(q)' /\ object'[q].fd = f}
      BY DEF Holders, Live
    <3>2. \A q \in Objects : Live(q) => object[q].fd # f  BY <2>2 DEF NobodyHas
    <3>3. f \in open \cap Accepted => Live(p)' /\ object'[p].fd = f
      BY <2>4, <2>5, <2>6
    <3>4. \A q \in Objects : Live(q)' /\ object'[q].fd = f => q = p
      BY <2>5, <2>6, <3>2
    <3> QED BY <2>2, <3>1, <3>3, <3>4
  <2>9. FileTypes'  BY <1>0, <1>1, <2>1, <2>5 DEF FileTypes
  <2>10. SharesExact'
    <3>1. ASSUME NEW q \in Objects, Live(q)'
          PROVE  object'[q].fd \in open /\ (IsHandle(q)' => object'[q].counted)
      <4>1. CASE q = p  BY <2>4, <2>5, <2>6, <3>1, <4>1
      <4>2. CASE q # p  BY <1>0, <2>5, <2>6, <3>1, <4>2 DEF SharesExact
      <4> QED BY <4>1, <4>2
    <3>2. ASSUME NEW e \in Descriptors, NEW q \in Holders(e)'
          PROVE  IF object'[q].counted
                 THEN count[e] = Cardinality(Holders(e)') ELSE Holders(e)' = {q}
      <4>1. CASE e = f
        <5>1. q = p /\ Holders(e)' = {p} /\ Live(p)'
          <6>1. q = p /\ Holders(f)' = {p}  BY <2>8, <3>2, <4>1
          <6>2. Live(p)'  BY <3>2, <4>1, <6>1 DEF Holders, Live
          <6> QED BY <4>1, <6>1, <6>2
        <5> QED BY <2>4, <2>5, <2>6, <5>1
      <4>2. CASE e # f
        <5>1. Holders(e)' = Holders(e)  BY <2>7, <4>2
        <5>2. q \in Objects /\ q # p /\ q \in Holders(e)
          BY <2>2, <3>2, <5>1, HoldersFacts
        <5> QED BY <1>0, <2>5, <5>1, <5>2 DEF SharesExact
      <4> QED BY <4>1, <4>2
    <3> QED BY <2>1, <3>1, <3>2 DEF SharesExact
  <2>11. ASSUME NEW e, NobodyHas(e), e # f
         PROVE  \A q \in Objects : Live(q)' => object'[q].fd # e
    BY <2>4, <2>5, <2>6, <2>11 DEF NobodyHas
  <2>12. OpensExact'
    <3>1. ASSUME NEW d \in Opening \ {c}
          PROVE  /\ object'[call[d].of] = object[call[d].of]
                 /\ \A q \in Objects : Live(q)' => object'[q].fd # call[d].fd
      <4>1. call[d].of \in Objects /\ NobodyHas(call[d].fd) /\ call[d].of # p /\ call[d].fd # f
        BY <1>0, <2>2 DEF OpensExact
      <4> QED BY <2>5, <2>11, <4>1
    <3> QED BY <1>0, <1>1, <1>4, <2>1, <3>1 DEF OpensExact, NobodyHas
  <2>13. ClosesExact'
    <3>1. ASSUME NEW d \in Closing
          PROVE  \A q \in Objects : Live(q)' => object'[q].fd # call[d].fd
      <4>1. NobodyHas(call[d].fd) /\ call[d].fd # f  BY <1>0, <2>2 DEF ClosesExact
      <4> QED BY <2>11, <4>1
    <3> QED BY <1>0, <1>1, <1>4, <1>5, <2>1, <3>1 DEF ClosesExact, NobodyHas, SamePlace
  <2>14. OpenIsKept'
    <3> SUFFICES ASSUME NEW e \in open \cap Accepted
                 PROVE  \/ ~NobodyHas(e)'
                        \/ \E d \in Closing : call[d].fd = e
                        \/ \E d \in Opening \ {c} : call[d].fd = e
      BY <1>1, <1>4, <1>7, <2>1 DEF OpenIsKept
    <3>1. CASE e = f
      <4>1. Live(p)' /\ object'[p].fd = e  BY <2>4, <2>5, <2>6, <3>1
      <4> QED BY <2>2, <4>1 DEF NobodyHas
    <3>2. CASE e # f
      <4>1. ~NobodyHas(e) => \E q \in Objects : Live(q)' /\ object'[q].fd = e
        BY <2>2, <2>5, <2>6 DEF NobodyHas
      <4> QED BY <1>0, <2>p, <3>2, <4>1 DEF OpenIsKept, NobodyHas
    <3> QED BY <3>1, <3>2
  <2> QED BY <2>9, <2>10, <2>12, <2>13, <2>14 DEF FInv
<1> QED BY <1>6, <1>7

(* The thread makes a call: what open() opens is new, and what close()     *)
(* closes nobody has or works on.                                          *)
LEMMA CallMade ==
    ASSUME IInv, FInv, MakeCall, UNCHANGED <<ioVars, callVars>>
    PROVE  FInv'
<1>c. PICK c : c = Head(taken)  OBVIOUS
<1>p. PICK f : f = call[c].fd  OBVIOUS
<1>0. Types /\ FileTypes /\ SharesExact /\ OpensExact /\ ClosesExact /\ OpenIsKept
  BY DEF IInv, FInv
<1>1. /\ Process /\ tasks' = tasks /\ UNCHANGED <<made, call, returned>>
      /\ CASE call[c].op = "open" -> CallOpen(f)
           [] call[c].op = "close" -> CallClose(f)
           [] OTHER -> UNCHANGED fileVars
  BY <1>c, <1>p DEF MakeCall, ioVars, callVars
<1>2. /\ c \in Calls /\ c \in 1 .. made /\ c \notin returned
      /\ BeforeCount(c) # 0 /\ GetsMade(c)
      /\ \A d \in Calls \ {c} : SamePlace(d)
  BY <1>c, <1>1, ProcessPlaces
<1>3. /\ Opening' = Opening /\ Closing' = Closing
      /\ c \in Opening <=> call[c].op = "open"
      /\ c \in Closing <=> call[c].op = "close"
      /\ Opening \subseteq Calls /\ Closing \subseteq Calls
  <2>1. Opening \subseteq Calls /\ Closing \subseteq Calls  BY <1>0, OnTheirWay
  <2> QED BY <1>1, <1>2, <2>1 DEF Opening, Closing
<1>4. CASE call[c].op # "close" /\ call[c].op # "open"
  <2>1. UNCHANGED fileVars  BY <1>1, <1>4
  <2>2. \A d \in Closing : GetsMade(d) <=> BeforeCount(d) = 0
    BY <1>2, <1>3, <1>4 DEF SamePlace, GetsMade
  <2> QED BY <1>1, <2>1, <2>2, FilesFrame DEF callVars
<1>5. CASE call[c].op = "open" \/ call[c].op = "close"
  <2>1. /\ UNCHANGED <<object, count, opened>>
        /\ call[c].op = "open" => open \subseteq open' /\ open' \subseteq open \union {f}
        /\ call[c].op = "close" => open' = open \ {f}
    BY <1>1, <1>5 DEF CallOpen, CallClose
  <2>2. /\ f \in 1 .. opened /\ NobodyHas(f)
        /\ \A d \in Closing \ {c} : call[d].fd # f
    BY <1>0, <1>p, <1>3, <1>5 DEF OpensExact, ClosesExact
  <2>3. /\ \A e : e # f => (e \in open' <=> e \in open)  BY <1>5, <2>1
  <2>4. /\ \A q : (Live(q)' <=> Live(q)) /\ (IsHandle(q)' <=> IsHandle(q))
        /\ \A e : Holders(e)' = Holders(e) /\ (NobodyHas(e)' <=> NobodyHas(e))
    BY <2>1 DEF Live, IsFile, IsHandle, Holders, NobodyHas
  <2>5. FileTypes'
    <3>1. open' \subseteq 1 .. opened  BY <1>0, <2>2, <2>3, OpenDescriptors
    <3> QED BY <1>0, <1>1, <2>1, <3>1 DEF FileTypes
  <2>6. SharesExact'
    <3>1. ASSUME NEW q \in Objects, Live(q)
          PROVE  object[q].fd \in open' /\ (IsHandle(q) => object[q].counted)
      BY <1>0, <2>2, <2>3, <3>1 DEF SharesExact, NobodyHas
    <3> QED BY <1>0, <2>1, <2>4, <3>1 DEF SharesExact
  <2>7. OpensExact'  BY <1>0, <1>1, <1>3, <2>1, <2>4 DEF OpensExact
  <2>8. ClosesExact'
    <3>1. ASSUME NEW d \in Closing
          PROVE  IF GetsMade(d) THEN call[d].fd \notin open' ELSE call[d].fd \in open'
      <4>1. CASE d = c  BY <1>p, <1>2, <1>3, <2>1, <3>1, <4>1
      <4>2. CASE d # c
        <5>1. SamePlace(d) /\ call[d].fd # f  BY <1>2, <1>3, <2>2, <4>2
        <5> QED BY <1>0, <2>3, <5>1 DEF ClosesExact, SamePlace, GetsMade
      <4> QED BY <4>1, <4>2
    <3> QED BY <1>0, <1>1, <1>3, <2>1, <2>4, <3>1 DEF ClosesExact, GetsMade
  <2>9. OpenIsKept'
    <3> SUFFICES ASSUME NEW e \in open' \cap Accepted
                 PROVE  \/ ~NobodyHas(e)
                        \/ \E d \in Closing : call[d].fd = e
                        \/ \E d \in Opening : call[d].fd = e
      BY <1>1, <1>3, <2>4 DEF OpenIsKept
    <3>1. CASE e # f  BY <1>0, <2>3, <3>1 DEF OpenIsKept
    <3>2. CASE e = f  BY <1>p, <1>3, <1>5, <3>2
    <3> QED BY <3>1, <3>2
  <2> QED BY <2>5, <2>6, <2>7, <2>8, <2>9 DEF FInv
<1> QED BY <1>4, <1>5

-----------------------------------------------------------------------------
(* At the start one file has the one descriptor that is open.              *)
LEMMA InitFInv == Init => FInv
<1> SUFFICES ASSUME Init PROVE FInv  OBVIOUS
<1> DEFINE types == [kind : ObjectKinds, fd : 0 .. MaxOpens, counted : BOOLEAN]
<1>o. PICK o : o = CHOOSE q \in Objects : TRUE  OBVIOUS
<1>1. /\ o \in Objects /\ MaxOpens \in Nat \ {0}  BY <1>o, FilesAssumption
<1>2. /\ object = [p \in Objects |-> IF p = o THEN File(1, FALSE) ELSE Nothing]
      /\ count = [fd \in Descriptors |-> 0] /\ open = {1} /\ opened = 1
      /\ made = 0 /\ call = [c \in Calls |-> NoCall]
  BY <1>o DEF Init, FilesInit
<1>3. /\ File(1, FALSE) \in types /\ Nothing \in types
      /\ File(1, FALSE).kind = "file" /\ File(1, FALSE).fd = 1
      /\ ~File(1, FALSE).counted /\ Nothing.kind = "nothing"
  BY <1>1 DEF File, Nothing, NoDescriptor, ObjectKinds
<1>4. /\ object \in [Objects -> types] /\ object[o] = File(1, FALSE)
      /\ \A p \in Objects \ {o} : object[p] = Nothing
  BY <1>1, <1>2, <1>3
<1>5. \A p \in Objects : (Live(p) <=> p = o) /\ (IsHandle(p) => FALSE)
  BY <1>3, <1>4 DEF Live, IsFile, IsHandle
<1>6. Opening = {} /\ Closing = {}
  <2>1. 1 .. made = {}  BY <1>2
  <2> QED BY <2>1 DEF Opening, Closing
<1>7. FileTypes
  <2>1. call \in [Calls -> [op : CallKinds, of : Objects \union {NoObject}, fd : 0 .. MaxOpens]]
    BY <1>1, <1>2 DEF NoCall, NoObject, NoDescriptor, CallKinds
  <2>2. count \in [Descriptors -> Int]  BY <1>2
  <2>3. opened \in 1 .. MaxOpens /\ open \subseteq 1 .. opened  BY <1>1, <1>2
  <2> QED BY <1>4, <2>1, <2>2, <2>3 DEF FileTypes
<1>8. SharesExact
  <2>1. ASSUME NEW fd \in Descriptors, NEW p \in Holders(fd)
        PROVE  ~object[p].counted /\ Holders(fd) = {p}
    <3>1. \A q : q \in Holders(fd) <=> q \in Objects /\ Live(q) /\ object[q].fd = fd
      BY HoldersFacts
    <3>2. p = o /\ object[o].fd = fd  BY <1>5, <2>1, <3>1
    <3>3. \A q : q \in Holders(fd) <=> q = o  BY <1>1, <1>5, <3>1, <3>2
    <3> QED BY <1>3, <1>4, <3>2, <3>3
  <2>2. ASSUME NEW p \in Objects, Live(p)
        PROVE  object[p].fd \in open /\ ~IsHandle(p)
    BY <1>2, <1>3, <1>4, <1>5, <2>2
  <2> QED BY <2>1, <2>2 DEF SharesExact
<1>9. OpensExact /\ ClosesExact  BY <1>6 DEF OpensExact, ClosesExact
<1>10. OpenIsKept  BY <1>1, <1>2, <1>3, <1>4, <1>5 DEF OpenIsKept, NobodyHas
<1> QED BY <1>7, <1>8, <1>9, <1>10 DEF FInv

(* Most steps move no call past the thread and touch no file.              *)
LEMMA FilesStay ==
    ASSUME Types, FInv, UNCHANGED <<fileVars, callVars>>, \A c \in Calls : SamePlace(c)
    PROVE  FInv'
<1>1. \A c \in Closing : c \in Calls  BY OnTheirWay
<1> QED BY <1>1, FilesFrame DEF SamePlace, GetsMade

LEMMA AskKeepsFiles ==
    ASSUME IInv, FInv, NEW o \in Objects, NEW q \in Classes, Request(o, q)
    PROVE  FInv'
<1>1. Types /\ Queue(q) /\ UNCHANGED <<room, toThread, taken, fileVars, callVars>>
  BY DEF IInv, Request, threadVars
<1>2. \A c \in Calls : SamePlace(c)  BY <1>1, IoKeepsPlaces
<1> QED BY <1>1, <1>2, FilesStay

(* The calls a fiber makes.                                                *)
LEMMA FibersKeepFiles ==
    ASSUME workload \in Workloads, IInv, FInv, Fibers
    PROVE  FInv'
<1>0. FileTypes /\ SharesExact  BY DEF FInv
<1>1. ASSUME NEW o \in Objects, NEW q \in Classes, Request(o, q) PROVE FInv'
  BY <1>1, AskKeepsFiles
<1>2. CASE CallPath
  <2>1. 0 \in 0 .. MaxOpens /\ NoObject \in Objects \union {NoObject}
    BY FilesAssumption
  <2>2. Submit("path", NoObject, 0) /\ UNCHANGED fileVars
    BY <1>2 DEF CallPath, NoDescriptor
  <2> QED BY <2>1, <2>2, OtherCall
<1>3. CASE CallOpenFile  BY <1>3, OpenCalled
<1>4. ASSUME NEW o \in Objects, CallOnFile(o) PROVE FInv'
  <2>f. PICK f : f = object[o].fd  OBVIOUS
  <2>1. IsFile(o) /\ Submit("use", o, f) /\ UNCHANGED fileVars
    BY <1>4, <2>f DEF CallOnFile
  <2>2. f \in 0 .. MaxOpens  BY <1>0, <2>f DEF FileTypes
  <2> QED BY <2>1, <2>2, OtherCall
<1>5. ASSUME NEW o \in Objects, CloseLast(o) PROVE FInv'  BY <1>5, LastClosed
<1>6. ASSUME NEW o \in Objects, CloseShared(o) PROVE FInv'
  <2>1. Live(o) /\ GiveUp(o) /\ ~IsLast(o) /\ opened' = opened /\ open' = open
        /\ UNCHANGED <<ioVars, poolVars, callVars>>
    BY <1>6 DEF CloseShared, Live
  <2>2. open' = IF IsLast(o) THEN open \ {object[o].fd} ELSE open  BY <2>1
  <2> QED BY <2>1, <2>2, ShareDropped
<1>7. CASE Share  BY <1>7, ShareKeeps
<1> QED BY <1>1, <1>2, <1>3, <1>4, <1>5, <1>6, <1>7 DEF Fibers

LEMMA StepFInv ==
    ASSUME workload \in Workloads, IInv, FInv, [Next]_vars
    PROVE  FInv'
<1>0. Types /\ Missed  BY DEF IInv
<1>1. ASSUME UNCHANGED <<tasks, room, toThread, taken, fileVars, callVars>> PROVE FInv'
  <2>1. \A c \in Calls : SamePlace(c)  BY <1>1 DEF SamePlace, BeforeCount
  <2> QED BY <1>0, <1>1, <2>1, FilesStay
<1>2. CASE UNCHANGED vars  BY <1>1, <1>2 DEF vars, ioVars, poolVars, threadVars
<1>3. CASE Io(IoReactor)
  <2>1. IoReactor /\ UNCHANGED <<room, toThread, taken, fileVars, callVars>>
    BY <1>3 DEF Io, poolVars, threadVars
  <2>2. \A c \in Calls : SamePlace(c)  BY <1>0, <2>1, IoKeepsPlaces
  <2> QED BY <1>0, <2>1, <2>2, FilesStay
<1>4. CASE PushCall
  <2>1. \A c \in Calls : SamePlace(c)  BY <1>0, <1>4, PushKeepsPlaces
  <2> QED BY <1>0, <1>4, <2>1, FilesStay DEF PushCall
<1>5. CASE Return  BY <1>5, CallReturned
<1>6. CASE HandleSignal \/ PollCalls \/ Raced
  <2>1. CompleteCalls /\ UNCHANGED <<fileVars, callVars>>
    BY <1>6 DEF HandleSignal, PollCalls, Raced
  <2>2. \A c \in Calls : SamePlace(c)  BY <1>0, <2>1, CompleteKeepsPlaces
  <2> QED BY <1>0, <2>1, <2>2, FilesStay
<1>7. CASE EnterSleep \/ Block \/ Awaken
  BY <1>1, <1>7 DEF EnterSleep, Block, Awaken, poolVars, threadVars
<1>8. CASE Thread
  <2>1. UNCHANGED <<ioVars, callVars>> /\ tasks' = tasks  BY <1>8 DEF Thread, ioVars
  <2>2. CASE MakeCall  BY <2>1, <2>2, CallMade
  <2>3. CASE (ReadEventfd \/ Take \/ Notify \/ Drain) /\ UNCHANGED fileVars
    <3>1. \A c \in Calls : SamePlace(c)  BY <1>0, <2>1, <2>3, ThreadKeepsPlaces
    <3> QED BY <1>0, <2>1, <2>3, <3>1, FilesStay
  <2> QED BY <1>8, <2>2, <2>3 DEF Thread
<1>9. ASSUME NEW r \in Requests, Io(KernelComplete(r)) PROVE FInv'
  BY <1>1, <1>9 DEF Io, KernelComplete, poolVars, threadVars
<1>10. CASE ReactorStep  BY <1>3, <1>4, <1>5, <1>6, <1>7, <1>10 DEF ReactorStep
<1> QED BY <1>2, <1>8, <1>9, <1>10, FibersKeepFiles DEF Next

(* What the count of each descriptor is and what each open() and close()   *)
(* on its way finds, at all times (future_all12.cc, posix_file_impl).      *)
THEOREM FilesHold == Spec => [](IInv /\ FInv)
<1>1. Init => workload \in Workloads /\ IInv /\ FInv  BY InitIInv, InitFInv
<1>2. (workload \in Workloads /\ IInv /\ FInv) /\ [Next]_vars
          => (workload \in Workloads /\ IInv /\ FInv)'
  BY StepIInv, StepFInv
<1> QED BY <1>1, <1>2, PTL DEF Spec

LEMMA ClosedByTheLastFromInv == IInv /\ FInv => ClosedByTheLast
<1> SUFFICES ASSUME IInv, FInv PROVE ClosedByTheLast  OBVIOUS
<1>0. Types /\ SharesExact /\ ClosesExact /\ OpenIsKept  BY DEF IInv, FInv
<1>1. \A o \in Objects : IsFile(o) \/ IsHandle(o) => object[o].fd \in open
  BY <1>0 DEF SharesExact, Live
<1>2. ASSUME NEW c \in Closing, BeforeThread(c)
      PROVE  /\ call[c].fd \in open
             /\ Holders(call[c].fd) = {}
             /\ \A d \in Closing \ {c} : call[d].fd # call[c].fd
  <2>1. c \in Calls /\ BeforeCount(c) # 0
    BY <1>0, <1>2, OnTheirWay, BeforeIsCounted
  <2>2. Holders(call[c].fd) = {}  BY <1>0, HoldersFacts DEF ClosesExact
  <2> QED BY <1>0, <2>1, <2>2 DEF ClosesExact
<1>3. ASSUME NEW fd \in open \cap Accepted
      PROVE  \/ Holders(fd) # {}
             \/ \E c \in Closing : call[c].fd = fd
             \/ \E c \in 1 .. made : call[c].op = "open" /\ call[c].fd = fd /\ c \notin returned
  <2>1. NobodyHas(fd) <=> Holders(fd) = {}  BY HoldersFacts
  <2> QED BY <1>0, <2>1 DEF OpenIsKept, Opening
<1> QED BY <1>1, <1>2, <1>3 DEF ClosedByTheLast

(* A descriptor is open as long as a file or handle has it, its close() is *)
(* the only one and finds it open and unused, and none is left open but    *)
(* those whose file::file() threw, for any number of files, handles,       *)
(* descriptors and calls.                                                  *)
THEOREM ClosedByTheLastHolds == Spec => []ClosedByTheLast
BY FilesHold, ClosedByTheLastFromInv, PTL
=============================================================================
