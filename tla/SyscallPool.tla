---------------------------- MODULE SyscallPool ----------------------------
(***************************************************************************)
(* thread_pool and syscall_work_queue: the thread that makes a reactor's   *)
(* blocking system calls (future_all12.cc, future_all12.hh).  Calls go to  *)
(* it and come back through two rings; _queue_has_room bounds the calls on *)
(* their way.  An eventfd wakes the thread, SIGUSR1 a sleeping reactor.    *)
(*                                                                         *)
(* The thread stores a finished call with release order and then loads     *)
(* _main_thread_idle: the processor may keep the store in its buffer while *)
(* the load is made.  The buffer is empty at the latest at the thread's    *)
(* next system call, and every call it makes is one.                       *)
(***************************************************************************)
EXTENDS Semaphore

CONSTANT QueueLength    \* syscall_work_queue::queue_length

ASSUME QueueLengthAssumption == QueueLength \in Nat \ {0}

VARIABLES
    room,       \* _queue_has_room
    toThread,   \* the ring _pending
    started,    \* _start_eventfd holds a count
    thread,     \* where the thread is in work(): "reading", "taking", "calling"
    taken,      \* what is left of its tmp_buf
    stored,     \* pushed on _completed, still in the thread's store buffer
    completed,  \* the ring _completed, as the reactor sees it
    idle,       \* _main_thread_idle
    notified    \* SIGUSR1 has been sent and not been handled

threadVars == <<toThread, started, thread, taken, stored, completed, notified>>
poolVars == <<room, threadVars, idle>>

PoolInit ==
    /\ room = NewSemaphore(QueueLength)
    /\ toThread = <<>> /\ started = FALSE
    /\ thread = "reading" /\ taken = <<>>
    /\ stored = <<>> /\ completed = <<>>
    /\ idle = FALSE /\ notified = FALSE

-----------------------------------------------------------------------------
(* The reactor's side.  The continuation of submit_item() once it has room.*)
Push(call) ==
    /\ toThread' = Append(toThread, call)
    /\ started' = TRUE
    /\ UNCHANGED <<room, thread, taken, stored, completed, idle, notified>>

(* A complete() that gives back a unit more than it has taken.             *)
(* complete(): takes what is there and makes room.                         *)
Complete ==
    /\ completed' = <<>>
    /\ room' = AfterSignal(room, Len(completed))

PushesGranted == Granted(room, Len(completed))

-----------------------------------------------------------------------------
(* The thread's side, work().  Drained is what a system call of the thread *)
(* makes visible.                                                          *)
Drained ==
    /\ completed' = completed \o stored
    /\ stored' = <<>>

Drain ==
    /\ stored # <<>>
    /\ Drained
    /\ UNCHANGED <<room, toThread, started, thread, taken, idle, notified>>

(* The read() of the eventfd returns.                                      *)
ReadEventfd ==
    /\ thread = "reading" /\ started
    /\ started' = FALSE
    /\ thread' = "taking"
    /\ Drained
    /\ UNCHANGED <<room, toThread, taken, idle, notified>>

Take ==
    /\ thread = "taking"
    /\ taken' = toThread
    /\ toThread' = <<>>
    /\ thread' = "calling"
    /\ UNCHANGED <<room, started, stored, completed, idle, notified>>

(* One process(), and its push.                                            *)
Process ==
    /\ thread = "calling" /\ taken # <<>>
    /\ taken' = Tail(taken)
    /\ stored' = <<Head(taken)>>
    /\ completed' = completed \o stored
    /\ UNCHANGED <<room, toThread, started, thread, idle, notified>>

(* The batch is done: the load of _main_thread_idle, and the signal.       *)
Notify ==
    /\ thread = "calling" /\ taken = <<>>
    /\ thread' = "reading"
    /\ notified' = (notified \/ idle)
    /\ IF idle THEN Drained ELSE UNCHANGED <<completed, stored>>
    /\ UNCHANGED <<room, toThread, started, taken, idle>>

-----------------------------------------------------------------------------
(* The thread will still look at _main_thread_idle.                        *)
WillNotify == started \/ thread # "reading"
=============================================================================
