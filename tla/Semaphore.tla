----------------------------- MODULE Semaphore -----------------------------
(***************************************************************************)
(* basic_semaphore (semaphore.hh), as the I/O queue and the syscall thread *)
(* pool use it: units are taken one at a time and nobody waits with a      *)
(* timeout (TimedSemaphore has the rest).  A semaphore is a record of its  *)
(* free units and of the waiters, oldest first; a waiter is the task that  *)
(* its promise makes runnable.                                             *)
(***************************************************************************)
EXTENDS Naturals, Sequences

Semaphores(Waiter) == [units : Nat, waiters : Seq(Waiter)]

NewSemaphore(n) == [units |-> n, waiters |-> <<>>]

MayProceed(sem) == sem.units >= 1 /\ sem.waiters = <<>>

(* Operators whose names end in _mut are wrong on purpose: each is a       *)
(* plausible mistake in the definition after it that a property catches.   *)
(* Here, a wait() that puts the newest waiter first.                       *)
AfterWait_mut(sem, w) ==
    IF MayProceed(sem)
    THEN [sem EXCEPT !.units = @ - 1]
    ELSE [sem EXCEPT !.waiters = <<w>> \o @]

(* wait(): a unit at once, or a place in the list.  ReadyAfterWait is the  *)
(* task that may run at once, as a sequence of none or one.                *)
AfterWait(sem, w) ==
    IF MayProceed(sem)
    THEN [sem EXCEPT !.units = @ - 1]
    ELSE [sem EXCEPT !.waiters = Append(@, w)]

ReadyAfterWait(sem, w) == IF MayProceed(sem) THEN <<w>> ELSE <<>>

(* signal(n): how many waiters get a unit, and who.                        *)
GrantCount(sem, n) ==
    IF sem.units + n <= Len(sem.waiters) THEN sem.units + n ELSE Len(sem.waiters)

Granted(sem, n) == SubSeq(sem.waiters, 1, GrantCount(sem, n))

AfterSignal(sem, n) ==
    [units |-> (sem.units + n) - GrantCount(sem, n),
     waiters |-> SubSeq(sem.waiters, GrantCount(sem, n) + 1, Len(sem.waiters))]
=============================================================================
