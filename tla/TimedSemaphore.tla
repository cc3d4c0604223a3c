--------------------------- MODULE TimedSemaphore ---------------------------
(***************************************************************************)
(* basic_semaphore with timeouts (semaphore.hh), the expiring_fifo of its  *)
(* waiters (expiring_fifo.hh), and condition_variable, which is such a     *)
(* semaphore without units.  Each waiter with a timeout has a timer of its *)
(* own inside its entry of the list: the timer's callback answers the      *)
(* waiter and empties the entry, and takes empty entries off the front,    *)
(* its own included; a grant destroys the entry and so cancels the timer.  *)
(*                                                                         *)
(* The timers are those of SteadyTimers, one for each client.              *)
(***************************************************************************)
EXTENDS SteadyTimers
LOCAL INSTANCE SequencesExt
LOCAL INSTANCE FiniteSetsExt

CONSTANTS
    Patient,     \* clients that wait without a timeout; Timers are the others
    MaxUnits,    \* units of a semaphore, when it has any
    MaxWaiters,  \* bound: entries of the list
    Urgent       \* bound: the clients that wait to time 1; others to 2

ASSUME UnitsAssumption ==
    /\ Patient \cap Timers = {}
    /\ MaxUnits \in Nat \ {0} /\ MaxWaiters \in Nat \ {0}
    /\ Urgent \subseteq Timers /\ Horizon > 1

VARIABLES
    total,     \* what the semaphore was made with; 0: a condition variable
    count,     \* _count
    list,      \* _list: entries, each live until its payload is taken away
    client,    \* every client: out, waiting, or holding units
    overtaken  \* history: the front got there by a timeout, and signal()
               \* has not been called since

semVars == <<total, count, list, client, overtaken>>

Clients == Timers \cup Patient
Out == [at |-> "out", nr |-> 0]

IsCondition == total = 0

SemInit ==
    /\ total \in {0, MaxUnits}
    /\ count = total
    /\ list = <<>>
    /\ client = [c \in Clients |-> Out]
    /\ overtaken = FALSE

(* expiring_fifo: size() counts the live entries only *)
LiveIn(l) == {i \in DOMAIN l : l[i].live}
Waiters == LiveIn(list)

DropExpiredFront(l) ==
    IF LiveIn(l) = {} THEN <<>> ELSE SubSeq(l, Min(LiveIn(l)), Len(l))

MayProceed(nr) == count >= nr /\ Waiters = {}

Deadline(c) == IF c \in Urgent THEN 1 ELSE 2

(* Tasks use the semaphore, not the callbacks of other timers *)
InTask == ~crashed /\ phase = "idle"

-----------------------------------------------------------------------------
Take(c, nr) ==
    /\ count' = count - nr
    /\ client' = IF IsCondition THEN client ELSE [client EXCEPT ![c] = [at |-> "in", nr |-> nr]]
    /\ UNCHANGED <<total, list, overtaken, vars>>

(* push_back() of an entry, whose timer is armed if it has a timeout *)
Queue(c, nr, until) ==
    /\ Len(list) < MaxWaiters
    /\ list' = Append(list, [who |-> c, nr |-> nr, live |-> TRUE])
    /\ client' = [client EXCEPT ![c] = [at |-> "waiting", nr |-> nr]]
    /\ IF c \in Timers THEN ArmTimer(c, until, FALSE) ELSE UNCHANGED vars
    /\ UNCHANGED <<total, count, overtaken>>

(* wait(); a condition variable asks for one unit *)
Wait(c, nr, until) ==
    /\ InTask /\ client[c] = Out
    /\ IsCondition => nr = 1
    /\ IF MayProceed(nr) THEN Take(c, nr) ELSE Queue(c, nr, until)

TryWait(c, nr) ==
    /\ InTask /\ client[c] = Out /\ ~IsCondition
    /\ MayProceed(nr)
    /\ Take(c, nr)

(* consume_units() takes what may not be there.  SemNext consumes one unit *)
(* at a time, which bounds the debt.                                       *)
Consume(c, nr) ==
    /\ InTask /\ client[c] = Out /\ ~IsCondition
    /\ count >= 0
    /\ Take(c, nr)

-----------------------------------------------------------------------------
(* Operators whose names end in _mut are wrong on purpose: each is a       *)
(* plausible mistake in the definition after it that a property catches.   *)
(* Here, a signal() that does not look past a waiter it cannot serve for   *)
(* long enough: it stops after the first.                                  *)
Granted_mut(n) == {i \in Waiters : i = 1 /\ list[i].nr <= count + n}

(* What the loop of signal() serves: live entries from the front, as long  *)
(* as the units last                                                       *)
Granted(n) ==
    {i \in Waiters :
        MapThenSumSet(LAMBDA j : list[j].nr, {j \in Waiters : j <= i}) <= count + n}

(* ~entry() of the entries served: their timers are canceled *)
DestroyTimers(gone) ==
    /\ timer' = [t \in Timers |-> IF t \in gone THEN NewTimer ELSE timer[t]]
    /\ wheel' = FoldSet(LAMBDA t, w : IF timer[t].queued
                                      THEN RemoveTimer(w, t, timer[t].expiry) ELSE w,
                        wheel, gone \cap Timers)
    /\ UNCHANGED <<now, batch, phase, crashed, alarm, signaled>>

(* signal(n), as the clients in returning give units back *)
SignalFrom(n, returning) ==
    LET granted == Granted(n)
        who == {list[i].who : i \in granted}
        next == IF granted = {} THEN 1 ELSE Max(granted) + 1
    IN  /\ count' = count + n - MapThenSumSet(LAMBDA i : list[i].nr, granted)
        /\ list' = DropExpiredFront(SubSeq(list, next, Len(list)))
        /\ client' = [c \in Clients |->
               IF c \in who /\ ~IsCondition THEN [client[c] EXCEPT !.at = "in"]
               ELSE IF c \in who \cup returning THEN Out ELSE client[c]]
        /\ overtaken' = FALSE
        /\ DestroyTimers(who)
        /\ UNCHANGED total

(* ~semaphore_units() *)
GiveBack(c) ==
    /\ InTask /\ client[c].at = "in"
    /\ SignalFrom(client[c].nr, {c})

(* condition_variable::signal() and broadcast() *)
NotifyOne == InTask /\ IsCondition /\ Waiters # {} /\ SignalFrom(1, {})
NotifyAll == InTask /\ IsCondition /\ SignalFrom(Cardinality(Waiters), {})

(* The callback of an entry's timer.  The list is not looked at again: who *)
(* comes to the front waits for the next signal(), even if there are units *)
(* enough.                                                                 *)
TimeOut ==
    /\ phase = "looping" /\ RunCallbacks
    /\ LET t == Head(batch)
           mine == CHOOSE i \in Waiters : list[i].who = t
           rest == DropExpiredFront([list EXCEPT ![mine].live = FALSE])
       IN  /\ list' = rest
           /\ client' = [client EXCEPT ![t] = Out]
           /\ overtaken' = (rest # <<>> /\ (overtaken \/ mine = 1))
    /\ UNCHANGED <<total, count>>

CallbackEnds == phase = "callback" /\ RunCallbacks /\ UNCHANGED semVars

SemNext ==
    \/ \E c \in Clients, nr \in 1 .. MaxUnits + 1 : Wait(c, nr, Deadline(c))
    \/ \E c \in Clients, nr \in 1 .. MaxUnits : TryWait(c, nr)
    \/ \E c \in Clients : Consume(c, 1) \/ GiveBack(c)
    \/ NotifyOne \/ NotifyAll
    \/ TimeOut \/ CallbackEnds
    \/ (AlarmFires \/ HandleAlarm \/ Finish \/ TimePasses) /\ UNCHANGED semVars

-----------------------------------------------------------------------------
(* Units that clients hold *)
Held == MapThenSumSet(LAMBDA c : client[c].nr, {c \in Clients : client[c].at = "in"})

(* Whatever order waits, grants, timeouts and the destruction of entries   *)
(* happen in: every waiting client has one live entry, whose timer is      *)
(* armed if it may time out; front() is live; no unit is lost; and a       *)
(* waiter at the front for which there are units enough got there by a     *)
(* timeout (expiring_fifo.hh:38): nothing looks at it before the next      *)
(* signal(), and if nobody holds units there may be none.                  *)
WaitersExact ==
    /\ \A c \in Clients :
          LET mine == {i \in Waiters : list[i].who = c} IN
          /\ Cardinality(mine) = (IF client[c].at = "waiting" THEN 1 ELSE 0)
          /\ \A i \in mine : list[i].nr = client[c].nr
          /\ c \in Timers => (timer[c].armed <=> mine # {})
    /\ count + Held = total
    /\ list # <<>> => list[1].live
    /\ list # <<>> /\ count >= list[1].nr => overtaken

-----------------------------------------------------------------------------
(* Two workloads for TLC, of which Init picks one: any timers, or those of *)
(* the waiters of a semaphore.                                             *)
VARIABLE workload

mcVars == <<vars, semVars, workload>>

MCInit ==
    /\ Init /\ SemInit
    /\ workload \in {"timers", "waiters"}
    /\ workload = "timers" => IsCondition

MCNext ==
    \/ workload = "timers" /\ Next /\ UNCHANGED <<semVars, workload>>
    \/ workload = "waiters" /\ SemNext /\ UNCHANGED workload

MCSpec == MCInit /\ [][MCNext]_mcVars /\ Fairness

(* The waiters, units and timers of a semaphore agree (WaitersExact): in   *)
(* the workload whose timers are those of its waiters.                     *)
SemaphoreExact == workload = "waiters" => WaitersExact
=============================================================================
