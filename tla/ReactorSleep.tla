---------------------------- MODULE ReactorSleep ----------------------------
(***************************************************************************)
(* How a reactor goes to sleep without missing a message (future_all12.cc: *)
(* reactor::sleep, signal_pollfn, smp_pollfn, lf_queue::maybe_wakeup).     *)
(*                                                                         *)
(* A reactor with nothing to do blocks its signals, raises its _sleeping   *)
(* flag, polls its queues one last time and blocks in epoll_pwait().  A    *)
(* reactor that pushed into one of those queues reads the flag and, when   *)
(* it is up, takes it down and sends the sleeper a signal.  Both sides     *)
(* store and then load, with relaxed atomics, so the processor may delay   *)
(* the store past the load.  The producer has no fence: the sleeper makes  *)
(* every thread execute one (systemwide_memory_barrier) between its store  *)
(* and its last poll.                                                      *)
(*                                                                         *)
(* Memory: a producer's stores (the ring index it publishes, the flag it   *)
(* takes down) sit in a store buffer and reach memory in any order, at any *)
(* moment, at the latest when the thread enters the kernel or takes the    *)
(* sleeper's barrier.  A reactor's stores to its own flag are followed by  *)
(* a system call before its next load, so one step stands for the moment   *)
(* such a store reaches memory.                                            *)
(***************************************************************************)
EXTENDS Naturals

CONSTANTS
    Reactors,
    Sleepers,  \* those idle for longer than _max_poll_time now and then (the
               \* others are busy all the time, or run with --poll-mode)
    Routes     \* <<s, d>>: s sends requests or responses to d

ASSUME SleepersAssumption == Sleepers \subseteq Reactors
ASSUME RoutesAssumption ==
    /\ Routes \subseteq Reactors \X Reactors
    /\ \A r \in Reactors : <<r, r>> \notin Routes

VARIABLES
    phase,      \* where each reactor is in run() and sleep()
    step,       \* where each reactor is in a push: move_pending() or
                \* flush_response_batch() followed by maybe_wakeup()
    dst,        \* the reactor it pushes to
    sleeping,   \* _sleeping, as memory holds it
    visible,    \* <<s, d>>: d can see items of s in the ring from s to d
    buffered,   \* <<s, d>>: s published items whose index store is buffered
    clearing,   \* <<s, d>>: s's store of false to d's _sleeping is buffered
    lock,       \* smp_pollfn::_membarrier_lock
    fenced,     \* the threads that executed the fence of r's barrier
    polled,     \* the sources r's last poll before sleeping has looked at
    got,        \* whether that poll found something
    sigpending, \* a signal was sent to r and not yet delivered
    handled     \* r's handler ran: its bit in _pending_signals is set

pushVars == <<step, dst>>
memVars == <<sleeping, visible, buffered, clearing>>
sleepVars == <<lock, fenced, polled, got>>
sigVars == <<sigpending, handled>>
vars == <<phase, pushVars, memVars, sleepVars, sigVars>>

(* Operators whose names end in _mut are wrong on purpose: each is a        *)
(* plausible mistake in the definition after it that a property catches.   *)

Pairs == Reactors \X Reactors
Others(r) == Reactors \ {r}

Init ==
    /\ phase = [r \in Reactors |-> "running"]
    /\ step = [r \in Reactors |-> "none"]
    /\ dst = [r \in Reactors |-> r]
    /\ sleeping = [r \in Reactors |-> FALSE]
    /\ visible = {}
    /\ buffered = {}
    /\ clearing = {}
    /\ lock = FALSE
    /\ fenced = [r \in Reactors |-> {}]
    /\ polled = [r \in Reactors |-> {}]
    /\ got = [r \in Reactors |-> FALSE]
    /\ sigpending = [r \in Reactors |-> FALSE]
    /\ handled = [r \in Reactors |-> FALSE]

-----------------------------------------------------------------------------
(* Memory *)

(* Everything in t's store buffer reaches memory.                          *)
Flush(t) ==
    /\ visible' = visible \union {p \in buffered : p[1] = t}
    /\ buffered' = {p \in buffered : p[1] # t}
    /\ clearing' = {p \in clearing : p[1] # t}
    /\ sleeping' = [d \in Reactors |-> sleeping[d] /\ <<t, d>> \notin clearing]

IndexReachesMemory(p) ==
    /\ p \in buffered
    /\ buffered' = buffered \ {p}
    /\ visible' = visible \union {p}
    /\ UNCHANGED <<phase, pushVars, sleeping, clearing, sleepVars, sigVars>>

ClearReachesMemory(p) ==
    /\ p \in clearing
    /\ clearing' = clearing \ {p}
    /\ sleeping' = [sleeping EXCEPT ![p[2]] = FALSE]
    /\ UNCHANGED <<phase, pushVars, visible, buffered, sleepVars, sigVars>>

-----------------------------------------------------------------------------
(* Sending: the ring's push() for each item, then maybe_wakeup() *)

(* Tasks of the main loop submit and respond, and every poll of the queues *)
(* flushes the batches: the last one before sleeping too.                  *)
StartPush(s, d) ==
    /\ phase[s] \in {"running", "polling"}
    /\ step[s] = "none"
    /\ <<s, d>> \in Routes
    /\ step' = [step EXCEPT ![s] = "push"]
    /\ dst' = [dst EXCEPT ![s] = d]
    /\ UNCHANGED <<phase, memVars, sleepVars, sigVars>>

(* The items before the last one of the batch, and the last one.           *)
PushItem(s) ==
    /\ step[s] = "push"
    /\ buffered' = buffered \union {<<s, dst[s]>>}
    /\ UNCHANGED <<phase, pushVars, sleeping, visible, clearing, sleepVars, sigVars>>

PushLastItem(s) ==
    /\ step[s] = "push"
    /\ buffered' = buffered \union {<<s, dst[s]>>}
    /\ step' = [step EXCEPT ![s] = "check"]
    /\ UNCHANGED <<phase, dst, sleeping, visible, clearing, sleepVars, sigVars>>

EndPush(s) ==
    /\ step' = [step EXCEPT ![s] = "none"]
    /\ dst' = [dst EXCEPT ![s] = s]

CheckSleeping_mut(s) ==
    /\ step[s] = "check"
    /\ IF sleeping[dst[s]]
       THEN /\ clearing' = clearing \union {<<s, dst[s]>>}
            /\ EndPush(s)
       ELSE /\ EndPush(s)
            /\ UNCHANGED clearing
    /\ UNCHANGED <<phase, sleeping, visible, buffered, sleepVars, sigVars>>

CheckSleeping(s) ==
    /\ step[s] = "check"
    /\ IF sleeping[dst[s]]
       THEN /\ clearing' = clearing \union {<<s, dst[s]>>}
            /\ step' = [step EXCEPT ![s] = "signal"]
            /\ UNCHANGED dst
       ELSE /\ EndPush(s)
            /\ UNCHANGED clearing
    /\ UNCHANGED <<phase, sleeping, visible, buffered, sleepVars, sigVars>>

Wakeup(s) ==
    /\ step[s] = "signal"
    /\ sigpending' = [sigpending EXCEPT ![dst[s]] = TRUE]
    /\ EndPush(s)
    /\ Flush(s)
    /\ UNCHANGED <<phase, sleepVars, handled>>

-----------------------------------------------------------------------------
(* The main loop *)

Unmasked_mut(r) == phase[r] \in {"running", "idle", "masked", "locked", "barrier"}
Unmasked(r) == phase[r] \in {"running", "idle"}

Deliver(r) ==
    /\ Unmasked(r)
    /\ sigpending[r]
    /\ sigpending' = [sigpending EXCEPT ![r] = FALSE]
    /\ handled' = [handled EXCEPT ![r] = TRUE]
    /\ UNCHANGED <<phase, pushVars, memVars, sleepVars>>

(* poll_once(): handle the signals that arrived, take what the rings hold. *)
PollOnce(r) ==
    /\ phase[r] = "running"
    /\ step[r] = "none"
    /\ visible' = {p \in visible : p[2] # r}
    /\ handled' = [handled EXCEPT ![r] = FALSE]
    /\ phase' = [phase EXCEPT ![r] =
                    IF handled[r] \/ visible' # visible THEN "running" ELSE "idle"]
    /\ UNCHANGED <<pushVars, sleeping, buffered, clearing, sleepVars, sigpending>>

(* Idle, but not for longer than _max_poll_time yet: go round again.       *)
KeepPolling(r) ==
    /\ phase[r] = "idle"
    /\ phase' = [phase EXCEPT ![r] = "running"]
    /\ UNCHANGED <<pushVars, memVars, sleepVars, sigVars>>

-----------------------------------------------------------------------------
(* sleep(): the pollers enter interrupt mode in the order of registration, *)
(* signal_pollfn long before smp_pollfn                                    *)

EnterSignalPoller(r) ==
    /\ phase[r] = "idle"
    /\ r \in Sleepers
    /\ phase' = [phase EXCEPT ![r] = IF handled[r] THEN "running" ELSE "masked"]
    /\ handled' = [handled EXCEPT ![r] = FALSE]
    /\ Flush(r)
    /\ UNCHANGED <<pushVars, sleepVars, sigpending>>

TryLock(r) ==
    /\ phase[r] = "masked"
    /\ phase' = [phase EXCEPT ![r] = IF lock THEN "unmasking" ELSE "locked"]
    /\ lock' = TRUE
    /\ UNCHANGED <<pushVars, memVars, fenced, polled, got, sigVars>>

RaiseFlag(r) ==
    /\ phase[r] = "locked"
    /\ sleeping' = [sleeping EXCEPT ![r] = TRUE]
    /\ phase' = [phase EXCEPT ![r] = "barrier"]
    /\ UNCHANGED <<pushVars, visible, buffered, clearing, sleepVars, sigVars>>

(* The second mprotect() interrupts every thread of the process; each      *)
(* interrupt is a fence of that thread.                                    *)
FenceThread(r, t) ==
    /\ phase[r] = "barrier"
    /\ t \notin fenced[r]
    /\ fenced' = [fenced EXCEPT ![r] = @ \union {t}]
    /\ Flush(t)
    /\ UNCHANGED <<phase, pushVars, lock, polled, got, sigVars>>

BarrierDone_mut(r) ==
    /\ phase[r] = "barrier"
    /\ phase' = [phase EXCEPT ![r] = "polling"]
    /\ lock' = FALSE
    /\ fenced' = [fenced EXCEPT ![r] = {}]
    /\ UNCHANGED <<pushVars, memVars, polled, got, sigVars>>

BarrierDone(r) ==
    /\ phase[r] = "barrier"
    /\ fenced[r] = Reactors
    /\ phase' = [phase EXCEPT ![r] = "polling"]
    /\ lock' = FALSE
    /\ fenced' = [fenced EXCEPT ![r] = {}]
    /\ UNCHANGED <<pushVars, memVars, polled, got, sigVars>>

PollSource(r, s) ==
    /\ phase[r] = "polling"
    /\ step[r] = "none"
    /\ s \in Others(r) \ polled[r]
    /\ polled' = [polled EXCEPT ![r] = @ \union {s}]
    /\ got' = [got EXCEPT ![r] = @ \/ <<s, r>> \in visible]
    /\ visible' = visible \ {<<s, r>>}
    /\ UNCHANGED <<phase, pushVars, sleeping, buffered, clearing, lock, fenced, sigVars>>

PollDone_mut(r) ==
    /\ phase[r] = "polling"
    /\ step[r] = "none"
    /\ phase' = [phase EXCEPT ![r] = "entered"]
    /\ polled' = [polled EXCEPT ![r] = {}]
    /\ got' = [got EXCEPT ![r] = FALSE]
    /\ UNCHANGED <<pushVars, memVars, lock, fenced, sigVars>>

PollDone(r) ==
    /\ phase[r] = "polling"
    /\ step[r] = "none"
    /\ polled[r] = Others(r)
    /\ IF got[r]
       THEN /\ sleeping' = [sleeping EXCEPT ![r] = FALSE]
            /\ phase' = [phase EXCEPT ![r] = "unmasking"]
       ELSE /\ phase' = [phase EXCEPT ![r] = "entered"]
            /\ UNCHANGED sleeping
    /\ polled' = [polled EXCEPT ![r] = {}]
    /\ got' = [got EXCEPT ![r] = FALSE]
    /\ UNCHANGED <<pushVars, visible, buffered, clearing, lock, fenced, sigVars>>

(* A poller registered after smp_pollfn (syscall_pollfn, lowres_timer_     *)
(* pollfn) finds work, or none does and the reactor blocks.                *)
LaterPollerRefuses(r) ==
    /\ phase[r] = "entered"
    /\ phase' = [phase EXCEPT ![r] = "leaving"]
    /\ UNCHANGED <<pushVars, memVars, sleepVars, sigVars>>

Sleep(r) ==
    /\ phase[r] = "entered"
    /\ phase' = [phase EXCEPT ![r] = "asleep"]
    /\ Flush(r)
    /\ UNCHANGED <<pushVars, sleepVars, sigVars>>

(* epoll_pwait() unblocks the signals while it waits: a pending signal     *)
(* runs its handler and ends the wait.                                     *)
WakeBySignal(r) ==
    /\ phase[r] = "asleep"
    /\ sigpending[r]
    /\ sigpending' = [sigpending EXCEPT ![r] = FALSE]
    /\ handled' = [handled EXCEPT ![r] = TRUE]
    /\ phase' = [phase EXCEPT ![r] = "leaving"]
    /\ UNCHANGED <<pushVars, memVars, sleepVars>>

(* A file descriptor became ready.                                         *)
WakeByEvent(r) ==
    /\ phase[r] = "asleep"
    /\ phase' = [phase EXCEPT ![r] = "leaving"]
    /\ UNCHANGED <<pushVars, memVars, sleepVars, sigVars>>

(* exit_interrupt_mode() of smp_pollfn, then of signal_pollfn.             *)
LowerFlag(r) ==
    /\ phase[r] = "leaving"
    /\ sleeping' = [sleeping EXCEPT ![r] = FALSE]
    /\ phase' = [phase EXCEPT ![r] = "unmasking"]
    /\ UNCHANGED <<pushVars, visible, buffered, clearing, sleepVars, sigVars>>

Unmask(r) ==
    /\ phase[r] = "unmasking"
    /\ phase' = [phase EXCEPT ![r] = "running"]
    /\ Flush(r)
    /\ UNCHANGED <<pushVars, sleepVars, sigVars>>

-----------------------------------------------------------------------------
Send(r) ==
    \/ PushLastItem(r)
    \/ CheckSleeping(r)
    \/ Wakeup(r)

Loop(r) ==
    \/ PollOnce(r)
    \/ KeepPolling(r)
    \/ EnterSignalPoller(r)

EnterSleep(r) ==
    \/ TryLock(r)
    \/ RaiseFlag(r)
    \/ \E t \in Reactors : FenceThread(r, t)
    \/ BarrierDone(r)
    \/ \E s \in Reactors : PollSource(r, s)
    \/ PollDone(r)
    \/ LaterPollerRefuses(r)
    \/ Sleep(r)

LeaveSleep(r) ==
    \/ WakeBySignal(r)
    \/ LowerFlag(r)
    \/ Unmask(r)

Memory ==
    \/ \E p \in Pairs : IndexReachesMemory(p)
    \/ \E p \in Pairs : ClearReachesMemory(p)

Next ==
    \/ \E s \in Reactors, d \in Reactors : StartPush(s, d)
    \/ \E r \in Reactors : PushItem(r)
    \/ \E r \in Reactors : Send(r)
    \/ \E r \in Reactors : Deliver(r)
    \/ \E r \in Reactors : Loop(r)
    \/ \E r \in Reactors : EnterSleep(r)
    \/ \E r \in Reactors : LeaveSleep(r)
    \/ \E r \in Reactors : WakeByEvent(r)
    \/ Memory

Spec == Init /\ [][Next]_vars

(* A reactor's thread keeps running until it blocks, a pending signal is   *)
(* delivered once it is not blocked, and a buffered store reaches memory   *)
(* sooner or later.  The pushes between two steps of the loop are finitely *)
(* many (the tasks of one run_tasks(), two batches per queue in a poll),   *)
(* so they do not keep the loop from going on: strong fairness.  A batch   *)
(* comes to its last item.  Nobody has to send, and no event has to come.  *)
Fairness ==
    /\ \A r \in Reactors :
        /\ WF_vars(Send(r))
        /\ SF_vars(Loop(r) \/ EnterSleep(r) \/ LeaveSleep(r))
        /\ WF_vars(Deliver(r))
    /\ WF_vars(Memory)

FairSpec == Spec /\ Fairness

-----------------------------------------------------------------------------
Phases == {"running", "idle", "masked", "locked", "barrier", "polling",
           "entered", "asleep", "leaving", "unmasking"}
Steps == {"none", "push", "check", "signal"}

TypeOK ==
    /\ phase \in [Reactors -> Phases]
    /\ step \in [Reactors -> Steps]
    /\ dst \in [Reactors -> Reactors]
    /\ \A s \in Reactors : step[s] # "none" => <<s, dst[s]>> \in Routes
    /\ sleeping \in [Reactors -> BOOLEAN]
    /\ visible \in SUBSET Routes
    /\ buffered \in SUBSET Routes
    /\ clearing \in SUBSET Routes
    /\ lock \in BOOLEAN
    /\ fenced \in [Reactors -> SUBSET Reactors]
    /\ polled \in [Reactors -> SUBSET Reactors]
    /\ got \in [Reactors -> BOOLEAN]
    /\ sigpending \in [Reactors -> BOOLEAN]
    /\ handled \in [Reactors -> BOOLEAN]

(* A signal to r is pending or about to be sent.                           *)
Notified(r) ==
    \/ sigpending[r]
    \/ \E s \in Reactors : step[s] = "signal" /\ dst[s] = r

(* s is pushing to r and has not read r's flag yet.                        *)
WillCheck(s, r) == step[s] \in {"push", "check"} /\ dst[s] = r

Covered(s, r) == Notified(r) \/ WillCheck(s, r)

(* The wakeup is never lost: when a reactor is blocked in epoll_pwait() and *)
(* another has published an item for it, in memory or still in its store    *)
(* buffer, then a signal to the sleeper is on its way or the producer has   *)
(* yet to look at the sleeper's flag.                                       *)
NoLostWakeup == \A r, s \in Reactors :
    (phase[r] = "asleep" /\ <<s, r>> \in visible \union buffered) => Covered(s, r)

(* "We are free to clear it, because we're sending a signal now": while a   *)
(* reactor means its flag to be up, the flag is down only if a signal is on *)
(* its way, also when the store that took it down was meant for an earlier  *)
(* sleep.                                                                   *)
Flagged(r) == phase[r] \in {"barrier", "polling", "entered", "asleep"}
ClearedMeansNotified == \A r \in Reactors :
    (Flagged(r) /\ ~sleeping[r]) => Notified(r)

(* "systemwide_memory_barrier() is very slow if run concurrently, so don't  *)
(* go to sleep if it is running now": no two reactors are between try_lock() *)
(* and unlock(), and an attempt to sleep that fails does not leave the lock  *)
(* behind: nobody could sleep any more.                                     *)
BarrierLock ==
    /\ \A r, s \in Reactors :
        {phase[r], phase[s]} \subseteq {"locked", "barrier"} => r = s
    /\ lock <=> \E r \in Reactors : phase[r] \in {"locked", "barrier"}

(* A signal whose handler has run is looked at before the reactor blocks.   *)
SignalsSeenBeforeSleep == \A r \in Reactors : phase[r] = "asleep" => ~handled[r]

(* The inductive invariant behind the three.                                *)

(* The store that takes a flag down is in a buffer only until the signal.   *)
ClearingIsSignalling == \A p \in clearing : step[p[1]] = "signal" /\ dst[p[1]] = p[2]

MaskedUnhandled == \A r \in Reactors :
    phase[r] \in {"masked", "locked", "barrier", "polling", "entered", "asleep"}
        => ~handled[r]

SetsStartEmpty == \A r \in Reactors :
    /\ phase[r] # "barrier" => fenced[r] = {}
    /\ phase[r] # "polling" => polled[r] = {}

(* Once the barrier has fenced s, an item of s that memory does not show r  *)
(* was pushed after r's flag went up: s will see the flag.                  *)
FencedIsCovered == \A r, s \in Reactors :
    /\ \/ phase[r] = "barrier" /\ s \in fenced[r]
       \/ phase[r] \in {"polling", "entered", "asleep"}
    /\ <<s, r>> \in buffered
    => Covered(s, r)

(* Once r's last poll has looked at s's ring, so was every item r can see.  *)
PolledIsCovered == \A r, s \in Reactors :
    /\ \/ phase[r] = "polling" /\ s \in polled[r]
       \/ phase[r] \in {"entered", "asleep"}
    /\ <<s, r>> \in visible
    => Covered(s, r)

IInv ==
    /\ TypeOK
    /\ BarrierLock
    /\ ClearingIsSignalling
    /\ ClearedMeansNotified
    /\ MaskedUnhandled
    /\ SetsStartEmpty
    /\ FencedIsCovered
    /\ PolledIsCovered

(* Items the reactor can see do not wait for ever.                          *)
Noticed == \A r, s \in Reactors :
    (<<s, r>> \in visible) ~> (<<s, r>> \notin visible)
=============================================================================
