---------------------------- MODULE SteadyTimers ----------------------------
(***************************************************************************)
(* The steady-clock timers of a reactor: complete_timers() runs when the   *)
(* alarm signal of the POSIX timer _steady_clock_timer has arrived and     *)
(* signals::poll_signal() finds it pending.  The POSIX timer fires once    *)
(* for each timer_settime(), and a new setting replaces the old one.       *)
(***************************************************************************)
EXTENDS ReactorTimers
LOCAL INSTANCE FiniteSetsExt

VARIABLES
    alarm,     \* when the POSIX timer fires; NoAlarm when it is not set
    signaled   \* the bit of alarm_signal() in _pending_signals

vars == <<timerVars, alarm, signaled>>

NoAlarm == -1

Init == TimersInit /\ alarm = NoAlarm /\ signaled = FALSE

ArmTimer_mut(t, until, periodic) ==
    /\ Arm(t, until, periodic) \/ Rearm(t, until, periodic)
    /\ alarm' = IF alarm = NoAlarm THEN GetNextTimeout(wheel') ELSE alarm
    /\ UNCHANGED signaled

(* add_timer(): enable_timer() when insert() lowered _next.                *)
ArmTimer(t, until, periodic) ==
    /\ Arm(t, until, periodic) \/ Rearm(t, until, periodic)
    /\ alarm' = IF LowersNext(wheel, until) THEN GetNextTimeout(wheel') ELSE alarm
    /\ UNCHANGED signaled

DropTimer(t) ==
    /\ Cancel(t) \/ Destroy(t) \/ EraseUnassigned(t)
    /\ UNCHANGED <<alarm, signaled>>

(* The kernel: the signal arrives, at once if the time set has passed.     *)
AlarmFires ==
    /\ alarm # NoAlarm /\ alarm <= now
    /\ alarm' = NoAlarm
    /\ signaled' = TRUE
    /\ UNCHANGED timerVars

(* poll_signal() finds the bit and calls the handler run() registered.     *)
HandleAlarm ==
    /\ signaled
    /\ BeginExpire
    /\ signaled' = FALSE
    /\ UNCHANGED alarm

RunCallbacks ==
    /\ RunNext \/ CallbackReturns
    /\ UNCHANGED <<alarm, signaled>>

Finish_mut ==
    /\ EndExpire
    /\ UNCHANGED <<alarm, signaled>>

(* enable_fn(): enable_timer() unless no timer is left.                    *)
Finish ==
    /\ EndExpire
    /\ alarm' = IF IsEmptySet(wheel) THEN alarm ELSE GetNextTimeout(wheel)
    /\ UNCHANGED signaled

TimePasses == Tick /\ UNCHANGED <<alarm, signaled>>

Next ==
    \/ \E t \in Timers, until \in 1 .. Horizon : ArmTimer(t, until, FALSE)
    \/ \E t \in Periodic, until \in 1 .. Horizon : ArmTimer(t, until, TRUE)
    \/ \E t \in Timers : DropTimer(t)
    \/ AlarmFires \/ HandleAlarm \/ RunCallbacks \/ Finish
    \/ TimePasses

Spec == Init /\ [][Next]_vars

(* Time passes, the kernel delivers the signal, and a reactor whose tasks  *)
(* and callbacks return polls its signals again.                           *)
Fairness ==
    /\ WF_vars(TimePasses)
    /\ WF_vars(AlarmFires)
    /\ SF_vars(HandleAlarm)
    /\ WF_vars(RunCallbacks \/ Finish)

FairSpec == Spec /\ Fairness

-----------------------------------------------------------------------------
TypeOK ==
    /\ TimersTypeOK
    /\ alarm \in {NoAlarm} \cup 0 .. MaxTimestamp
    /\ signaled \in BOOLEAN

(* Outside complete_timers(), when a timer is queued a signal is on its    *)
(* way, no later than the timer: it is pending, or the POSIX timer is set  *)
(* for a time that is not after the expiry.  The comment at                *)
(* future_all12.cc:3085 has it that a timer's expiry sends the signal.     *)
(* It holds as long as no callback drops a timer: when one cancels the     *)
(* last queued timer, complete_timers() ends with an empty set whose _next *)
(* is still that timer's expiry, and no alarm; a timer armed for a later   *)
(* time then lowers nothing, and no alarm is set for it.                   *)
AlarmCovers ==
    phase = "idle" /\ ~crashed /\ ~signaled =>
        \A t \in InWheel :
            /\ alarm # NoAlarm
            /\ alarm <= Max({timer[t].expiry, wheel.last})

(* Outside complete_timers(), a queued timer whose expiry has passed has   *)
(* had its signal sent, or the POSIX timer is set for a time that has      *)
(* come: as the comment on add_timer() has it, a timer's expiry sends a    *)
(* signal to the process (future_all12.cc:3085).                           *)
ExpirySignals ==
    phase = "idle" /\ ~crashed =>
        \A t \in InWheel :
            timer[t].expiry < now => signaled \/ (alarm # NoAlarm /\ alarm <= now)

(* A timer armed for a time the clock reaches runs its callback or is      *)
(* canceled, armed for another time or destroyed: it does not stay armed   *)
(* for that time for ever.                                                 *)
EveryTimerFires ==
    \A t \in Timers, e \in 1 .. Horizon :
        [](timer[t].armed /\ timer[t].expiry = e =>
             <>(~timer[t].armed \/ timer[t].expiry # e \/ crashed))

(* del_timer() of a timer in the expired list "uses the saved iterator     *)
(* directly" (future_all12.cc:3115): canceling such a timer succeeds.      *)
CancelSucceeds == ~crashed
=============================================================================
