---------------------------- MODULE LowresTimers ----------------------------
(***************************************************************************)
(* The low-resolution timers of a reactor: no signal announces them.  The  *)
(* reactor's lowres_timer_pollfn compares the clock with                   *)
(* _lowres_next_timeout in every round, and the value zero (time_point())  *)
(* says that there is no timer to wait for.  reactor::run() keeps a        *)
(* periodic timer of its own there, load_timer, armed before the loop and  *)
(* canceled only after it: the loop never finds the set empty.             *)
(***************************************************************************)
EXTENDS ReactorTimers

CONSTANT LoadTimer      \* load_timer of run()

ASSUME LoadTimerAssumption == LoadTimer \in Periodic

VARIABLE nextTimeout    \* _lowres_next_timeout

vars == <<timerVars, nextTimeout>>

NoTimeout == 0

(* The loop of run() begins: arm_periodic() of load_timer has set both     *)
(* _lowres_timers and _lowres_next_timeout.                                *)
Init ==
    /\ InitialTimers({LoadTimer})
    /\ nextTimeout = GetNextTimeout(wheel)

(* load_timer is a variable of run(): nothing else arms or cancels it      *)
Others == Timers \ {LoadTimer}

(* add_timer()                                                             *)
ArmTimer(t, until, periodic) ==
    /\ Arm(t, until, periodic) \/ Rearm(t, until, periodic)
    /\ nextTimeout' = IF LowersNext(wheel, until) THEN GetNextTimeout(wheel')
                                                  ELSE nextTimeout

DropTimer(t) ==
    /\ Cancel(t) \/ Destroy(t) \/ EraseUnassigned(t)
    /\ UNCHANGED nextTimeout

(* do_check_lowres_timers(), and the test of do_expire_lowres_timers().    *)
Due == nextTimeout # NoTimeout /\ now > nextTimeout

ExpireLowres ==
    /\ Due
    /\ BeginExpire
    /\ UNCHANGED nextTimeout

RunCallbacks ==
    /\ RunNext \/ CallbackReturns
    /\ UNCHANGED nextTimeout

(* enable_fn()                                                             *)
Finish ==
    /\ EndExpire
    /\ nextTimeout' = IF IsEmptySet(wheel) THEN NoTimeout ELSE GetNextTimeout(wheel)

(* lowres_clock::update()                                                  *)
TimePasses == Tick /\ UNCHANGED nextTimeout

Next ==
    \/ \E t \in Others, until \in 1 .. Horizon : ArmTimer(t, until, FALSE)
    \/ \E t \in Others \intersect Periodic, until \in 1 .. Horizon : ArmTimer(t, until, TRUE)
    \/ \E t \in Others : DropTimer(t)
    \/ ExpireLowres \/ RunCallbacks \/ Finish
    \/ TimePasses

Spec == Init /\ [][Next]_vars

-----------------------------------------------------------------------------
TypeOK == TimersTypeOK /\ nextTimeout \in 0 .. MaxTimestamp

(* Between tasks _lowres_next_timeout is a time, never zero, which         *)
(* try_enter_interrupt_mode() takes for "no pending timers"                *)
(* (future_all12.cc:1615), and that time is not after any queued timer,    *)
(* unless the timer was due when the set last expired: the reactor does    *)
(* not wait past a timer, in its loop or in its sleep.  A callback may     *)
(* cancel the nearest timer and leave _next behind, but load_timer is      *)
(* still queued when enable_fn() runs.                                     *)
TimeoutNotLate ==
    phase = "idle" /\ ~crashed =>
        /\ nextTimeout # NoTimeout
        /\ \A t \in InWheel :
               nextTimeout <= timer[t].expiry \/ nextTimeout <= wheel.last
=============================================================================
