--------------------------- MODULE ReactorTimers ---------------------------
(***************************************************************************)
(* The timers of one reactor and one clock: timer<Clock> and               *)
(* reactor::complete_timers() (timer.hh, future_all12.cc) over a           *)
(* timer_set.  What is common to the two clocks is here; SteadyTimers and  *)
(* LowresTimers add how the reactor learns that a timer is due, which is   *)
(* where they differ.                                                      *)
(*                                                                         *)
(* complete_timers() runs the callbacks one by one, and a callback may arm *)
(* or cancel any timer, those of its own batch included: each callback is  *)
(* a phase in which the same operations are possible as between tasks.     *)
(***************************************************************************)
EXTENDS TimerSet
LOCAL INSTANCE SequencesExt
LOCAL INSTANCE FiniteSetsExt

CONSTANTS
    Periodic,   \* the timers that are ever armed with a period
    Period,     \* that period
    CallbacksDrop,  \* whether callbacks cancel or destroy timers
    Horizon     \* bound: where the clock stops; timers are armed up to it

ASSUME HorizonAssumption ==
    /\ Periodic \subseteq Timers
    /\ Period \in Nat \ {0}
    /\ Horizon \in Nat \ {0}
    /\ Horizon + Period < MaxTimestamp
    /\ CallbacksDrop \in BOOLEAN

VARIABLES
    now,      \* Clock::now()
    timer,    \* the fields of every timer
    wheel,    \* _timers, _lowres_timers
    batch,    \* _expired_timers, _expired_lowres_timers
    phase,    \* "idle": between two tasks; "looping", "callback": in
              \* complete_timers(), at the head of its loop and in a callback
    crashed   \* the process has died

timerVars == <<now, timer, wheel, batch, phase, crashed>>

TimerRecords == [armed : BOOLEAN, queued : BOOLEAN, expired : BOOLEAN,
                 periodic : BOOLEAN, expiry : 0 .. MaxTimestamp]

NewTimer == [armed |-> FALSE, queued |-> FALSE, expired |-> FALSE,
             periodic |-> FALSE, expiry |-> 0]

(* arm_state()                                                             *)
ArmedAt(until, periodic) ==
    [armed |-> TRUE, queued |-> TRUE, expired |-> FALSE,
     periodic |-> periodic, expiry |-> until]

(* The timers in begun have been armed with their period.                  *)
InitialTimers(begun) ==
    /\ now = 1
    /\ timer = [t \in Timers |-> IF t \in begun THEN ArmedAt(1 + Period, TRUE) ELSE NewTimer]
    /\ wheel = FoldSet(LAMBDA t, w : Insert(w, t, 1 + Period), EmptySet, begun)
    /\ batch = <<>>
    /\ phase = "idle"
    /\ crashed = FALSE

TimersInit == InitialTimers({})

Expiry == [t \in Timers |-> timer[t].expiry]

(* Operators whose names end in _mut are wrong on purpose: each is a        *)
(* plausible mistake in the definition after it that a property catches.   *)

-----------------------------------------------------------------------------
(* What tasks and callbacks do with timers.  periodic says whether a       *)
(* period is given.                                                        *)

CodeRuns == ~crashed /\ phase \in {"idle", "callback"}

(* arm(), which asserts that the timer is not armed.                       *)
Arm(t, until, periodic) ==
    /\ CodeRuns
    /\ ~timer[t].armed
    /\ timer' = [timer EXCEPT ![t] = ArmedAt(until, periodic)]
    /\ wheel' = Insert(wheel, t, until)
    /\ UNCHANGED <<now, batch, phase, crashed>>

(* The timer waits in the list of expired timers for its callback.         *)
InBatch(t) == timer[t].queued /\ timer[t].expired

(* rearm() of an armed timer: cancel(), then arm().                        *)
Rearm(t, until, periodic) ==
    /\ CodeRuns
    /\ timer[t].armed /\ ~InBatch(t)
    /\ timer' = [timer EXCEPT ![t] = ArmedAt(until, periodic)]
    /\ wheel' = Insert(RemoveTimer(wheel, t, timer[t].expiry), t, until)
    /\ UNCHANGED <<now, batch, phase, crashed>>

CodeDrops == CodeRuns /\ (phase = "callback" => CallbacksDrop)

Cancel_mut(t) ==
    /\ CodeDrops
    /\ timer[t].armed /\ ~InBatch(t)
    /\ timer' = [timer EXCEPT ![t].armed = FALSE, ![t].queued = FALSE]
    /\ UNCHANGED <<now, wheel, batch, phase, crashed>>

(* cancel()                                                                *)
Cancel(t) ==
    /\ CodeDrops
    /\ timer[t].armed /\ ~InBatch(t)
    /\ timer' = [timer EXCEPT ![t].armed = FALSE, ![t].queued = FALSE]
    /\ wheel' = RemoveTimer(wheel, t, timer[t].expiry)
    /\ UNCHANGED <<now, batch, phase, crashed>>

(* ~timer(), and a new timer in its place.                                 *)
Destroy(t) ==
    /\ CodeDrops
    /\ ~InBatch(t)
    /\ timer' = [timer EXCEPT ![t] = NewTimer]
    /\ wheel' = IF timer[t].queued THEN RemoveTimer(wheel, t, timer[t].expiry)
                                   ELSE wheel
    /\ UNCHANGED <<now, batch, phase, crashed>>

(* cancel(), rearm() or ~timer() of a timer in the expired list:           *)
(* del_timer() erases expired_it, which nothing ever assigned.  It is a    *)
(* default-constructed list iterator, a null pointer.                      *)
EraseUnassigned(t) ==
    /\ CodeRuns
    /\ InBatch(t)
    /\ crashed' = TRUE
    /\ UNCHANGED <<now, timer, wheel, batch, phase>>

-----------------------------------------------------------------------------
(* complete_timers()                                                       *)

BeginExpire ==
    /\ ~crashed /\ phase = "idle"
    /\ batch' = Expired(wheel, now, Expiry)
    /\ wheel' = AfterExpire(wheel, now, Expiry)
    /\ timer' = [t \in Timers |-> IF t \in ToSet(batch')
                                  THEN [timer[t] EXCEPT !.expired = TRUE]
                                  ELSE timer[t]]
    /\ phase' = "looping"
    /\ UNCHANGED <<now, crashed>>

(* The head of the list is taken off it, queued again if it has a period   *)
(* (readd_periodic(), which ignores what insert() returns), and called.    *)
RunNext ==
    /\ ~crashed /\ phase = "looping" /\ batch # <<>>
    /\ LET t == Head(batch) IN
         IF timer[t].armed /\ timer[t].periodic
         THEN /\ timer' = [timer EXCEPT ![t] = ArmedAt(now + Period, TRUE)]
              /\ wheel' = Insert(wheel, t, now + Period)
         ELSE /\ timer' = [timer EXCEPT ![t].armed = FALSE, ![t].queued = FALSE]
              /\ UNCHANGED wheel
    /\ phase' = IF timer[Head(batch)].armed THEN "callback" ELSE "looping"
    /\ batch' = Tail(batch)
    /\ UNCHANGED <<now, crashed>>

CallbackReturns ==
    /\ ~crashed /\ phase = "callback"
    /\ phase' = "looping"
    /\ UNCHANGED <<now, timer, wheel, batch, crashed>>

(* The end of the loop; what enable_fn() does then is each clock's own.    *)
EndExpire ==
    /\ ~crashed /\ phase = "looping" /\ batch = <<>>
    /\ phase' = "idle"
    /\ UNCHANGED <<now, timer, wheel, batch, crashed>>

Tick ==
    /\ now < Horizon
    /\ now' = now + 1
    /\ UNCHANGED <<timer, wheel, batch, phase, crashed>>

-----------------------------------------------------------------------------
TimersTypeOK ==
    /\ now \in 1 .. Horizon
    /\ timer \in [Timers -> TimerRecords]
    /\ wheel \in TimerSets
    /\ batch \in Seq(Timers)
    /\ phase = "idle" => batch = <<>>
    /\ phase \in {"idle", "looping", "callback"}
    /\ crashed \in BOOLEAN

(* Part of TimersInPlace: every queued timer that has not expired is in    *)
(* the wheel once, in the bucket get_index() gives for it now, whatever    *)
(* _last was when it was inserted, and nothing else is; the bit of a       *)
(* bucket says whether it holds a timer.                                   *)
InWheel == {t \in Timers : timer[t].queued /\ ~timer[t].expired}

WheelExact ==
    \A i \in Buckets :
        /\ i \in wheel.nonEmpty <=> wheel.buckets[i] # <<>>
        /\ IsInjective(wheel.buckets[i])
        /\ ToSet(wheel.buckets[i]) =
               {t \in InWheel : GetIndex(wheel.last, timer[t].expiry) = i}

(* _next, to which insert() compares and from which the reactor takes the  *)
(* time it next has to look, is never after a timer in the wheel: not      *)
(* after expire() recomputed it from one bucket, nor after remove().       *)
NextNotLate == \A t \in InWheel : wheel.next <= timer[t].expiry

(* Part of TimersInPlace: a timer waits in the expired list exactly while  *)
(* it is queued and marked expired, and is still armed there.              *)
BatchIsExpired ==
    /\ ToSet(batch) = {t \in Timers : InBatch(t)}
    /\ IsInjective(batch)
    /\ \A t \in Timers : timer[t].armed <=> timer[t].queued

(* Whatever callbacks arm, cancel and destroy, a timer is in the one place *)
(* that its fields say: remove() finds its bucket by computing the index   *)
(* again (timer.hh:99), expire() skips the buckets whose bit is clear, and *)
(* del_timer() and complete_timers() tell the wheel and the expired list   *)
(* apart by the mark alone.                                                *)
TimersInPlace == WheelExact /\ BatchIsExpired

(* expire() takes exactly the timers that are due out of the wheel: none   *)
(* early, and none left for later although its time has come.              *)
ExpiresExactlyTheDue ==
    [][phase = "idle" /\ phase' = "looping" =>
         ToSet(batch') = {t \in InWheel : timer[t].expiry <= now}]_timerVars

(* A callback never runs before the expiry its timer was last armed for,   *)
(* nor for a timer that is not armed.                                      *)
FiresWhenDue ==
    [][phase = "looping" /\ batch # <<>> /\ batch' = Tail(batch) =>
         timer[Head(batch)].armed /\ timer[Head(batch)].expiry <= now]_timerVars
=============================================================================
