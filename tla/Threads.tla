------------------------------ MODULE Threads ------------------------------
(***************************************************************************)
(* Threads of the reactor (thread, thread_context, jmp_buf_link): functions *)
(* with a stack of their own on the one processor of the reactor, which    *)
(* may wait for a future in get().  A context that is entered remembers    *)
(* the one it was entered from and returns there when it waits or ends.    *)
(* A new thread is entered from its constructor, perhaps inside another    *)
(* thread; a thread that waits is entered again from a task.               *)
(*                                                                         *)
(* A thread with a scheduling group that has used up its time goes to      *)
(* _preempted_threads, from which its _sched_timer takes it, or the        *)
(* reactor once it has nothing else to do.  How much time is left is a     *)
(* choice; need_preempt() is always true.                                  *)
(***************************************************************************)
EXTENDS Naturals, Sequences, FiniteSets

CONSTANTS
    Fibers,      \* the threads that may be made
    Grouped,     \* those with a scheduling group
    MaxWaits     \* bound: how often threads wait in all, joins apart

VARIABLES
    context,     \* each thread_context
    current,     \* g_current_context
    link,        \* jmp_buf_link::link
    ready,       \* the task list of the reactor
    waitsFor,    \* threads that wait for an event of the program
    preempted,   \* _preempted_threads
    alarms,      \* threads whose _sched_timer is armed
    waits,       \* counts the waits
    aborted      \* an assertion failed

threadVars == <<context, current, link, ready, waitsFor, preempted, alarms, waits, aborted>>

Main == "main"   \* g_unthreaded_context
Nobody == "nobody"

ASSUME FibersAssumption == {Main, Nobody, "async"} \cap Fibers = {}

NoFiber == [at |-> "none"]

ThreadInit ==
    /\ context = [t \in Fibers |-> NoFiber]
    /\ current = Main
    /\ link = [t \in Fibers |-> Nobody]
    /\ ready = <<>>
    /\ waitsFor = {} /\ preempted = <<>> /\ alarms = {}
    /\ waits = 0 /\ aborted = FALSE

(* thread_context::setup() and initial_switch_in(): the function runs at   *)
(* once.  The owner of a plain thread joins it; async() is told when it is *)
(* over and frees it.                                                      *)
Construct(t, kind) ==
    /\ context[t] = NoFiber
    /\ context' = [context EXCEPT ![t] =
           [at |-> "in", owner |-> current, promise |-> "fresh",
            joiner |-> IF kind = "async" THEN "async" ELSE Nobody]]
    /\ link' = [link EXCEPT ![t] = current]
    /\ current' = t
    /\ UNCHANGED <<ready, waitsFor, preempted, alarms, waits, aborted>>

Async(t) == Construct(t, "async")
MakeThread(t) == current # Main /\ Construct(t, "plain")

SwitchOut_mut(t) ==
    /\ context' = [context EXCEPT ![t].at = "out"]
    /\ current' = Main
    /\ waits < MaxWaits /\ waits' = waits + 1

(* switch_out(): back to where the thread was entered from *)
SwitchOut(t) ==
    /\ context' = [context EXCEPT ![t].at = "out"]
    /\ current' = link[t]
    /\ waits < MaxWaits /\ waits' = waits + 1

(* future::get() of a future that is not available: wait() leaves a        *)
(* continuation that enters the thread again.                              *)
Wait(t) ==
    /\ current = t
    /\ SwitchOut(t)
    /\ waitsFor' = waitsFor \cup {t}
    /\ UNCHANGED <<link, ready, preempted, alarms, aborted>>

Fulfil(t) ==
    /\ t \in waitsFor
    /\ waitsFor' = waitsFor \ {t}
    /\ ready' = Append(ready, <<"enter", t>>)
    /\ UNCHANGED <<context, current, link, preempted, alarms, waits, aborted>>

(* later().get() *)
Later(t) ==
    /\ SwitchOut(t)
    /\ ready' = Append(ready, <<"later", t>>)
    /\ UNCHANGED <<link, waitsFor, preempted, alarms, aborted>>

(* set_sched_promise() takes the same promise every time: get_future() of  *)
(* a promise that was used before fails an assertion.                      *)
Preempt(t) ==
    IF context[t].promise = "spent"
    THEN /\ aborted' = TRUE
         /\ UNCHANGED <<context, current, link, ready, waitsFor, preempted, alarms, waits>>
    ELSE /\ waits < MaxWaits /\ waits' = waits + 1
         /\ preempted' = Append(preempted, t)
         /\ alarms' = alarms \cup {t}
         /\ context' = [context EXCEPT ![t].at = "out", ![t].promise = "spent"]
         /\ current' = link[t]
         /\ UNCHANGED <<link, ready, waitsFor, aborted>>

(* yield(), which get() of an available future calls too *)
Yield(t) ==
    /\ current = t
    /\ \/ Later(t)
       \/ t \in Grouped /\ Preempt(t)

(* join().get().  The context of t is gone when the variable is.  When t   *)
(* is over by then its future is available, and get() is a Yield, or goes  *)
(* on.                                                                     *)
Join(u, t) ==
    /\ current = u /\ context[t] # NoFiber /\ context[t].at # "freed"
    /\ context[t].owner = u /\ context[t].joiner = Nobody
    /\ IF context[t].at = "over"
       THEN context' = [context EXCEPT ![t].joiner = u] /\ UNCHANGED current
       ELSE context' = [context EXCEPT ![t].joiner = u, ![u].at = "out"] /\ current' = link[u]
    /\ UNCHANGED <<link, ready, waitsFor, preempted, alarms, waits, aborted>>

DestroyThread(u, t) ==
    /\ current = u /\ context[t] # NoFiber /\ context[t].at # "freed"
    /\ context[t].joiner = u
    /\ context' = [context EXCEPT ![t].at = "freed"]
    /\ UNCHANGED <<current, link, ready, waitsFor, preempted, alarms, waits, aborted>>

(* main() of the context ends: _done is set, and final_switch_out().  A    *)
(* function joins the threads it owns first.                               *)
FinalSwitchOut(t) ==
    /\ current = t
    /\ \A u \in Fibers : context[u] # NoFiber /\ context[u].at # "freed" =>
          context[u].joiner = "async" \/ context[u].owner # t
    /\ context' = [context EXCEPT ![t].at = "over"]
    /\ current' = link[t]
    /\ ready' = CASE context[t].joiner = Nobody -> ready
                  [] context[t].joiner = "async" -> Append(ready, <<"joined", t>>)
                  [] OTHER -> Append(ready, <<"enter", context[t].joiner>>)
    /\ UNCHANGED <<link, waitsFor, preempted, alarms, waits, aborted>>

(* A task.  switch_in() notes the context it is entered from, and the end  *)
(* of async() frees what do_with() kept.                                   *)
ReadyTask ==
    /\ current = Main /\ ready # <<>>
    /\ LET t == Head(ready)[2]
       IN  CASE Head(ready)[1] = "enter" ->
                   /\ context' = [context EXCEPT ![t].at = "in"]
                   /\ link' = [link EXCEPT ![t] = current]
                   /\ current' = t
                   /\ ready' = Tail(ready)
             [] Head(ready)[1] = "later" ->
                   /\ ready' = Append(Tail(ready), <<"enter", t>>)
                   /\ UNCHANGED <<context, link, current>>
             [] Head(ready)[1] = "joined" ->
                   /\ ready' = Append(Tail(ready), <<"free", t>>)
                   /\ UNCHANGED <<context, link, current>>
             [] OTHER ->
                   /\ context' = [context EXCEPT ![t].at = "freed"]
                   /\ ready' = Tail(ready)
                   /\ UNCHANGED <<link, current>>
    /\ UNCHANGED <<waitsFor, preempted, alarms, waits, aborted>>

(* erase() of _preempted_it *)
WithoutPreempted(i) == SubSeq(preempted, 1, i - 1) \o SubSeq(preempted, i + 1, Len(preempted))

(* The pollers run when there is no task.  reschedule() is the callback of *)
(* _sched_timer.                                                           *)
Reschedule(t) ==
    /\ current = Main /\ ready = <<>> /\ t \in alarms
    /\ alarms' = alarms \ {t}
    /\ \E i \in DOMAIN preempted :
          preempted[i] = t /\ preempted' = WithoutPreempted(i)
    /\ ready' = Append(ready, <<"enter", t>>)
    /\ UNCHANGED <<context, current, link, waitsFor, waits, aborted>>

(* try_run_one_yielded_thread() *)
TryRunOneYieldedThread ==
    /\ current = Main /\ ready = <<>> /\ preempted # <<>>
    /\ alarms' = alarms \ {Head(preempted)}
    /\ preempted' = Tail(preempted)
    /\ ready' = Append(ready, <<"enter", Head(preempted)>>)
    /\ UNCHANGED <<context, current, link, waitsFor, waits, aborted>>

ThreadNext ==
    /\ ~aborted
    /\ \/ ReadyTask \/ TryRunOneYieldedThread
       \/ \E t \in Fibers :
             \/ Async(t) \/ MakeThread(t)
             \/ Wait(t) \/ Yield(t) \/ FinalSwitchOut(t) \/ Fulfil(t) \/ Reschedule(t)
       \/ \E u, t \in Fibers : Join(u, t) \/ DestroyThread(u, t)

ThreadSpec == ThreadInit /\ [][ThreadNext]_threadVars

Is(t, at) == context[t].at = at

(* Nothing is under way, and every promise that the program holds is set *)
ThreadsDone == aborted \/ (current = Main /\ \A t \in Fibers : ~Is(t, "in") /\ ~Is(t, "out"))

-----------------------------------------------------------------------------
(* The contexts that were entered and not left are those on the way from   *)
(* the current one back to the reactor's own, each once.                   *)
ContextsNest ==
    LET entered == {t \in Fibers : Is(t, "in")}
        n == Cardinality(entered)
    IN  \E path \in [0 .. n -> entered \cup {Main}] :
           /\ path[0] = Main /\ path[n] = current
           /\ \A i \in 1 .. n : path[i] \in entered /\ link[path[i]] = path[i - 1]
           /\ \A i, j \in 0 .. n : path[i] = path[j] => i = j

(* What will enter t again *)
Wakers(t) ==
    ({<<"event">>} \cap {<<"event">> : x \in waitsFor \cap {t}})
    \cup {<<"preempted", i>> : i \in {j \in DOMAIN preempted : preempted[j] = t}}
    \cup {<<"task", i>> : i \in {j \in DOMAIN ready : ready[j][2] = t /\ ready[j][1] \in {"enter", "later"}}}
    \cup {<<"done", u>> : u \in {x \in Fibers : context[x] # NoFiber /\ ~Is(x, "over") /\ ~Is(x, "freed")
                                                 /\ context[x].joiner = t}}

(* Whatever the nesting of threads, the order of events, ends, timers and  *)
(* polls (future_all12.cc:3149-3310): control always goes back to the      *)
(* context that gave it; a thread that waits is entered again by exactly   *)
(* one of the ways there are, and no other is; its alarm is set while it   *)
(* is preempted and not after; its stack is freed when it is over.  The    *)
(* one assertion that fails is that of a second yield() of a thread whose  *)
(* group has no time left.                                                 *)
ThreadsExact ==
    /\ ~aborted => ContextsNest
    /\ \A t \in Fibers :
          /\ Cardinality(Wakers(t)) = (IF Is(t, "out") THEN 1 ELSE 0)
          /\ t \in alarms <=> \E i \in DOMAIN preempted : preempted[i] = t
    /\ aborted => current # Main /\ current \in Grouped /\ context[current].promise = "spent"
=============================================================================
