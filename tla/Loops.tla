------------------------------- MODULE Loops -------------------------------
(***************************************************************************)
(* What programs build from futures: loops (repeat(), do_until(),          *)
(* do_for_each() and their kin), joins (parallel_for_each(), when_all()),  *)
(* finally(), gates and shared futures.  Each calls functions of the       *)
(* program, which return futures or throw, and goes on in tasks when those *)
(* resolve, in any order.                                                  *)
(*                                                                         *)
(* A future is what Futures shows it to be: it gets the outcome of its     *)
(* promise, once.  need_preempt() is always true, so that a continuation   *)
(* is a task even if its future is available already.  The program makes   *)
(* one use of one of these forms; it may give up a promise that it owes,   *)
(* in which case the continuation is destroyed and never runs.             *)
(***************************************************************************)
EXTENDS Naturals, Sequences, FiniteSets

CONSTANTS
    MaxCalls,    \* bound: calls of the functions of the program
    MaxTakers    \* bound: futures taken from a shared one

VARIABLES
    loop,   \* the form in use
    tasks   \* the task list: <<"cont", i>> of call i, and loop tasks

loopVars == <<loop, tasks>>

Pending == <<"pending">>
Value == <<"value">>
Error(i) == <<"error", i>>      \* the exception of call i
Nested(i, j) == <<"error", i, j>>
Thrown(i) == <<"thrown", i>>    \* thrown to the caller, who gets no future

Sequential == {"repeat", "repeat_until_value", "keep_doing", "do_until", "do_for_each"}
Kinds == Sequential \cup {"parallel_for_each", "when_all", "finally", "gate", "shared"}

Fresh(kind, n) ==
    [kind |-> kind,
     todo |-> n,            \* elements of a range, where there is one
     calls |-> <<>>,        \* what became of each call so far
     result |-> Pending,    \* what the future of the form holds
     waiting |-> 0,         \* waiting of a join, _count of a gate
     ex |-> 0,              \* the call whose exception a join keeps
     live |-> TRUE,         \* its state, which it shares with continuations
     closed |-> FALSE,      \* close() of a gate
     torn |-> FALSE,        \* a stop condition threw in a continuation
     takers |-> <<>>]       \* futures taken from a shared one

LoopInit == loop = [kind |-> "none"] /\ tasks = <<>>

Becomes(l, t) == loop' = l /\ tasks' = t
Ends(l, r) == Becomes([l EXCEPT !.result = r], tasks)

-----------------------------------------------------------------------------
(* Calls of the program's functions *)

Running(l) == {i \in DOMAIN l.calls : l.calls[i] = "running"}
Broken(l) == {i \in DOMAIN l.calls : l.calls[i] = "abandoned"}
Failures(l) == {i \in DOMAIN l.calls : l.calls[i] \in {"failed", "threw"}}

(* What the future of call i may hold: stop_iteration::yes or no, or an    *)
(* optional with a value or without.  The last call allowed ends a loop.   *)
Values(kind, i) ==
    CASE kind \in {"repeat", "repeat_until_value"} ->
            IF i < MaxCalls THEN {"go", "stop"} ELSE {"stop"}
      [] kind = "keep_doing" -> IF i < MaxCalls THEN {"go"} ELSE {}
      [] OTHER -> {"go"}

Returns(kind, i) == Values(kind, i) \cup {"failed", "running"}

(* A call that returns or throws *)
Called(l, out) == [l EXCEPT !.calls = Append(@, out)]
NextCall(l) == Len(l.calls) + 1
Outs(l) == Returns(l.kind, NextCall(l)) \cup {"threw"}

(* futurize::apply(): what is thrown becomes a failed future *)
Apply(out) == IF out = "threw" THEN "failed" ELSE out

(* then() or then_wrapped() on the future of call i *)
Watch(t, i, out) == IF out = "running" THEN t ELSE Append(t, <<"cont", i>>)

-----------------------------------------------------------------------------
(* One round of a loop; sync: the caller of the loop is still there *)

Repeat(l, t) ==
    \E out \in Outs(l) :
       LET m == Called(l, Apply(out))
           i == NextCall(l)
       IN  \/ out = "running" /\ Becomes(m, t)
           \/ out = "stop" /\ Becomes([m EXCEPT !.result = Value], t)
           \/ out = "go" /\ Becomes(m, Append(t, <<"again", i>>))
           \/ out \in {"failed", "threw"} /\ Becomes([m EXCEPT !.result = Error(i)], t)

(* The action's then() makes a future that repeat() waits for *)
KeepDoing(l, t) ==
    \E out \in Outs(l) :
       LET m == Called(l, Apply(out))
           i == NextCall(l)
       IN  IF out = "threw" THEN Becomes([m EXCEPT !.result = Error(i)], t)
           ELSE Becomes(m, Watch(t, i, out))

(* do_until_continued(): stop_cond() is outside the try block.  Thrown in  *)
(* a continuation, its exception ends in a future that nobody has, and the *)
(* promise dies unset.                                                     *)
DoUntilContinued(l, t, sync) ==
    \/ Becomes([l EXCEPT !.result = Value], t)
    \/ IF sync THEN Becomes([l EXCEPT !.result = Thrown(0)], t)
       ELSE Becomes([l EXCEPT !.torn = TRUE], t)
    \/ /\ NextCall(l) <= MaxCalls
       /\ \E out \in Outs(l) :
             LET m == Called(l, Apply(out))
                 i == NextCall(l)
             IN  IF out = "threw" THEN Becomes([m EXCEPT !.result = Error(i)], t)
                 ELSE Becomes(m, Watch(t, i, out))

(* The future of the last call is that of the loop *)
DoForEach(l, t, sync) ==
    \E out \in Outs(l) :
       LET m == Called(l, Apply(out))
           i == NextCall(l)
       IN  CASE out = "threw" ->
                   Becomes([m EXCEPT !.result = IF sync THEN Thrown(i) ELSE Error(i)], t)
             [] out # "threw" /\ i < l.todo -> Becomes(m, Watch(t, i, out))
             [] OTHER -> Becomes([m EXCEPT !.result = CASE out = "running" -> Pending
                                                        [] out = "failed" -> Error(i)
                                                        [] OTHER -> Value], t)

Round(l, t, sync) ==
    CASE l.kind \in {"repeat", "repeat_until_value"} -> Repeat(l, t)
      [] l.kind = "keep_doing" -> KeepDoing(l, t)
      [] l.kind = "do_until" -> DoUntilContinued(l, t, sync)
      [] l.kind = "do_for_each" -> DoForEach(l, t, sync)

(* The continuation of call i in a loop: error, value or the next round *)
LoopGoesOn(i, t) ==
    LET out == loop.calls[i]
    IN  CASE loop.kind = "keep_doing" -> Becomes(loop, Append(t, <<"again", i>>))
          [] loop.kind # "keep_doing" /\ out = "failed" ->
                Becomes([loop EXCEPT !.result = Error(i)], t)
          [] out = "stop" -> Becomes([loop EXCEPT !.result = Value], t)
          [] OTHER -> Round(loop, t, FALSE)

(* The task between two rounds of repeat(), and its continuation on the    *)
(* future that keep_doing() gives it                                       *)
LoopAgain(i, t) ==
    IF loop.calls[i] = "failed" THEN Becomes([loop EXCEPT !.result = Error(i)], t)
    ELSE Round(loop, t, FALSE)

-----------------------------------------------------------------------------
(* Joins *)

(* parallel_for_each_state::complete(): the last one resolves the promise, *)
(* and do_with() frees the state in the task that follows.                 *)
Complete(l, t) ==
    IF l.waiting = 1 THEN [l |-> [l EXCEPT !.waiting = 0], t |-> Append(t, <<"free", 0>>)]
    ELSE [l |-> [l EXCEPT !.waiting = @ - 1], t |-> t]

Keeps(l, i) == [l EXCEPT !.ex = IF @ = 0 THEN i ELSE @]

OneStarted(r, i, out) ==
    LET l == [Called(r.l, Apply(out)) EXCEPT !.waiting = @ + 1]
    IN  IF out = "threw" THEN Complete(Keeps(l, i), r.t)
        ELSE [l |-> l, t |-> Watch(r.t, i, out)]

(* The name of an operator that is wrong on purpose ends in _mut: a         *)
(* plausible mistake in the definition after it.                           *)
StartAll_mut(l, t, outs) ==
    LET r[n \in 0..Len(outs)] ==
            IF n = 0 THEN [l |-> l, t |-> t] ELSE OneStarted(r[n - 1], n, outs[n])
        all == r[Len(outs)]
    IN  Becomes(all.l, all.t)

(* All are called in a row; the count is one up meanwhile *)
StartAll(l, t, outs) ==
    LET r[n \in 0..Len(outs)] ==
            IF n = 0 THEN [l |-> [l EXCEPT !.waiting = 1], t |-> t]
            ELSE OneStarted(r[n - 1], n, outs[n])
        all == r[Len(outs)]
        done == Complete(all.l, all.t)
    IN  Becomes(done.l, done.t)

(* when_all_state is shared by when_all() itself and by the continuation   *)
(* of each future that is not available; the last one to let go resolves   *)
(* the promise, with whatever the futures hold then.                       *)
LetGo(l) == IF l.waiting = 1 THEN [l EXCEPT !.waiting = 0, !.live = FALSE, !.result = Value]
            ELSE [l EXCEPT !.waiting = @ - 1]

WhenAll(l, outs) ==
    LET m == [l EXCEPT !.calls = outs]
    IN  Becomes(LetGo([m EXCEPT !.waiting = Cardinality(Running(m)) + 1]), tasks)

-----------------------------------------------------------------------------
(* finally(): the function is called whatever call 1 came to; a failure of *)
(* its own takes the place of a value, or is nested with the first one.    *)
After(l) ==
    CASE l.calls[2] = "go" -> IF l.calls[1] = "failed" THEN Error(1) ELSE Value
      [] OTHER -> IF l.calls[1] = "failed" THEN Nested(1, 2) ELSE Error(2)

(* The function returns a future or, in the other body, nothing *)
Finally(l, t) ==
    \/ \E out \in {"go", "failed"} :
          LET m == Called(l, out) IN Becomes([m EXCEPT !.result = After(m)], t)
    \/ \E out \in Outs(l) :
          Becomes(Called(l, Apply(out)), Watch(t, 2, Apply(out)))

-----------------------------------------------------------------------------
(* gate and with_gate() *)

(* leave(), in the finally() of with_gate(): the last one out answers close() *)
Leave(l) ==
    [l EXCEPT !.waiting = @ - 1,
              !.result = IF l.waiting = 1 /\ l.closed THEN Value ELSE @]

(* enter() throws once the gate is closed.  What func() throws passes by   *)
(* the finally(), and the count stays up.                                  *)
WithGate ==
    /\ loop.kind = "gate" /\ NextCall(loop) <= MaxCalls
    /\ IF loop.closed
       THEN Becomes(Called(loop, "refused"), tasks)
       ELSE \E out \in Outs(loop) :
               Becomes([Called(loop, out) EXCEPT !.waiting = @ + 1],
                       IF out = "threw" THEN tasks ELSE Watch(tasks, NextCall(loop), out))

(* close(), once *)
CloseGate ==
    /\ loop.kind = "gate" /\ ~loop.closed
    /\ Becomes([loop EXCEPT !.closed = TRUE,
                            !.result = IF loop.waiting = 0 THEN Value ELSE @], tasks)

-----------------------------------------------------------------------------
(* shared_future *)

Told(l) == IF l.calls[1] = "failed" THEN "failed" ELSE "value"

(* get_future(), with or without a timeout: a promise of its own in _peers, *)
(* or a copy of the outcome.                                               *)
TakeShared ==
    /\ loop.kind = "shared" /\ Len(loop.takers) < MaxTakers
    /\ \E until \in {"timeout", "never"} :
          Becomes([loop EXCEPT !.takers = Append(@,
              [until |-> until, has |-> IF loop.result = Pending THEN "nothing" ELSE Told(loop)])],
              tasks)

(* A peer's timer answers it and empties its entry *)
TakerTimesOut(i) ==
    /\ loop.kind = "shared" /\ i \in DOMAIN loop.takers
    /\ loop.takers[i] = [until |-> "timeout", has |-> "nothing"]
    /\ Becomes([loop EXCEPT !.takers[i].has = "timed_out"], tasks)

(* resolve(): every peer still in the list *)
ResolvePeers(l) ==
    [l EXCEPT !.takers = [i \in DOMAIN @ |->
        IF @[i].has = "nothing" THEN [@[i] EXCEPT !.has = Told(l)] ELSE @[i]]]

-----------------------------------------------------------------------------
Start(kind) ==
    /\ loop.kind = "none"
    /\ kind \notin {"do_for_each", "parallel_for_each", "when_all"}
    /\ LET l == Fresh(kind, 0)
       IN  CASE kind \in Sequential -> Round(l, tasks, TRUE)
             [] kind = "gate" -> Becomes(l, tasks)
             [] OTHER -> \E out \in Returns(kind, 1) :
                            Becomes(Called(l, out), Watch(tasks, 1, out))

StartOver(kind, n) ==
    /\ loop.kind = "none"
    /\ LET l == Fresh(kind, n)
           outs == [1..n -> {"go", "failed", "running"}]
           throwing == [1..n -> {"go", "failed", "running", "threw"}]
       IN  CASE kind = "when_all" -> \E o \in outs : WhenAll(l, o)
             [] kind # "when_all" /\ n = 0 -> Ends(l, Value)
             [] kind = "do_for_each" /\ n > 0 -> DoForEach(l, tasks, TRUE)
             [] kind = "parallel_for_each" /\ n > 0 -> \E o \in throwing : StartAll(l, tasks, o)

(* The last future of do_for_each() is handed to the caller; the others    *)
(* have a continuation.                                                    *)
HandedOn(i) == loop.kind = "do_for_each" /\ i = loop.todo

(* Somebody resolves the promise of a call *)
CallEnds(i) ==
    /\ loop.kind # "none" /\ i \in Running(loop)
    /\ \E out \in Returns(loop.kind, i) \ {"running"} :
          Becomes([loop EXCEPT !.calls[i] = out,
                      !.result = IF ~HandedOn(i) THEN @
                                 ELSE IF out = "failed" THEN Error(i) ELSE Value],
                  IF HandedOn(i) THEN tasks ELSE Watch(tasks, i, out))

(* ... or destroys it unset, and the continuation with it *)
CallAbandoned(i) ==
    /\ loop.kind # "none" /\ i \in Running(loop)
    /\ LET m == [loop EXCEPT !.calls[i] = "abandoned"]
       IN  Becomes(IF loop.kind = "when_all" THEN LetGo(m) ELSE m, tasks)

ContinuationRuns(i, t) ==
    CASE loop.kind \in Sequential -> LoopGoesOn(i, t)
      [] loop.kind = "parallel_for_each" ->
            LET l == IF loop.calls[i] = "failed" THEN Keeps(loop, i) ELSE loop
                done == Complete(l, t)
            IN  Becomes(done.l, done.t)
      [] loop.kind = "when_all" -> Becomes(LetGo(loop), t)
      [] loop.kind = "finally" /\ i = 1 -> Finally(loop, t)
      [] loop.kind = "finally" /\ i = 2 -> Becomes([loop EXCEPT !.result = After(loop)], t)
      [] loop.kind = "gate" -> Becomes(Leave(loop), t)
      [] loop.kind = "shared" ->
            Becomes(ResolvePeers([loop EXCEPT !.result = IF Told(loop) = "failed" THEN Error(1) ELSE Value]), t)

LoopTask ==
    /\ tasks # <<>>
    /\ LET task == Head(tasks)
           rest == Tail(tasks)
       IN  CASE task[1] = "cont" -> ContinuationRuns(task[2], rest)
             [] task[1] = "again" -> LoopAgain(task[2], rest)
             [] task[1] = "free" ->
                   Becomes([loop EXCEPT !.live = FALSE,
                                !.result = IF loop.ex = 0 THEN Value ELSE Error(loop.ex)], rest)

LoopNext ==
    \/ \E kind \in Kinds : Start(kind)
    \/ \E kind \in {"do_for_each", "parallel_for_each", "when_all"}, n \in 0..MaxCalls :
          StartOver(kind, n)
    \/ \E i \in 1..MaxCalls : CallEnds(i) \/ CallAbandoned(i)
    \/ WithGate \/ CloseGate \/ TakeShared
    \/ \E i \in 1..MaxTakers : TakerTimesOut(i)
    \/ LoopTask

LoopDone == loop.kind # "none" /\ tasks = <<>> /\ Running(loop) = {}

-----------------------------------------------------------------------------
(* A future of a form is resolved when its calls are over: none is running *)
(* (when_all() tells nothing of the futures whose promise died), no        *)
(* continuation that would use its state is left, and that is freed.  A    *)
(* loop calls nothing while a call runs or after one failed.               *)
JoinsItsCalls ==
    /\ loop.result # Pending =>
          /\ Running(loop) = {} /\ loop.waiting = 0
          /\ \A n \in DOMAIN tasks : loop.kind = "shared"
          /\ loop.kind \in {"parallel_for_each", "when_all"} => (loop.todo = 0 \/ ~loop.live)
    /\ loop.kind \in Sequential \cup {"finally"} =>
          \A i \in DOMAIN loop.calls, j \in DOMAIN loop.calls : i < j =>
             /\ i \notin Running(loop) \cup Broken(loop)
             /\ loop.kind # "finally" => i \notin Failures(loop)

(* It holds a value if all calls succeeded, and the exception of one that  *)
(* did not otherwise; so do the futures taken from a shared one, unless    *)
(* they timed out before.                                                  *)
TellsTheOutcome ==
    /\ loop.kind \in Kinds \ {"gate", "when_all"} =>
          /\ loop.result = Value => Failures(loop) = {}
          /\ \A i \in 1..MaxCalls : loop.result = Error(i) => i \in Failures(loop)
    /\ loop.kind = "shared" => \A n \in DOMAIN loop.takers :
          loop.takers[n].has \in {"nothing", "timed_out"} \/ loop.takers[n].has = Told(loop)

(* When nothing runs any more everybody has an answer, except for three    *)
(* ways to wait for ever: a promise that died unset, a stop condition of   *)
(* do_until() that threw after the first round (distributed.hh:75), and a  *)
(* function that threw inside with_gate(), which keeps the gate from       *)
(* closing (future_all12.cc:2355).                                         *)
NobodyHangs ==
    LoopDone =>
       /\ loop.result = Pending <=>
             CASE loop.kind = "gate" -> ~loop.closed \/ loop.waiting > 0
               [] loop.kind = "when_all" -> FALSE
               [] OTHER -> Broken(loop) # {} \/ loop.torn
       /\ loop.kind = "gate" =>
             loop.waiting = Cardinality({i \in DOMAIN loop.calls :
                                            loop.calls[i] \in {"threw", "abandoned"}})
       /\ loop.kind = "shared" /\ Broken(loop) = {} =>
             \A n \in DOMAIN loop.takers : loop.takers[n].has # "nothing"

(* Whatever the calls of the program come to, and in whichever order: a    *)
(* form ends when they have, with their outcome, and hangs only as said    *)
(* (distributed.hh:14-346, future_all12.cc:1798-2358).                     *)
LoopsExact == loop.kind # "none" => JoinsItsCalls /\ TellsTheOutcome /\ NobodyHangs
=============================================================================
