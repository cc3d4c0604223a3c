------------------------------ MODULE Pollers ------------------------------
(***************************************************************************)
(* Registration of pollers (reactor::poller).  A poller may be made, moved *)
(* and destroyed at any time, also by the poll function that runs, while   *)
(* the reactor goes through _pollers: it enters that list, and leaves it,  *)
(* in a task, and a dummy stands in for it in between.                     *)
(***************************************************************************)
EXTENDS Naturals, Sequences, FiniteSets

CONSTANTS
    Slots,      \* variables of type poller
    MaxFns      \* bound: poll functions made, dummies included

Nothing == [nothing |-> TRUE]
Empty == [fn |-> 0, task |-> 0]   \* moved from

VARIABLES
    slot,       \* a poller: its _pollfn, 0 when moved from, and its task
    pollers,    \* _pollers
    fns,        \* each poll function made: alive, dummy or gone
    jobs,       \* the tasks that register and deregister
    polling     \* the place poll_once() has got to; 0 when tasks run

pollerVars == <<slot, pollers, fns, jobs, polling>>

PollerInit ==
    /\ slot = [p \in Slots |-> Nothing]
    /\ pollers = <<>> /\ fns = <<>> /\ jobs = <<>> /\ polling = 0

(* The task of a poller is known by its poll function, and knows where the *)
(* poller is: a set of one, empty once it is cancelled.                    *)
Registration(f, of) == [do |-> "register", fn |-> f, of |-> of]
Deregistration(f) == [do |-> "deregister", fn |-> f, of |-> {}]

ChangeTask(f, of) ==
    [i \in DOMAIN jobs |->
        IF jobs[i].do = "register" /\ jobs[i].fn = f THEN Registration(f, of) ELSE jobs[i]]

(* The program makes, moves and destroys pollers in tasks and in the poll  *)
(* function at hand.  poller() and do_register() first.                    *)
MakePoller(p) ==
    /\ slot[p] = Nothing /\ Len(fns) < MaxFns
    /\ LET f == Len(fns) + 1
       IN  /\ fns' = Append(fns, "alive")
           /\ slot' = [slot EXCEPT ![p] = [fn |-> f, task |-> f]]
           /\ jobs' = Append(jobs, Registration(f, {p}))
    /\ UNCHANGED <<pollers, polling>>

MovePoller_mut(p, q) ==
    /\ slot[p] # Nothing /\ slot[q] = Nothing
    /\ slot' = [slot EXCEPT ![q] = slot[p], ![p] = Empty]
    /\ UNCHANGED <<pollers, fns, jobs, polling>>

(* poller(poller&&): the task is told where the poller is now *)
MovePoller(p, q) ==
    /\ slot[p] # Nothing /\ slot[q] = Nothing
    /\ slot' = [slot EXCEPT ![q] = slot[p], ![p].fn = 0]
    /\ jobs' = IF slot[p].fn # 0 /\ slot[p].task # 0 THEN ChangeTask(slot[p].fn, {q}) ELSE jobs
    /\ UNCHANGED <<pollers, fns, polling>>

(* ~poller(): cancels the registration, or puts a dummy in its place *)
DestroyPoller(p) ==
    /\ slot[p] # Nothing
    /\ LET f == slot[p].fn
           dummy == Len(fns) + 1
       IN  CASE f = 0 -> UNCHANGED <<pollers, fns, jobs>>
             [] f # 0 /\ slot[p].task # 0 ->
                   /\ jobs' = ChangeTask(f, {})
                   /\ fns' = [fns EXCEPT ![f] = "gone"]
                   /\ UNCHANGED pollers
             [] OTHER ->
                   /\ Len(fns) < MaxFns
                   /\ fns' = Append([fns EXCEPT ![f] = "gone"], "dummy")
                   /\ jobs' = Append(jobs, Deregistration(dummy))
                   /\ pollers' = [i \in DOMAIN pollers |->
                                     IF pollers[i] = f THEN dummy ELSE pollers[i]]
    /\ slot' = [slot EXCEPT ![p] = Nothing]
    /\ UNCHANGED polling

(* erase() of what std::find() finds *)
Place(f) == CHOOSE i \in DOMAIN pollers : pollers[i] = f /\ \A j \in 1 .. i - 1 : pollers[j] # f
Erase(i) == SubSeq(pollers, 1, i - 1) \o SubSeq(pollers, i + 1, Len(pollers))

(* registration_task and deregistration_task *)
PollerTask ==
    /\ polling = 0 /\ jobs # <<>>
    /\ LET job == Head(jobs)
       IN  \/ \E p \in job.of :
                 /\ pollers' = Append(pollers, slot[p].fn)
                 /\ slot' = [slot EXCEPT ![p].task = 0]
                 /\ UNCHANGED fns
           \/ /\ job.do = "register" /\ job.of = {}
              /\ UNCHANGED <<slot, pollers, fns>>
           \/ /\ job.do = "deregister"
              /\ pollers' = Erase(Place(job.fn))
              /\ fns' = [fns EXCEPT ![job.fn] = "gone"]
              /\ UNCHANGED slot
    /\ jobs' = Tail(jobs)
    /\ UNCHANGED polling

(* poll_once() goes through the list when all tasks are done, and whatever *)
(* the functions do, to its end.                                           *)
Poll ==
    /\ polling = 0 => jobs = <<>>
    /\ polling' = IF polling < Len(pollers) THEN polling + 1 ELSE 0
    /\ UNCHANGED <<slot, pollers, fns, jobs>>

PollerNext ==
    \/ PollerTask \/ Poll
    \/ \E p \in Slots : MakePoller(p) \/ DestroyPoller(p)
    \/ \E p, q \in Slots : MovePoller(p, q)

PollerSpec == PollerInit /\ [][PollerNext]_pollerVars

-----------------------------------------------------------------------------
Queued(do, f) == {i \in DOMAIN jobs : jobs[i].do = do /\ jobs[i].fn = f}
Owner(f) == {p \in Slots : slot[p] # Nothing /\ slot[p].fn = f}

(* Whatever a poll function does to pollers, its own included: poll_once() *)
(* never calls one that is gone; a poller is in the list, once, or has a   *)
(* task that will put it there and knows where the poller is; a dummy      *)
(* leaves the list again.                                                  *)
PollersExact ==
    /\ \A i, j \in DOMAIN pollers : pollers[i] = pollers[j] => i = j
    /\ polling <= Len(pollers)
    /\ \A f \in DOMAIN fns :
          LET listed == \E i \in DOMAIN pollers : pollers[i] = f
              coming == Queued("register", f)
              leaving == Queued("deregister", f)
          IN  CASE fns[f] = "alive" ->
                     /\ leaving = {}
                     /\ Cardinality(coming) = (IF listed THEN 0 ELSE 1)
                     /\ \E p \in Slots :
                           Owner(f) = {p} /\ \A i \in coming : jobs[i].of = {p}
                [] fns[f] = "dummy" -> listed /\ Cardinality(leaving) = 1
                [] OTHER -> ~listed /\ leaving = {} /\ \A i \in coming : jobs[i].of = {}
=============================================================================
