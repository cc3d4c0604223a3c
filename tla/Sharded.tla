------------------------------ MODULE Sharded ------------------------------
(***************************************************************************)
(* sharded<Service>: an instance of a service on each core, made by        *)
(* start(), called by fibers on any core, and ended by stop().  A fiber on *)
(* core 0 starts and stops; the rest of the cores find the instances       *)
(* through the vector _instances, which belongs to core 0.                 *)
(*                                                                         *)
(* Services come in three kinds.  A "tracked" one is an                    *)
(* async_sharded_service, whose methods hold a reference and whose         *)
(* deletion stop() waits for; the stop() of a "gated" one waits for the    *)
(* calls inside; that of a "bare" one does not.                            *)
(*                                                                         *)
(* A request to another core is a message, in order from each core to each *)
(* other; one to the own core runs at once.                                *)
(***************************************************************************)
EXTENDS Integers, Sequences, FiniteSets

CONSTANTS
    Cores,        \* 0 and the others
    Kinds,        \* of services
    Callers,      \* fibers that call the service
    MaxStarts     \* bound: start()s

ASSUME ShardedAssumption ==
    /\ IsFiniteSet(Cores) /\ 0 \in Cores /\ Cores = 0 .. Cardinality(Cores) - 1
    /\ Kinds \subseteq {"tracked", "gated", "bare"}
    /\ IsFiniteSet(Callers)

VARIABLES
    shared,    \* _instances
    service,   \* the instance on each core
    control,   \* the fiber that starts and stops
    call,      \* the fibers that call
    loan,      \* a pointer to an instance, in the hands of another core
    msg        \* requests and answers between cores

shardedVars == <<shared, service, control, call, loan, msg>>

Request(kind, arg) == [kind |-> kind, arg |-> arg]
NoInstance == [state |-> "none", stops |-> 0, refs |-> 0, calls |-> {}]
NoLoan == [state |-> "none", of |-> 0, at |-> 0, wrapped |-> FALSE]
NoCall == [state |-> "idle", from |-> 0, to |-> 0]

ShardedInit ==
    /\ \E kind \in Kinds :
          shared = [kind |-> kind, size |-> 0, slot |-> [c \in Cores |-> FALSE],
                    freed |-> [c \in Cores |-> FALSE], crashed |-> "no"]
    /\ service = [c \in Cores |-> NoInstance]
    /\ control = [op |-> "none", left |-> {}, failed |-> FALSE, starting |-> FALSE, starts |-> 0,
                  result |-> "none", stopFailed |-> FALSE]
    /\ call = [k \in Callers |-> NoCall]
    /\ loan = NoLoan
    /\ msg = [p \in Cores \X Cores |-> <<>>]

-----------------------------------------------------------------------------
(* What a request does on core c, w is a record of the six variables *)

Sent(w, from, to, r) == [w EXCEPT !.msg[<<from, to>>] = Append(@, r)]

Crash(w, why) == [w EXCEPT !.shared.crashed = why]

(* An answer to the fiber on core 0, that joins those of all cores *)
Joined(w, c, failed) ==
    [w EXCEPT !.control.left = @ \ {c}, !.control.failed = @ \/ failed]

Answered(w, c, failed) ==
    IF c = 0 THEN Joined(w, 0, failed)
    ELSE Sent(w, c, 0, Request("joined", IF failed THEN 1 ELSE 0))

(* service_deleted(): of the core that runs the destructor, at *)
ServiceDeleted(w, at) ==
    LET v == [w EXCEPT !.shared.freed[at] = TRUE]
    IN  CASE at >= w.shared.size -> Crash(w, "deleted late")
          [] at < w.shared.size /\ w.shared.freed[at] -> Crash(w, "freed twice")
          [] OTHER ->
                IF w.service[at].state = "freeing"
                THEN Answered([v EXCEPT !.service[at].state = IF w.service[at].refs = 0
                                                              THEN "dead" ELSE "stopped"], at, FALSE)
                ELSE v

(* A reference to the instance of core c goes, on core at *)
Release(w, c, at) ==
    LET last == w.service[c].refs = 1
        waited == w.service[c].state = "freeing"
        v == [w EXCEPT !.service[c].refs = @ - 1]
    IN  CASE ~last -> v
          [] last /\ w.shared.kind # "tracked" -> [v EXCEPT !.service[c].state = "dead"]
          [] OTHER ->
                ServiceDeleted([v EXCEPT !.service[c].state = CASE ~waited -> "dead"
                                                                [] waited /\ at # c -> "lost"
                                                                [] OTHER -> "freeing"], at)

(* create_local_service(): a service nobody tracks counts as deleted *)
Create(w, c) ==
    {Answered(w, c, TRUE),
     Answered([w EXCEPT !.service[c] = [NoInstance EXCEPT !.state = "alive", !.refs = 1],
                        !.shared.slot[c] = TRUE,
                        !.shared.freed[c] = (w.shared.kind # "tracked")], c, FALSE)}

(* stop() of sharded, on each core: the slot is empty from here on *)
Stop_mut(w, c) ==
    IF ~w.shared.slot[c] THEN {Answered(w, c, FALSE)}
    ELSE {[w EXCEPT !.service[c].state = "stopping", !.service[c].stops = @ + 1]}

Stop(w, c) ==
    IF ~w.shared.slot[c] THEN {Answered(w, c, FALSE)}
    ELSE {[w EXCEPT !.shared.slot[c] = FALSE,
                    !.service[c].state = "stopping", !.service[c].stops = @ + 1]}

(* get_local_service(), and a method that ends at once, or later *)
Returned(w, c, k) ==
    IF w.call[k].from = c THEN [w EXCEPT !.call[k] = NoCall]
    ELSE Sent([w EXCEPT !.call[k].state = "returning"], c, w.call[k].from, Request("returned", k))

Invoke(w, c, k) ==
    CASE c >= w.shared.size -> {Crash(w, "range")}
      [] c < w.shared.size /\ ~w.shared.slot[c] -> {Returned(w, c, k)}
      [] OTHER ->
            {Returned(w, c, k),
             [w EXCEPT !.call[k].state = "inside", !.service[c].calls = @ \union {k},
                       !.service[c].refs = IF w.shared.kind = "tracked" THEN @ + 1 ELSE @]}

Runs(w, c, r) ==
    CASE r.kind = "create" -> Create(w, c)
      [] r.kind = "stop" -> Stop(w, c)
      [] r.kind = "call" -> Invoke(w, c, r.arg)
      [] r.kind = "release" -> {Release(w, c, c)}

(* submit_to() *)
Submit(w, from, to, r) == IF from = to THEN Runs(w, to, r) ELSE {Sent(w, from, to, r)}

(* ... of the fiber on core 0, to cores 0 up to n - 1 *)
SubmitAll(w, n, kind) ==
    LET here == Runs([w EXCEPT !.control.left = 0 .. n - 1, !.control.failed = FALSE], 0, Request(kind, 0))
    IN  {[v EXCEPT !.msg = [p \in DOMAIN v.msg |->
                                IF p[1] = 0 /\ p[2] \in 1 .. n - 1 THEN Append(v.msg[p], Request(kind, 0))
                                ELSE v.msg[p]]] : v \in here}

-----------------------------------------------------------------------------
World == [shared |-> shared, service |-> service, control |-> control, call |-> call,
          loan |-> loan, msg |-> msg]

Becomes(w) ==
    /\ shared' = w.shared /\ service' = w.service /\ control' = w.control
    /\ call' = w.call /\ loan' = w.loan /\ msg' = w.msg

Running == shared.crashed = "no"

(* Bound: a second start() comes when the instances of the first are gone  *)
Gone == \A c \in Cores : service[c].state \in {"none", "dead"} /\ service[c].calls = {}

(* start() and start_single() *)
Start(n) ==
    /\ Running /\ control.op = "none" /\ shared.size = 0 /\ control.starts < MaxStarts /\ Gone
    /\ \E w \in SubmitAll([World EXCEPT !.shared.size = n,
                                        !.service = [c \in Cores |-> NoInstance],
                                        !.control.op = "start", !.control.starts = @ + 1,
                                        !.control.result = "none"], n, "create") :
          Becomes(w)

StopAll(w) == SubmitAll([w EXCEPT !.control.op = "stop"], w.shared.size, "stop")

StopSharded ==
    /\ Running /\ control.op = "none" /\ shared.size > 0 /\ control.result = "started"
    /\ \E w \in StopAll([World EXCEPT !.control.starting = FALSE]) : Becomes(w)

(* All cores have answered.  A start() that failed stops what there is;    *)
(* a stop() that failed does not clear _instances.                         *)
Cleared(w) ==
    [w EXCEPT !.shared.size = 0, !.shared.freed = [c \in Cores |-> FALSE], !.control.op = "none",
              !.control.result = IF w.control.starting THEN "not started" ELSE "stopped",
              !.control.starting = FALSE]

ControlGoesOn ==
    /\ Running /\ control.op # "none" /\ control.left = {}
    /\ CASE control.op = "start" /\ ~control.failed ->
              Becomes([World EXCEPT !.control.op = "none", !.control.result = "started"])
         [] control.op = "start" /\ control.failed ->
              \E w \in StopAll([World EXCEPT !.control.starting = TRUE]) : Becomes(w)
         [] control.op = "stop" /\ ~control.failed -> Becomes(Cleared(World))
         [] OTHER -> Becomes([World EXCEPT !.control.op = "none", !.control.result = "failed",
                                           !.control.stopFailed = TRUE])

(* stop() of the service resolves; then stop() waits for the deletion of   *)
(* the instance, if it is tracked, and lets go of it.                      *)
ServiceStops(c, fails) ==
    /\ Running /\ service[c].state = "stopping"
    /\ shared.kind = "gated" => service[c].calls = {}
    /\ Becomes(IF fails
               THEN Answered(Release([World EXCEPT !.service[c].state = "failed"], c, c), c, TRUE)
               ELSE IF shared.freed[c]
                    THEN Answered(Release([World EXCEPT !.service[c].state = "stopped"], c, c), c, FALSE)
                    ELSE Release([World EXCEPT !.service[c].state = "freeing"], c, c))

(* invoke_on(), and one core's part of invoke_on_all() and map() *)
Call(k, from, to) ==
    /\ Running /\ call[k] = NoCall /\ to < shared.size
    /\ control.op = "start" => control.left # Cores
    /\ \E w \in Submit([World EXCEPT !.call[k] = [state |-> "sent", from |-> from, to |-> to]],
                       from, to, Request("call", k)) : Becomes(w)

CallEnds(k) ==
    LET c == call[k].to
        v == [World EXCEPT !.service[c].calls = @ \ {k}]
    IN  /\ Running /\ call[k].state = "inside"
        /\ CASE service[c].state = "dead" -> Becomes(Crash(World, "dangling"))
             [] service[c].state # "dead" /\ shared.kind = "tracked" -> Becomes(Returned(Release(v, c, c), c, k))
             [] OTHER -> Becomes(Returned(v, c, k))

(* A pointer to the instance, from local_shared(), goes to another core, in *)
(* a foreign_ptr or not; it is destroyed there, or sent home for that.      *)
Lend(c, at, wrapped) ==
    /\ Running /\ loan.state = "none" /\ c < shared.size /\ shared.slot[c]
    /\ loan' = [state |-> "lent", of |-> c, at |-> at, wrapped |-> wrapped]
    /\ service' = [service EXCEPT ![c].refs = @ + 1]
    /\ UNCHANGED <<shared, control, call, msg>>

DropLoan ==
    LET v == [World EXCEPT !.loan.state = "dropped"]
    IN  /\ Running /\ loan.state = "lent"
        /\ IF loan.wrapped /\ loan.at # loan.of
           THEN Becomes(Sent(v, loan.at, loan.of, Request("release", 0)))
           ELSE Becomes(Release(v, loan.of, loan.at))

(* The next message from one core arrives at another *)
Arrives(from, to) ==
    /\ Running /\ msg[<<from, to>>] # <<>>
    /\ LET r == Head(msg[<<from, to>>])
           v == [World EXCEPT !.msg[<<from, to>>] = Tail(@)]
       IN  CASE r.kind = "joined" -> Becomes(Joined(v, from, r.arg = 1))
             [] r.kind = "returned" -> Becomes([v EXCEPT !.call[r.arg] = NoCall])
             [] OTHER -> \E w \in Runs(v, to, r) : Becomes(w)

ShardedNext ==
    \/ \E n \in {1, Cardinality(Cores)} : Start(n)
    \/ StopSharded
    \/ ControlGoesOn
    \/ \E c \in Cores, fails \in BOOLEAN : ServiceStops(c, fails)
    \/ \E k \in Callers, from, to \in Cores : Call(k, from, to)
    \/ \E k \in Callers : CallEnds(k)
    \/ \E c, at \in Cores, wrapped \in BOOLEAN : Lend(c, at, wrapped)
    \/ DropLoan
    \/ \E from, to \in Cores : Arrives(from, to)

ShardedSpec == ShardedInit /\ [][ShardedNext]_shardedVars

-----------------------------------------------------------------------------
(* Properties *)

(* A pointer without foreign_ptr went to another core.                     *)
Naked == loan.state # "none" /\ ~loan.wrapped /\ loan.at # loan.of

Made == {c \in Cores : service[c].state # "none"}

(* An instance is stopped once before it is deleted; after stop(), or a    *)
(* start() that failed, there is no slot with one, and none that is not    *)
(* deleted, unless it is lent and not tracked.                             *)
StoppedOnce ==
    \A c \in Cores :
        /\ service[c].stops <= 1
        /\ service[c].state \in {"dead", "lost"} => service[c].stops = 1 /\ service[c].refs = 0
        /\ shared.slot[c] => service[c].state = "alive"

StopIsComplete ==
    control.result \in {"stopped", "not started"} /\ control.op = "none" =>
        /\ shared.size = 0
        /\ \A c \in Made : ~shared.slot[c]
        /\ ~Naked => \A c \in Made : service[c].state = "dead" \/ (loan.state # "none" /\ loan.of = c)
        /\ shared.kind = "tracked" /\ ~Naked => \A c \in Made : service[c].state = "dead"

(* Who waits for all cores waits for something.                            *)
StopDoesNotHang ==
    Running /\ control.left # {} /\ ~Naked =>
        \/ \E p \in DOMAIN msg : msg[p] # <<>>
        \/ \E c \in Cores : service[c].state = "stopping" \/ service[c].calls # {}
        \/ loan.state = "lent"

(* A method runs on a deleted instance only if stop() of the service does  *)
(* not wait for it; a deletion is reported on the wrong core only if the   *)
(* pointer was destroyed there.                                            *)
CrashesWhereStated ==
    /\ shared.crashed = "dangling" => shared.kind = "bare"
    /\ shared.crashed \in {"freed twice", "deleted late"} => Naked

(* A sharded service starts on all cores or on none, is stopped once on    *)
(* each, and its stop() outlives the instances, whoever calls meanwhile.   *)
ShardedExact == StoppedOnce /\ StopIsComplete /\ StopDoesNotHang /\ CrashesWhereStated

=============================================================================
