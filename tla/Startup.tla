------------------------------ MODULE Startup ------------------------------
(***************************************************************************)
(* How the program starts: smp::configure() shares cpus, memory and I/O    *)
(* queues out, and makes a thread for each further reactor; barriers keep  *)
(* the threads together while reactors, message queues and I/O queues are  *)
(* made; then each reactor runs, tells all others that its network stack   *)
(* is there, and the one on shard 0 calls the program's function when it   *)
(* has heard from all.                                                     *)
(*                                                                         *)
(* An option of the command line is a set: of its value, or empty.         *)
(***************************************************************************)
EXTENDS Integers, FiniteSets

CONSTANTS
    Cpus,             \* the machine's cpus are 0 .. Cpus - 1
    MachineMemory, DefaultReserve, MinMemory, Alignment,
    DefaultRequests,  \* for each I/O queue
    Options           \* the command lines

VARIABLES
    config,    \* the options given
    plan,      \* what resource::allocate() answered
    at,        \* where each thread is
    arrived,   \* the shards that came to each barrier
    made,      \* reactors, queues and I/O queues that are there
    stack,     \* the network stack of each reactor
    heard,     \* for each reactor, those whose signal of _cpu_started it ran
    flying,    \* signals on their way, <<from, to>>
    app        \* the program's function, and what went wrong

startupVars == <<config, plan, at, arrived, made, stack, heard, flying, app>>

ValueOr(option, default) == IF option = {} THEN default ELSE CHOOSE v \in option : TRUE

-----------------------------------------------------------------------------
(* resource::allocate() *)

Cpuset(c) == ValueOr(c.cpuset, 0 .. Cpus - 1)
Procs(c) == ValueOr(c.smp, Cardinality(Cpuset(c)))

(* calculate_memory(): a machine with little memory is taken to have       *)
(* MinMemory.                                                              *)
Usable == IF MachineMemory >= DefaultReserve + MinMemory THEN MachineMemory - DefaultReserve
          ELSE MinMemory
TooMuch(c) == ValueOr(c.memory, Usable) > Usable
MemoryPerProc(c) == ((ValueOr(c.memory, Usable) \div Procs(c)) \div Alignment) * Alignment

(* The cpus of the shards: all of the set, however many shards there are   *)
Chosen(c) ==
    LET valid == Cpuset(c) \cap (0 .. Cpus - 1)
    IN  IF valid # {} THEN valid ELSE 0 .. Procs(c) - 1

Rank(x, set) == Cardinality({y \in set : y < x})
CpuOf(c) == [i \in 0 .. Cardinality(Chosen(c)) - 1 |-> CHOOSE x \in Chosen(c) : Rank(x, Chosen(c)) = i]

(* allocate_io_queues(): the coordinators are to run on the first cpus of  *)
(* the machine; the rest of the shards go round them.                      *)
Shards(c) == DOMAIN CpuOf(c)
AskedQueues(c) == ValueOr(c.queues, Cardinality(Shards(c)))
Queues(c) == IF AskedQueues(c) > Cardinality(Shards(c)) THEN Cardinality(Shards(c)) ELSE AskedQueues(c)
Capacity(c) ==
    LET share == ValueOr(c.requests, DefaultRequests * AskedQueues(c)) \div Queues(c)
    IN  IF share > 1 THEN share ELSE 1

FindShard(c, cpu) == {i \in Shards(c) : CpuOf(c)[i] = cpu}
Coordinators(c) == UNION {FindShard(c, q) : q \in 0 .. Queues(c) - 1}

CoordinatorOf(c, i) ==
    IF i \in Coordinators(c) THEN i
    ELSE CHOOSE k \in Coordinators(c) :
            Rank(k, Coordinators(c)) = Rank(i, Shards(c) \ Coordinators(c)) % Queues(c)

Topology(c) ==
    [result |-> "ok", procs |-> Procs(c), memory |-> MemoryPerProc(c), capacity |-> Capacity(c),
     coordinator |-> [i \in Shards(c) |-> CoordinatorOf(c, i)]]

Nothing(result) == [result |-> result, procs |-> 0]

Allocate(c) ==
    CASE TooMuch(c) \/ Procs(c) > Cpus -> Nothing("refused")
      [] ~TooMuch(c) /\ Procs(c) = 0 -> Nothing("divided by zero")
      [] ~TooMuch(c) /\ Procs(c) \in 1 .. Cpus /\ Queues(c) = 0 -> Nothing("refused")
      [] OTHER -> IF \E q \in 0 .. Queues(c) - 1 : FindShard(c, q) = {} THEN Nothing("assert")
                  ELSE Topology(c)

-----------------------------------------------------------------------------
(* smp::configure() on the main thread, shard 0, and the other threads *)

AllShards == 0 .. Cpus - 1
Mine == 0 .. plan.procs - 1
Barriers == {"registered", "constructed", "inited"}

StartupInit ==
    /\ config \in Options
    /\ plan = Nothing("none")
    /\ at = [i \in AllShards |-> IF i = 0 THEN "options" ELSE "none"]
    /\ arrived = [b \in Barriers |-> {}]
    /\ made = [reactor |-> {}, queue |-> {}, tx |-> {}, ioQueue |-> {}, owns |-> {}, uses |-> {},
               early |-> FALSE]
    /\ stack = [i \in AllShards |-> "none"]
    /\ heard = [i \in AllShards |-> {}]
    /\ flying = {}
    /\ app = [state |-> "none", crashed |-> "no"]

Running == app.crashed = "no" /\ plan.result \in {"none", "ok"}

Crash(why) == app' = [app EXCEPT !.crashed = why]

ConfigureSmp ==
    /\ Running /\ at[0] = "options"
    /\ plan' = Allocate(config)
    /\ at' = [at EXCEPT ![0] = "threads"]
    /\ UNCHANGED <<config, arrived, made, stack, heard, flying, app>>

(* create_thread(): the next of them; then shard 0 goes on as they do.     *)
(* Each reads its part of the plan.                                        *)
Threads(i) == {j \in 1 .. i - 1 : at[j] = "none"}

CreateThread(i) ==
    /\ Running /\ at[0] = "threads" /\ i \in Mine \ {0} /\ at[i] = "none" /\ Threads(i) = {}
    /\ IF i \notin DOMAIN plan.coordinator THEN Crash("range") /\ UNCHANGED at
       ELSE at' = [at EXCEPT ![i] = "reactor"] /\ UNCHANGED app
    /\ UNCHANGED <<config, plan, arrived, made, stack, heard, flying>>

ThreadsCreated ==
    /\ Running /\ at[0] = "threads" /\ plan.result = "ok"
    /\ \A i \in Mine \ {0} : at[i] # "none"
    /\ at' = [at EXCEPT ![0] = "reactor"]
    /\ UNCHANGED <<config, plan, arrived, made, stack, heard, flying, app>>

(* memory::configure(), allocate_reactor(), _reactors[i] *)
AllocateReactor(i) ==
    /\ Running /\ at[i] = "reactor"
    /\ made' = [made EXCEPT !.reactor = @ \union {i}]
    /\ at' = [at EXCEPT ![i] = "io"]
    /\ UNCHANGED <<config, plan, arrived, stack, heard, flying, app>>

AllocIoQueue(i) ==
    /\ Running /\ at[i] = "io"
    /\ made' = [made EXCEPT !.ioQueue = IF plan.coordinator[i] = i THEN @ \union {i} ELSE @]
    /\ at' = [at EXCEPT ![i] = "arrives"]
    /\ UNCHANGED <<config, plan, arrived, stack, heard, flying, app>>

(* A barrier lets all go when the last has come *)
After(i, b) ==
    CASE b = "registered" -> IF i = 0 THEN "queues" ELSE "queues are there"
      [] b = "constructed" -> "start"
      [] b = "inited" -> "configure"

Before(i, b) ==
    CASE b = "registered" -> "arrives"
      [] b = "constructed" -> IF i = 0 THEN "queues are made" ELSE "queues are there"
      [] b = "inited" -> "assigned"

Arrive(i, b) ==
    /\ Running /\ at[i] = Before(i, b) /\ i \notin arrived[b]
    /\ arrived' = [arrived EXCEPT ![b] = @ \union {i}]
    /\ UNCHANGED <<config, plan, at, made, stack, heard, flying, app>>

Passed_mut(i, b) == i \in arrived[b]

Passed(i, b) == arrived[b] = Mine

Pass(i, b) ==
    /\ Running /\ at[i] = Before(i, b) /\ i \in arrived[b] /\ Passed(i, b)
    /\ at' = [at EXCEPT ![i] = After(i, b)]
    /\ UNCHANGED <<config, plan, arrived, made, stack, heard, flying, app>>

(* The queues of one receiver, from every reactor: the pointers in them    *)
(* are those of _reactors.                                                 *)
ConstructQueues(i) ==
    /\ Running /\ at[0] = "queues" /\ i \in Mine /\ i \notin made.queue
    /\ \A j \in 0 .. i - 1 : j \in made.queue
    /\ made' = [made EXCEPT !.queue = @ \union {i}, !.early = @ \/ ~(Mine \subseteq made.reactor)]
    /\ at' = IF i = plan.procs - 1 THEN [at EXCEPT ![0] = "queues are made"] ELSE at
    /\ UNCHANGED <<config, plan, arrived, stack, heard, flying, app>>

(* start_all_queues(): the sending ends that belong to this reactor *)
StartAllQueues(i) ==
    /\ Running /\ at[i] = "start"
    /\ made' = [made EXCEPT !.tx = @ \union {i}, !.early = @ \/ ~(Mine \subseteq made.queue)]
    /\ at' = [at EXCEPT ![i] = "assign"]
    /\ UNCHANGED <<config, plan, arrived, stack, heard, flying, app>>

AssignIoQueue(i) ==
    LET k == plan.coordinator[i]
    IN  /\ Running /\ at[i] = "assign"
        /\ IF k \notin made.ioQueue THEN Crash("no queue") /\ UNCHANGED <<made, at>>
           ELSE /\ made' = [made EXCEPT !.uses = @ \union {<<i, k>>},
                                        !.owns = IF k = i THEN @ \union {i} ELSE @]
                /\ at' = [at EXCEPT ![i] = "assigned"]
                /\ UNCHANGED app
        /\ UNCHANGED <<config, plan, arrived, stack, heard, flying>>

-----------------------------------------------------------------------------
(* reactor::configure(), reactor::run() and app_template::run() *)

(* The stack is made at once, and reaches the reactor through a promise.   *)
(* A further thread then looks at the stack of its reactor, which is a     *)
(* null pointer until the reactor runs: the build takes the address of the *)
(* reference for null, or calls through it.                                *)
Configure(i, survives) ==
    /\ Running /\ at[i] = "configure"
    /\ i = 0 => survives
    /\ stack' = [stack EXCEPT ![i] = "promised"]
    /\ IF survives THEN at' = [at EXCEPT ![i] = "configured"] /\ UNCHANGED app
       ELSE Crash("net") /\ UNCHANGED at
    /\ UNCHANGED <<config, plan, arrived, made, heard, flying>>

Run(i) ==
    /\ Running /\ at[i] = "configured"
    /\ at' = [at EXCEPT ![i] = "runs"]
    /\ app' = IF i = 0 THEN [app EXCEPT !.state = "waits"] ELSE app
    /\ UNCHANGED <<config, plan, arrived, made, stack, heard, flying>>

(* The first tasks of a reactor set its stack and signal all reactors: the *)
(* own one at once, by a message the others.                               *)
StackReady(i) ==
    /\ Running /\ at[i] = "runs" /\ stack[i] = "promised"
    /\ stack' = [stack EXCEPT ![i] = "set"]
    /\ heard' = [heard EXCEPT ![i] = @ \union {i}]
    /\ flying' = flying \union {<<i, j>> : j \in Mine \ {i}}
    /\ UNCHANGED <<config, plan, at, arrived, made, app>>

SignalArrives(i, j) ==
    /\ Running /\ <<i, j>> \in flying /\ at[j] = "runs" /\ stack[j] = "set"
    /\ flying' = flying \ {<<i, j>>}
    /\ heard' = [heard EXCEPT ![j] = @ \union {i}]
    /\ UNCHANGED <<config, plan, at, arrived, made, stack, app>>

(* _cpu_started has as many units as there are shards *)
CpuStarted(i) ==
    /\ Running /\ at[i] = "runs" /\ Cardinality(heard[i]) = plan.procs
    /\ at' = [at EXCEPT ![i] = "started"]
    /\ app' = IF i = 0 THEN [app EXCEPT !.state = "called"] ELSE app
    /\ UNCHANGED <<config, plan, arrived, made, stack, heard, flying>>

(* exit() sets the code; stop() has nothing to do, and the reactors go on  *)
AppReturns ==
    /\ Running /\ app.state = "called"
    /\ app' = [app EXCEPT !.state = "returned"]
    /\ UNCHANGED <<config, plan, at, arrived, made, stack, heard, flying>>

StartupNext ==
    \/ ConfigureSmp \/ ThreadsCreated \/ AppReturns
    \/ \E i \in AllShards :
          \/ CreateThread(i) \/ AllocateReactor(i) \/ AllocIoQueue(i)
          \/ \E b \in Barriers : Arrive(i, b) \/ Pass(i, b)
          \/ ConstructQueues(i) \/ StartAllQueues(i) \/ AssignIoQueue(i)
          \/ \E survives \in BOOLEAN : Configure(i, survives)
          \/ Run(i) \/ StackReady(i) \/ CpuStarted(i)
          \/ \E j \in AllShards : SignalArrives(i, j)

(* All that may end: else somebody waits for ever *)
StartupDone ==
    \/ ~Running
    \/ app.state = "returned" /\ \A i \in Mine : at[i] = "started"

-----------------------------------------------------------------------------
(* Properties *)

Load(k) == Cardinality({i \in DOMAIN plan.coordinator : plan.coordinator[i] = k})
Chiefs == {plan.coordinator[i] : i \in DOMAIN plan.coordinator}

(* A plan shares out no more than there is, and the shards evenly over the *)
(* coordinators, each of which is its own.                                 *)
PlanExact ==
    plan.result = "ok" =>
        /\ plan.procs * plan.memory <= Usable
        /\ \A k \in Chiefs : plan.coordinator[k] = k
        /\ \A k, l \in Chiefs : Load(k) <= Load(l) + 1
        /\ plan.capacity > 1 =>
              plan.capacity * Cardinality(Chiefs)
                 <= ValueOr(config.requests, DefaultRequests * AskedQueues(config))

(* Who runs has what it uses, and the I/O queues have one owner each; the  *)
(* program's function finds every reactor running with its stack.          *)
NothingTooEarly ==
    /\ ~made.early
    /\ \A i \in Mine : at[i] \in {"configured", "runs", "started"} =>
          /\ i \in made.tx /\ Mine \subseteq made.queue
          /\ \A u \in made.uses : u[1] = i => u[2] \in made.owns
          /\ \E u \in made.uses : u[1] = i
    /\ app.state \in {"called", "returned"} =>
          \A i \in Mine : at[i] \in {"runs", "started"} /\ stack[i] = "set"

(* The program does not get up when --cpuset leaves out one of the first   *)
(* cpus of the machine that is to coordinate, or has fewer than --smp.     *)
FailsWhereStated ==
    /\ plan.result = "assert" => ~(0 .. Queues(config) - 1 \subseteq Cpuset(config))
    /\ plan.result = "ok" => 0 \in Cpuset(config) \/ Cpuset(config) \cap AllShards = {}
    /\ app.crashed = "range" => Procs(config) > Cardinality(Cpuset(config) \cap AllShards)
    /\ app.crashed = "net" => plan.procs > 1
    /\ app.crashed # "no queue"

(* A machine shared out exactly, and a start in which nobody uses what is  *)
(* not there yet.                                                          *)
StartupExact == PlanExact /\ NothingTooEarly /\ FailsWhereStated

=============================================================================
