--------------------------- MODULE MCLowresTimers ---------------------------
(***************************************************************************)
(* Workloads for TLC, of which Init picks one.  Three share the loop of a  *)
(* reactor: its low-resolution timers, the threads it runs, and the list   *)
(* of pollers it goes through.  The loop calls all three and passes        *)
(* nothing from one to another.  Two are about all reactors: their start,  *)
(* which is over before anything else, and a sharded service, to which     *)
(* nothing comes but requests in order and their answers.  The last is a   *)
(* UDP channel with its descriptor.  So none of them needs to be           *)
(* interleaved with another.                                               *)
(***************************************************************************)
EXTENDS LowresTimers, Sharded, Pollers, Threads, UdpChannel

CONSTANTS Cpus, MachineMemory, DefaultReserve, MinMemory, Alignment, DefaultRequests

VARIABLES workload,
          config, plan, at, arrived, made, stack, heard, flying, app

(* Command lines: of cpus and queues, and of memory and requests *)
Options ==
    [cpuset : {{}, {{0}}, {{1}}, {{0, 1}}, {{1, 2}}, {{0, 1, 2}}, {{5}}},
     smp : {{}, {0}, {1}, {2}, {3}, {4}}, queues : {{}, {0}, {1}, {2}, {4}},
     requests : {{}}, memory : {{}}]
    \union
    [cpuset : {{}}, smp : {{}, {2}}, queues : {{}, {2}, {4}},
     requests : {{}, {1}, {5}}, memory : {{}, {9}, {20}}]

Startup == INSTANCE Startup

startupVars == <<config, plan, at, arrived, made, stack, heard, flying, app>>
mcVars == <<vars, threadVars, pollerVars, startupVars, shardedVars, udpVars, workload>>

MCInit ==
    /\ workload \in {"timers", "threads", "pollers", "start", "sharded", "datagrams"}
    /\ Init
    /\ ThreadInit
    /\ PollerInit
    /\ Startup!StartupInit
    /\ ShardedInit
    /\ UdpInit
    /\ workload = "start" \/ config = CHOOSE options \in Options : TRUE
    /\ workload = "sharded" \/ shared.kind = CHOOSE kind \in Kinds : TRUE
    /\ workload = "datagrams" \/ ~Serving

(* Where the workloads may stop: time is bounded for the timers, threads   *)
(* may all have come to their ends, the start may be over, and a service   *)
(* or a channel may be left alone.                                         *)
Stops ==
    /\ \/ workload \in {"timers", "sharded", "datagrams"}
       \/ workload = "threads" /\ ThreadsDone
       \/ workload = "start" /\ Startup!StartupDone
    /\ UNCHANGED mcVars

MCNext ==
    \/ /\ workload = "timers" /\ Next
       /\ UNCHANGED <<threadVars, pollerVars, startupVars, shardedVars, udpVars, workload>>
    \/ /\ workload = "threads" /\ ThreadNext
       /\ UNCHANGED <<vars, pollerVars, startupVars, shardedVars, udpVars, workload>>
    \/ /\ workload = "pollers" /\ PollerNext
       /\ UNCHANGED <<vars, threadVars, startupVars, shardedVars, udpVars, workload>>
    \/ /\ workload = "start" /\ Startup!StartupNext
       /\ UNCHANGED <<vars, threadVars, pollerVars, shardedVars, udpVars, workload>>
    \/ /\ workload = "sharded" /\ ShardedNext
       /\ UNCHANGED <<vars, threadVars, pollerVars, startupVars, udpVars, workload>>
    \/ /\ workload = "datagrams" /\ UdpNext
       /\ UNCHANGED <<vars, threadVars, pollerVars, startupVars, shardedVars, workload>>
    \/ Stops

MCSpec == MCInit /\ [][MCNext]_mcVars

StartupExact == Startup!StartupExact
=============================================================================
