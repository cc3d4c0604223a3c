--------------------------- MODULE MCReactorSleep ---------------------------
(***************************************************************************)
(* Two workloads for TLC, of which Init picks one: reactors that send to   *)
(* each other and fall asleep, every one to every other; or one reactor    *)
(* that waits in epoll for the descriptors of its fibers.  A wait in epoll *)
(* is where a reactor sleeps, and an event from a descriptor is what       *)
(* WakeByEvent stands for.                                                 *)
(***************************************************************************)
EXTENDS ReactorSleep, PollableFd
CONSTANTS r1, r2
AllRoutes == {p \in Pairs : p[1] # p[2]}

VARIABLE workload

mcVars == <<vars, fdVars, workload>>

MCInit ==
    /\ Init /\ FdInit
    /\ workload \in {"messages", "descriptors"}

MCNext ==
    \/ workload = "messages" /\ Next /\ UNCHANGED <<fdVars, workload>>
    \/ workload = "descriptors" /\ FdNext /\ UNCHANGED <<vars, workload>>

MCSpec == MCInit /\ [][MCNext]_mcVars /\ (workload = "messages" => Fairness)
=============================================================================
