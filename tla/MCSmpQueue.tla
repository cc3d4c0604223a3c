---------------------------- MODULE MCSmpQueue ----------------------------
(***************************************************************************)
(* Workloads for TLC, of which Init picks one.  Requests go through a      *)
(* queue between two reactors; or a program on one reactor goes on with    *)
(* what submitting a request leaves it with: promises and futures, and     *)
(* the loops and joins built from them.  Nothing but the outcome of its    *)
(* promise passes from a request to that program, and nothing but outcomes *)
(* from futures to loops, so that the three need not be interleaved.       *)
(***************************************************************************)
EXTENDS SmpQueue, Futures

CONSTANTS MaxCalls, MaxTakers

VARIABLES workload, loop, tasks

Loops == INSTANCE Loops

loopVars == <<loop, tasks>>
mcVars == <<vars, futureVars, loopVars, workload>>

MCInit ==
    /\ Init /\ FutureInit
    /\ Loops!LoopInit
    /\ workload \in {"requests", "futures", "loops"}

(* A program that is done has nothing left: no promise, no future, and no  *)
(* continuation that nobody would ever run or destroy; no call that runs.  *)
(* A state from which it cannot get on before is a deadlock to TLC.        *)
ProgramEnds ==
    /\ CASE workload = "futures" ->
                Live(heap.promise) = {} /\ Live(heap.future) = {} /\ Live(heap.cont) = {}
         [] workload = "loops" -> Loops!LoopDone
         [] OTHER -> FALSE
    /\ UNCHANGED mcVars

MCNext ==
    \/ /\ workload = "requests" /\ Next
       /\ UNCHANGED <<futureVars, loopVars, workload>>
    \/ /\ workload = "futures" /\ FutureNext
       /\ UNCHANGED <<vars, loopVars, workload>>
    \/ /\ workload = "loops" /\ Loops!LoopNext
       /\ UNCHANGED <<vars, futureVars, workload>>
    \/ ProgramEnds

MCSpec == MCInit /\ [][MCNext]_mcVars /\ (workload = "requests" => Fairness)

LoopsExact == Loops!LoopsExact
=============================================================================
