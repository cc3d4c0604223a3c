------------------------------ MODULE MCMemory ------------------------------
(***************************************************************************)
(* Workloads for TLC, of which Init picks one: the allocator of a cpu, the *)
(* packets and buffers that live in allocated memory, and the streams that *)
(* carry them: one that reads a file or a plain source, one that writes a  *)
(* file or packets, a listing of a directory; and directories that are     *)
(* made.  To a buffer a block of memory is there or freed, to a stream a   *)
(* buffer is its data; which block or buffer it is does not matter, so     *)
(* that none of them needs to be interleaved with another.  What is not    *)
(* used is nothing.                                                        *)
(***************************************************************************)
EXTENDS CpuPages
LOCAL INSTANCE TLC

CONSTANTS r1, r2,
          MaxBlocks, MaxNodes, InternalSize, DefaultFrags, MaxLen,
          PacketSlots, BufferSlots, NewSizes, HeaderSizes, MaxCalls,
          FileSize, ReadAlignment, BufferSize, MinBufferSize, WindowSize,
          Offsets, Lengths, ReadAheads, Amounts, MaxInputs, Reads,
          StreamSize, WriteAlignment, WriteBehinds, Sizes, MaxOutputs, Writes,
          Listings, TouchPaths, Touchers

VARIABLES workload, heap, packet, buffer, calls,
          source, fut, inputTasks, reader,
          stream, sink, writes, outputTasks, disk,
          directory, work, lister, holder, tree, toucher

dataVars == <<heap, packet, buffer, calls>>
inputVars == <<source, fut, inputTasks, reader>>
outputVars == <<stream, sink, writes, outputTasks, disk>>
listVars == <<directory, work, lister, holder>>
touchVars == <<tree, toucher>>

mcVars == <<vars, dataVars, inputVars, outputVars, listVars, touchVars, workload>>

Data == INSTANCE Buffers
Input == INSTANCE FileInput
         WITH Alignment <- ReadAlignment, MaxCalls <- MaxInputs, tasks <- inputTasks
Output == INSTANCE FileOutput WITH Alignment <- WriteAlignment, tasks <- outputTasks
Dirs == INSTANCE Directories

MCListings == {<<>>, <<0, 1, 2>>, <<1, 0, 2, 3>>}
MCTouchPaths == {<<1>>, <<1, 2>>, <<1, 2, 3>>}

MCRemotes == {r1, r2}

Symmetry == Permutations(MCRemotes)

MCInit ==
    /\ workload \in {"pages", "data", "input", "output", "list", "touch"}
    /\ Init
    /\ Data!Init
    /\ IF workload = "input" THEN Input!InputInit
       ELSE source = 0 /\ fut = 0 /\ inputTasks = 0 /\ reader = 0
    /\ IF workload = "output" THEN Output!OutputInit
       ELSE stream = 0 /\ sink = 0 /\ writes = 0 /\ outputTasks = 0 /\ disk = 0
    /\ IF workload = "list" THEN Dirs!ListInit
       ELSE directory = 0 /\ work = 0 /\ lister = 0 /\ holder = 0
    /\ IF workload = "touch" THEN Dirs!TouchInit ELSE tree = 0 /\ toucher = 0

MCNext ==
    \/ /\ workload = "pages" /\ Next
       /\ UNCHANGED <<workload, dataVars, inputVars, outputVars, listVars, touchVars>>
    \/ /\ workload = "data" /\ Data!Next
       /\ UNCHANGED <<workload, vars, inputVars, outputVars, listVars, touchVars>>
    \/ /\ workload = "input" /\ Input!InputNext
       /\ UNCHANGED <<workload, vars, dataVars, outputVars, listVars, touchVars>>
    \/ /\ workload = "output" /\ Output!OutputNext
       /\ UNCHANGED <<workload, vars, dataVars, inputVars, listVars, touchVars>>
    \/ /\ workload = "list" /\ Dirs!ListNext
       /\ UNCHANGED <<workload, vars, dataVars, inputVars, outputVars, touchVars>>
    \/ /\ workload = "touch" /\ Dirs!TouchNext
       /\ UNCHANGED <<workload, vars, dataVars, inputVars, outputVars, listVars>>

MCSpec == MCInit /\ [][MCNext]_mcVars

(* DataExact of Buffers: a holder of data reads what its own calls gave    *)
(* it, and memory is freed once, when its last owner is gone.              *)
BuffersExact == workload = "data" => Data!DataExact

(* InputExact, OutputExact and ListExact: what is read and written through *)
(* streams is in order and complete, whatever is read ahead, skipped or    *)
(* written behind; errors are reported, and close() ends after the rest.   *)
(* TouchExact: directories are made with all above them, and what a failed *)
(* touch or check leaves behind.                                           *)
StreamsAreExact ==
    /\ workload = "input" => Input!InputExact
    /\ workload = "output" => Output!OutputExact
    /\ workload = "list" => Dirs!ListExact
    /\ workload = "touch" => Dirs!TouchExact
=============================================================================
