----------------------------- MODULE FileOutput -----------------------------
(***************************************************************************)
(* Writing: an output_stream that trims what it puts to its size and does  *)
(* not batch its flushes, over the data sink of a file (file_data_sink_    *)
(* impl), which writes behind the caller, or over a sink that takes        *)
(* packets at once (vector_data_sink).  One fiber uses the stream, a call  *)
(* at a time.                                                              *)
(*                                                                         *)
(* Bytes are units: the one written as number i belongs at position i of   *)
(* the file.  0 is padding, or a hole.  Writes under way end in any order, *)
(* and may fail, or write less than they were given, which the sink does   *)
(* not look at.  need_preempt() is always true: continuations are tasks.   *)
(***************************************************************************)
EXTENDS Integers, Sequences, FiniteSets
LOCAL INSTANCE SequencesExt

CONSTANTS
    StreamSize,     \* _size of the stream, in units
    Alignment,      \* disk_write_dma_alignment()
    WriteBehinds,   \* values of _options.write_behind
    Sizes,          \* of the data of a write()
    MaxOutputs,     \* bound: calls made on a stream
    Writes          \* names for writes

VARIABLES
    stream,   \* output_stream and the fiber that uses it
    sink,     \* the data sink
    writes,   \* the dma_writes that are under way, or not merged
    tasks,    \* the task list
    disk      \* the units of the file, or the packets that were put

outputVars == <<stream, sink, writes, tasks, disk>>

NoWrite == [state |-> "none"]
NoPut == [pos |-> -1, data |-> <<>>]
Idle == [kind |-> "none", stage |-> "none", rest |-> <<>>, splits |-> FALSE, failed |-> FALSE]
EmptyChain == [writes |-> <<>>, failed |-> FALSE]

Low(a, b) == IF a < b THEN a ELSE b
High(a, b) == IF a > b THEN a ELSE b
AlignUp(n) == n + ((Alignment - (n % Alignment)) % Alignment)
DropFront(s, n) == SubSeq(s, n + 1, Len(s))
Task(kind, arg) == [kind |-> kind, arg |-> arg]

OutputInit ==
    /\ \E kind \in {"file", "packets"}, behind \in WriteBehinds :
          sink = [kind |-> kind, behind |-> behind, pos |-> 0, free |-> behind, put |-> NoPut,
                  waits |-> FALSE, failed |-> FALSE, chain |-> EmptyChain, taken |-> EmptyChain,
                  short |-> FALSE, lost |-> FALSE]
    /\ stream = [buffer |-> <<>>, zero |-> <<>>, units |-> 0, call |-> Idle, calls |-> 0, closed |-> FALSE,
                 synced |-> FALSE, reported |-> FALSE, ragged |-> FALSE, forms |-> {}, crashed |-> "no"]
    /\ writes = [i \in Writes |-> NoWrite]
    /\ tasks = <<>>
    /\ disk = <<>>

-----------------------------------------------------------------------------
(* The sink of a file.  w is a record of the five variables.               *)

Unaligned(n) == n % Alignment # 0

(* Wrong on purpose, as the name says: a plausible mistake in the         *)
(* definition after it, which a property catches.                          *)
Truncated_mut(put) == Unaligned(put.pos)

Truncated(put) == Unaligned(Len(put.data))

(* do_put(): the last write may be longer than the data, and is truncated  *)
DoPut(w, put) ==
    LET id == CHOOSE i \in Writes : w.writes[i] = NoWrite
    IN  IF Unaligned(put.pos) THEN [w EXCEPT !.stream.crashed = "unaligned"]
        ELSE [w EXCEPT !.writes[id] = [state |-> "writing", pos |-> put.pos, data |-> put.data,
                                       truncate |-> Truncated(put), failed |-> FALSE],
                       !.sink.chain.writes = IF w.sink.behind = 0 THEN @ ELSE Append(@, id)]

(* put(): a write behind needs a unit of the semaphore *)
PutFile(w, data) ==
    LET put == [pos |-> w.sink.pos, data |-> data]
        v == [w EXCEPT !.sink.pos = @ + Len(data)]
    IN  CASE v.sink.behind = 0 -> DoPut(v, put)
          [] v.sink.behind > 0 /\ v.sink.free > 0 ->
                [v EXCEPT !.sink.free = @ - 1, !.sink.put = put, !.tasks = Append(@, Task("put", 0))]
          [] OTHER -> [v EXCEPT !.sink.put = put, !.sink.waits = TRUE]

(* ... and comes here with it.  After a failure the writes are dropped,    *)
(* and the first put to come gets the error.                               *)
Resumed(w, failed) == [w EXCEPT !.tasks = Append(@, Task("resume", IF failed THEN 1 ELSE 0))]

TakeChain(w) ==
    LET chain == w.sink.chain
        v == [w EXCEPT !.sink.taken = chain, !.sink.chain = EmptyChain]
    IN  IF chain.writes = <<>> THEN Resumed(v, chain.failed) ELSE v

PutGranted(w) ==
    LET v == [w EXCEPT !.sink.put = NoPut]
    IN  IF w.sink.failed
        THEN TakeChain([v EXCEPT !.sink.free = @ + 1, !.sink.lost = TRUE])
        ELSE Resumed(DoPut(v, w.sink.put), FALSE)

(* The kernel writes all it was given, or less, or fails *)
Overwritten(d, pos, data) ==
    [i \in 1 .. High(Len(d), pos + Len(data)) |->
         CASE i > pos /\ i <= pos + Len(data) -> data[i - pos]
           [] i <= Len(d) /\ (i <= pos \/ i > pos + Len(data)) -> d[i]
           [] OTHER -> 0]

Padded(data) == [i \in 1 .. AlignUp(Len(data)) |-> IF i <= Len(data) THEN data[i] ELSE 0]

KernelWrites(i) ==
    /\ writes[i].state = "writing"
    /\ \/ /\ writes' = [writes EXCEPT ![i].state = "answered"]
          /\ \E n \in {Alignment, AlignUp(Len(writes[i].data))} :
                /\ disk' = Overwritten(disk, writes[i].pos, SubSeq(Padded(writes[i].data), 1, n))
                /\ sink' = [sink EXCEPT !.short = @ \/ n < AlignUp(Len(writes[i].data))]
       \/ /\ writes' = [writes EXCEPT ![i].state = "answered", ![i].failed = TRUE]
          /\ sink' = [sink EXCEPT !.lost = TRUE]
          /\ UNCHANGED disk
    /\ tasks' = Append(tasks, Task("wrote", i))
    /\ UNCHANGED stream

(* The file is cut, or made longer, to the size it was asked to have *)
KernelTruncates(i) ==
    /\ writes[i].state = "truncating"
    /\ \/ /\ disk' = [k \in 1 .. writes[i].size |-> IF k <= Len(disk) THEN disk[k] ELSE 0]
          /\ writes' = [writes EXCEPT ![i].state = "truncated"]
       \/ /\ writes' = [writes EXCEPT ![i].state = "truncated", ![i].failed = TRUE]
          /\ UNCHANGED disk
    /\ tasks' = Append(tasks, Task("wrote", i))
    /\ UNCHANGED <<stream, sink>>

(* A unit comes back; the waiter is put() or wait(), never both *)
Signal(w) ==
    LET free == w.sink.free + 1
    IN  CASE w.sink.waits /\ w.sink.put # NoPut ->
                [w EXCEPT !.sink.waits = FALSE, !.tasks = Append(@, Task("put", 0))]
          [] w.sink.waits /\ w.sink.put = NoPut /\ free = w.sink.behind ->
                [w EXCEPT !.sink.free = 0, !.sink.waits = FALSE, !.tasks = Append(@, Task("waited", 0))]
          [] OTHER -> [w EXCEPT !.sink.free = free]

(* when_all() of the writes before and this one: merged in their order *)
Mergeable(w, chain) ==
    IF chain.writes # <<>> /\ w.writes[Head(chain.writes)].state = "done"
    THEN [w EXCEPT !.tasks = Append(@, Task("merge", Head(chain.writes)))] ELSE w

Finished(w, i) ==
    LET v == Signal([w EXCEPT !.writes[i].state = "done"])
        first(chain) == chain.writes # <<>> /\ Head(chain.writes) = i
    IN  CASE w.sink.behind = 0 -> Resumed([w EXCEPT !.writes[i] = NoWrite], w.writes[i].failed)
          [] w.sink.behind > 0 /\ (first(v.sink.chain) \/ first(v.sink.taken)) ->
                [v EXCEPT !.tasks = Append(@, Task("merge", i))]
          [] OTHER -> v

Wrote(w, i) ==
    IF w.writes[i].state = "answered" /\ w.writes[i].truncate /\ ~w.writes[i].failed
    THEN [w EXCEPT !.writes[i] = [state |-> "truncating", size |-> w.sink.pos, failed |-> FALSE]]
    ELSE Finished(w, i)

Merged(chain, failed) == [writes |-> Tail(chain.writes), failed |-> chain.failed \/ failed]

Merge(w, i) ==
    LET failed == w.writes[i].failed
        v == [w EXCEPT !.writes[i] = NoWrite]
    IN  IF w.sink.chain.writes # <<>> /\ Head(w.sink.chain.writes) = i
        THEN LET c == Merged(w.sink.chain, failed)
             IN  Mergeable([v EXCEPT !.sink.failed = @ \/ (failed /\ ~w.sink.chain.failed),
                                     !.sink.chain = c], c)
        ELSE LET c == Merged(w.sink.taken, failed)
                 u == Mergeable([v EXCEPT !.sink.failed = @ \/ (failed /\ ~w.sink.taken.failed),
                                          !.sink.taken = c], c)
             IN  IF c.writes = <<>> THEN Resumed(u, c.failed) ELSE u

(* wait(): all units, then what the writes came to; then the units go back *)
Wait(w) ==
    IF w.sink.free = w.sink.behind
    THEN [w EXCEPT !.sink.free = 0, !.tasks = Append(@, Task("waited", 0))]
    ELSE [w EXCEPT !.sink.waits = TRUE]

WaitEnds(w) == [w EXCEPT !.sink.free = w.sink.behind]

-----------------------------------------------------------------------------
(* The stream *)

PutPackets(w, data) == Resumed([w EXCEPT !.disk = Append(@, data)], FALSE)

Put(w, data, rest, splits) ==
    LET v == [w EXCEPT !.stream.call.stage = "put", !.stream.call.rest = rest, !.stream.call.splits = splits]
    IN  IF v.sink.kind = "file" THEN PutFile(v, data) ELSE PutPackets(v, data)

Return(w, failed) ==
    [w EXCEPT !.stream.call = Idle, !.stream.reported = @ \/ failed,
              !.stream.closed = (w.stream.call.kind = "close"),
              !.stream.synced = (w.stream.call.kind \in {"flush", "close"} /\ ~failed)]

(* split_and_put(), a round *)
Split(w, data) ==
    IF Len(data) < StreamSize
    THEN Return([w EXCEPT !.stream.buffer = data], FALSE)
    ELSE Put(w, SubSeq(data, 1, StreamSize), DropFront(data, StreamSize), TRUE)

(* write() of characters *)
Write(w, data) ==
    LET end == Len(w.stream.buffer)
        now == Low(Len(data), StreamSize - end)
        filled == w.stream.buffer \o SubSeq(data, 1, now)
        rest == DropFront(data, now)
    IN  CASE w.stream.zero # <<>> -> [w EXCEPT !.stream.crashed = "mixed"]
          [] w.stream.zero = <<>> /\ end = 0 /\ Len(data) >= StreamSize -> Split(w, data)
          [] w.stream.zero = <<>> /\ end > 0 /\ Len(data) >= 2 * StreamSize - end ->
                Put([w EXCEPT !.stream.buffer = <<>>], filled, rest, TRUE)
          [] w.stream.zero = <<>> /\ end > 0 /\ Len(data) < 2 * StreamSize - end /\ rest # <<>> ->
                Put([w EXCEPT !.stream.buffer = rest], filled, <<>>, FALSE)
          [] OTHER -> Return([w EXCEPT !.stream.buffer = @ \o data], FALSE)

(* zero_copy_split_and_put(), a round; write() of a packet *)
ZeroCopySplit(w, data) ==
    IF Len(data) < StreamSize
    THEN Return([w EXCEPT !.stream.zero = data], FALSE)
    ELSE Put([w EXCEPT !.stream.zero = <<>>], SubSeq(data, 1, StreamSize), DropFront(data, StreamSize), TRUE)

WritePacket(w, data) ==
    CASE data = <<>> -> Return(w, FALSE)
      [] data # <<>> /\ w.stream.buffer # <<>> -> [w EXCEPT !.stream.crashed = "mixed"]
      [] OTHER -> ZeroCopySplit([w EXCEPT !.stream.zero = <<>>], w.stream.zero \o data)

(* sink.flush() and sink.close(); packets have nothing to wait for *)
SinkFlush(w) ==
    IF w.sink.kind = "packets" THEN Return(w, FALSE) ELSE Wait([w EXCEPT !.stream.call.stage = "flush"])

SinkClose(w, failed) ==
    IF w.sink.kind = "packets" THEN Return(w, failed)
    ELSE Wait([w EXCEPT !.stream.call.stage = "close", !.stream.call.failed = failed])

(* flush(), of close() too: with nothing in the stream, nothing at all *)
FlushStream(w) ==
    LET data == w.stream.buffer \o w.stream.zero
    IN  CASE data # <<>> -> Put([w EXCEPT !.stream.buffer = <<>>, !.stream.zero = <<>>], data, <<>>, FALSE)
          [] data = <<>> /\ w.stream.call.kind = "flush" ->
                [Return(w, FALSE) EXCEPT !.stream.synced = w.stream.synced]
          [] OTHER -> SinkClose(w, FALSE)

(* A put, a wait or the file's flush or close has ended *)
FlushEnds(w, failed) == IF w.stream.call.kind = "close" THEN SinkClose(w, failed) ELSE Return(w, failed)

PutEnds(w, failed) ==
    LET call == w.stream.call
    IN  CASE call.kind = "write" /\ (failed \/ ~call.splits) -> {Return(w, failed)}
          [] call.kind = "write" /\ ~failed /\ call.splits -> {Split(w, call.rest)}
          [] call.kind = "packet" /\ (failed \/ ~call.splits) -> {Return(w, failed)}
          [] call.kind = "packet" /\ ~failed /\ call.splits -> {ZeroCopySplit(w, call.rest)}
          [] OTHER -> {IF failed THEN FlushEnds(w, TRUE) ELSE SinkFlush(w)}

Resume(w, failed) ==
    LET stage == w.stream.call.stage
    IN  CASE stage = "put" -> PutEnds(w, failed)
          [] stage = "flush" ->
                LET v == WaitEnds(w)
                IN  IF failed THEN {FlushEnds(v, TRUE)}
                    ELSE {FlushEnds(v, TRUE), Resumed([v EXCEPT !.stream.call.stage = "flushed"], FALSE)}
          [] stage = "flushed" -> {FlushEnds(w, FALSE)}
          [] stage = "close" ->
                {Return(WaitEnds(w), fails) : fails \in {TRUE, failed \/ w.stream.call.failed}}

-----------------------------------------------------------------------------
World == [stream |-> stream, sink |-> sink, writes |-> writes, tasks |-> tasks, disk |-> disk]

Becomes(w) ==
    stream' = w.stream /\ sink' = w.sink /\ writes' = w.writes /\ tasks' = w.tasks /\ disk' = w.disk

Called(kind, n) ==
    [World EXCEPT !.stream.call = [Idle EXCEPT !.kind = kind], !.stream.calls = @ + 1,
                  !.stream.units = @ + n, !.stream.synced = @ /\ n = 0,
                  !.stream.forms = IF kind \in {"write", "packet"} THEN @ \union {kind} ELSE @,
                  !.stream.ragged = @ \/ (kind = "flush" /\ Unaligned(Len(stream.buffer)))]

CanCall == stream.call = Idle /\ stream.crashed = "no" /\ ~stream.closed

Output(kind, n) ==
    /\ CanCall /\ stream.calls < MaxOutputs
    /\ LET data == [i \in 1 .. n |-> stream.units + i]
       IN  CASE kind = "write" -> Becomes(Write(Called(kind, n), data))
             [] kind = "packet" -> sink.kind = "packets" /\ Becomes(WritePacket(Called(kind, n), data))
             [] kind = "flush" -> n = 0 /\ Becomes(FlushStream(Called(kind, 0)))

CloseOutput == CanCall /\ Becomes(FlushStream(Called("close", 0)))

Runs(w, t) ==
    CASE t.kind = "put" -> {PutGranted(w)}
      [] t.kind = "wrote" -> {Wrote(w, t.arg)}
      [] t.kind = "merge" -> {Merge(w, t.arg)}
      [] t.kind = "waited" -> {TakeChain(w)}
      [] t.kind = "resume" -> Resume(w, t.arg = 1)

OutputTask ==
    /\ tasks # <<>> /\ stream.crashed = "no"
    /\ \E w \in Runs([World EXCEPT !.tasks = Tail(@)], Head(tasks)) : Becomes(w)

OutputNext ==
    \/ \E kind \in {"write", "packet", "flush"}, n \in Sizes \union {0} : Output(kind, n)
    \/ CloseOutput
    \/ OutputTask
    \/ \E i \in Writes : KernelWrites(i) \/ KernelTruncates(i)

OutputDone == stream.closed \/ stream.crashed # "no"

-----------------------------------------------------------------------------
(* Properties *)

UnderWay == {i \in Writes : writes[i].state \in {"writing", "answered", "truncating", "truncated"}}

InPlace(d) == \A i \in DOMAIN d : d[i] \in {0, i}
Complete(d) == d = [i \in 1 .. stream.units |-> i]

(* No more writes than the option allows, none after close() has resolved; *)
(* no unit where another belongs, before an error is reported; and when a flush of something, or        *)
(* close(), says that all is well, and no write was short, the file has    *)
(* exactly what was written.                                               *)
FileExact ==
    /\ Cardinality(UnderWay) <= High(sink.behind, 1)
    /\ stream.closed => UnderWay = {} /\ sink.chain.writes = <<>>
    /\ ~stream.reported => InPlace(disk)
    /\ stream.synced /\ ~stream.reported /\ ~sink.short => Complete(disk)

(* What was lost was reported, in the end: by a put, flush() or close()    *)
LossIsReported == stream.closed /\ sink.lost => stream.reported

(* Packets come in order, each of the stream's size except where it was    *)
(* flushed.                                                                *)
PacketsExact ==
    LET sent == FlattenSeq(disk)
    IN  /\ InPlace(sent)
        /\ stream.call = Idle /\ stream.crashed = "no" =>
              Complete(sent \o stream.buffer \o stream.zero)
        /\ \A i \in DOMAIN disk : Len(disk[i]) <= StreamSize
        /\ stream.synced => Complete(sent)

(* A call never waits for nothing.                                         *)
NothingHangs ==
    stream.call # Idle /\ stream.crashed = "no" /\ tasks = <<>>
        => \E i \in Writes : writes[i].state \in {"writing", "truncating"}

(* It stops where the caller goes on after a flush() that ended in the     *)
(* middle of a block, or mixes packets and characters.                     *)
StopsWhereToldNotTo ==
    /\ stream.crashed = "unaligned" => stream.ragged
    /\ stream.crashed = "mixed" => stream.forms = {"write", "packet"}

(* An output_stream puts what it was given in order, and over a file       *)
(* flush() and close() mean what they say.                                 *)
OutputExact ==
    /\ IF sink.kind = "file" THEN FileExact /\ LossIsReported ELSE PacketsExact
    /\ NothingHangs
    /\ StopsWhereToldNotTo

=============================================================================
