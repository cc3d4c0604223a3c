----------------------------- MODULE FileInput -----------------------------
(***************************************************************************)
(* Reading: an input_stream over the data source of a file, which reads    *)
(* ahead and drops what is skipped (file_data_source_impl), or over a      *)
(* plain one, such as a socket, whose skip() reads and throws away.  One   *)
(* fiber uses the stream, a call at a time, and closes it in the end.      *)
(*                                                                         *)
(* Bytes are units, the one at position i of the file is the number i.     *)
(* The file answers reads in any order; it gives what it has from the      *)
(* position asked for, or fails.  need_preempt() is always true, so that   *)
(* every continuation is a task.                                           *)
(***************************************************************************)
EXTENDS Integers, Sequences, FiniteSets
LOCAL INSTANCE SequencesExt
LOCAL INSTANCE FiniteSetsExt

CONSTANTS
    FileSize,        \* units in the file
    Alignment,       \* disk_read_dma_alignment()
    BufferSize,      \* buffer_size of the stream
    MinBufferSize,   \* 8192 in minimal_buffer_size()
    WindowSize,      \* window_size of the history
    Offsets, Lengths, ReadAheads,   \* the streams that are opened
    Amounts,         \* arguments of calls
    MaxCalls,        \* bound: calls made on a stream
    Reads            \* names for futures of reads

VARIABLES
    source,   \* data_source_impl
    fut,      \* the reads whose futures are not used up
    tasks,    \* the task list
    reader    \* input_stream and the fiber that uses it

inputVars == <<source, fut, tasks, reader>>

NoFuture == [state |-> "none"]
NoCall == [kind |-> "none"]

(* Units from one position up to another *)
Units(from, to) == [i \in 1 .. (IF to > from THEN to - from ELSE 0) |-> from + i]
Low(a, b) == IF a < b THEN a ELSE b
High(a, b) == IF a > b THEN a ELSE b
AlignDown(n) == n - (n % Alignment)
AlignUp(n) == AlignDown(n + Alignment - 1)
DropFront(s, n) == SubSeq(s, n + 1, Len(s))

-----------------------------------------------------------------------------
(* Dynamic adjustments: unused_ratio_target is one fourth *)

MinimalBufferSize == Low(High(BufferSize \div 4, MinBufferSize), BufferSize)
BelowTarget(unused, total) == unused * 4 < total

UpdateHistory(h, unused, total) ==
    LET g == [h EXCEPT !.total = @ + total, !.unused = @ + unused]
    IN  IF g.total >= WindowSize
        THEN [g EXCEPT !.oldTotal = g.total, !.oldUnused = g.unused, !.total = 0, !.unused = 0]
        ELSE g

UpdateHistoryConsumed(s, bytes) ==
    LET h == UpdateHistory(s.hist, 0, bytes)
        size == Low(s.size * 2, BufferSize)
        grows == s.slow /\ BelowTarget(h.unused + h.oldUnused + size, h.total + h.oldTotal + size)
    IN  CASE ~s.dynamic -> s
          [] s.dynamic /\ ~grows -> [s EXCEPT !.hist = h]
          [] OTHER -> [s EXCEPT !.hist = h, !.size = size, !.slow = size < BufferSize]

PowerBelow(n) == Max({p \in {1, 2, 4, 8, 16} : p <= n})

SetNewBufferSize(s, afterSkip) ==
    LET h == s.hist
        total == h.total + h.oldTotal
        unused == h.unused + h.oldUnused
        target == High((total - 4 * unused) \div 3, MinimalBufferSize)
        size == High(PowerBelow(target), MinimalBufferSize)
    IN  IF ~s.dynamic \/ (afterSkip /\ BelowTarget(unused, total)) \/ size >= s.size THEN s
        ELSE [s EXCEPT !.slow = TRUE, !.ahead = Low(@, 1), !.size = size]

UpdateHistoryUnused(s, bytes) ==
    IF ~s.dynamic THEN s
    ELSE SetNewBufferSize([s EXCEPT !.hist = UpdateHistory(@, bytes, bytes)], TRUE)

TryIncreaseReadAhead(s) ==
    IF s.ahead < s.most /\ ~s.slow
    THEN [s EXCEPT !.ahead = @ + 1, !.hist.ahead = High(@, s.ahead + 1)]
    ELSE s

-----------------------------------------------------------------------------
(* The constructor of the data source, with or without a history *)
Open(offset, len, most, dynamic) ==
    LET fresh == [total |-> 0, unused |-> 0, oldTotal |-> 0, oldUnused |-> 0, ahead |-> 1]
    IN  SetNewBufferSize(
            [plain |-> FALSE, pos |-> offset, remain |-> len, list |-> <<>>, inProgress |-> 0,
             most |-> most, ahead |-> Low(1, most), size |-> BufferSize, slow |-> FALSE,
             dynamic |-> dynamic, hist |-> fresh, done |-> "no"], FALSE)

OpenPlain == [Open(0, FileSize, 0, FALSE) EXCEPT !.plain = TRUE]

InputInit ==
    /\ \E offset \in Offsets, len \in Lengths, most \in ReadAheads, dynamic \in BOOLEAN :
          /\ source \in {Open(offset, len, most, dynamic), OpenPlain}
          /\ reader = [buf |-> <<>>, eof |-> FALSE, call |-> NoCall, calls |-> 0, last |-> NoCall,
                       at |-> source.pos,
                       end |-> IF source.plain THEN FileSize ELSE Low(FileSize, offset + len),
                       cut |-> FALSE, failed |-> FALSE, crashed |-> "no"]
    /\ fut = [r \in Reads |-> NoFuture]
    /\ tasks = <<>>

Available(f, r) == f[r].state \in {"value", "failed"} /\ f[r].trims = <<>>

(* What a future that may have become available has waiting for it *)
Notify(f, r, t) ==
    CASE f[r].state \notin {"value", "failed"} -> t
      [] f[r].trims # <<>> -> Append(t, <<"trim", r>>)
      [] f[r].owner = "reader" -> Append(t, <<"got", r>>)
      [] f[r].owner = "dropped" -> Append(t, <<"ignored", r>>)
      [] OTHER -> t

NewRead(start, len, pos, remain, size, owner) ==
    [state |-> "kernel", start |-> start, len |-> len, pos |-> pos, remain |-> remain,
     size |-> size, data |-> <<>>, trims |-> <<>>, owner |-> owner]

FreeRead(f) == CHOOSE r \in Reads : f[r] = NoFuture

-----------------------------------------------------------------------------
(* What follows changes w, a record of the four variables *)

(* A read at the back of _read_buffers *)
Listed(w, read) ==
    LET r == FreeRead(w.fut)
    IN  [w EXCEPT !.source.list = Append(@, r), !.fut[r] = read]

ReadStart(s) == AlignDown(s.pos)
ReadEnd(s) == Low(AlignUp(ReadStart(s) + s.size), s.pos + s.remain)

Issued(w, s, end) ==
    Listed(w, NewRead(ReadStart(s), end - ReadStart(s), s.pos, s.remain, end - s.pos, "list"))

(* A read that begins where one may begin, and ends where it should *)
IssueOne(w, s, end) ==
    [Issued(w, s, end) EXCEPT !.source.inProgress = @ + 1,
                              !.source.remain = @ - (end - s.pos), !.source.pos = end]

(* Nothing remains: an empty buffer that is there *)
IssueEnd(w) ==
    Listed(w, [NewRead(w.source.pos, 0, w.source.pos, 0, 0, "list") EXCEPT !.state = "value"])

(* issue_read_aheads(1), a round of its loop and the loop *)
IssueMore(w) ==
    LET s == w.source
    IN  CASE Len(s.list) <= s.ahead /\ s.remain > 0 -> IssueOne(w, s, ReadEnd(s))
          [] s.remain = 0 /\ s.list = <<>> -> IssueEnd(w)
          [] OTHER -> w

IssueReadAheads(w) ==
    LET issued[n \in 0 .. w.source.most + 1] == IF n = 0 THEN w ELSE IssueMore(issued[n - 1])
    IN  issued[w.source.most + 1]

(* get() of the file's source *)
Handed(w, r) ==
    [w EXCEPT !.source = UpdateHistoryConsumed([@ EXCEPT !.list = Tail(@)], w.fut[r].size),
              !.fut[r].owner = "reader",
              !.tasks = IF Available(w.fut, r) THEN Append(@, <<"got", r>>) ELSE @]

GetFile(w) ==
    LET waits == w.source.list # <<>> /\ ~Available(w.fut, Head(w.source.list))
        issued == IssueReadAheads(IF waits THEN [w EXCEPT !.source = TryIncreaseReadAhead(@)] ELSE w)
    IN  Handed(issued, Head(issued.source.list))

(* get() of a plain source: one read, of what comes next *)
GetPlain(w) ==
    [w EXCEPT !.fut[FreeRead(w.fut)] =
                  NewRead(w.source.pos, BufferSize, w.source.pos, BufferSize, BufferSize, "reader"),
              !.source.inProgress = @ + 1]

GetMore(w) == IF w.source.plain THEN GetPlain(w) ELSE GetFile(w)

(* dma_read_bulk() or a read of a descriptor is answered *)
KernelReads(r) ==
    /\ fut[r].state = "kernel"
    /\ \/ fut' = [fut EXCEPT ![r].state = "refused"]
       \/ \E n \in IF source.plain THEN 0 .. fut[r].len ELSE {fut[r].len} :
             /\ n = 0 => fut[r].start >= FileSize
             /\ fut' = [fut EXCEPT ![r].state = "arrived",
                                   ![r].data = Units(fut[r].start, Low(fut[r].start + n, FileSize))]
    /\ tasks' = Append(tasks, <<"read", r>>)
    /\ UNCHANGED <<source, reader>>

(* Wrong on purpose, as the name says: a plausible mistake in the         *)
(* definition after it, which a property catches.                          *)
Answer_mut(read, realEnd, plain) ==
    [read EXCEPT !.state = IF @ = "refused" THEN "failed" ELSE "value",
                 !.data = IF plain THEN @ ELSE Units(read.start, Low(realEnd, read.pos + read.remain))]

(* The continuation on a read, which cuts it to what was wanted.  The      *)
(* promise of close() is set before the future of the read is.             *)
Answer(read, realEnd, plain) ==
    [read EXCEPT !.state = IF @ = "refused" THEN "failed" ELSE "value",
                 !.data = IF plain THEN @ ELSE Units(read.pos, Low(realEnd, read.pos + read.remain))]

ReadDone(w, r) ==
    LET realEnd == w.fut[r].start + Len(w.fut[r].data)
        f == [w.fut EXCEPT ![r] = Answer(@, realEnd, w.source.plain)]
        closes == w.source.done = "asked" /\ w.source.inProgress = 1
    IN  [w EXCEPT !.fut = f,
                  !.source.inProgress = @ - 1,
                  !.source.pos = IF w.source.plain THEN realEnd ELSE @,
                  !.tasks = Notify(f, r, IF closes THEN Append(@, <<"close", 0>>) ELSE @)]

(* temporary_buffer::trim_front() checks nothing: the size wraps *)
TrimFront(w, r) ==
    LET n == Head(w.fut[r].trims)
        f == [w.fut EXCEPT ![r].trims = Tail(@), ![r].data = DropFront(@, n)]
    IN  IF w.fut[r].state = "value" /\ n > Len(w.fut[r].data)
        THEN [w EXCEPT !.reader.crashed = "underflow"]
        ELSE [w EXCEPT !.fut = f, !.tasks = Notify(f, r, @)]

-----------------------------------------------------------------------------
(* skip() of the file's source: whole reads are dropped, the next one is   *)
(* cut, and what is not issued yet will not be.                            *)

DropRead(w) ==
    LET r == Head(w.source.list)
    IN  [w EXCEPT !.source.list = Tail(@), !.fut[r].owner = "dropped",
                  !.tasks = IF Available(w.fut, r) THEN Append(@, <<"ignored", r>>) ELSE @]

CutRead(w, n) ==
    LET r == Head(w.source.list)
        f == [w.fut EXCEPT ![r].trims = Append(@, n), ![r].size = @ - n]
    IN  [w EXCEPT !.fut = f,
                  !.tasks = IF Available(w.fut, r) THEN Notify(f, r, @) ELSE @,
                  !.reader.cut = @ \/ ~Available(w.fut, r)]

SkipRest(w, n) ==
    CASE n = 0 -> w
      [] n > 0 /\ w.source.list # <<>> -> CutRead(w, n)
      [] n > 0 /\ w.source.list = <<>> /\ n > w.source.remain -> [w EXCEPT !.reader.crashed = "assert"]
      [] OTHER -> [w EXCEPT !.source.pos = @ + n, !.source.remain = @ - n]

SkipFile(w, n) ==
    LET list == w.source.list
        before[k \in 0 .. Len(list)] == IF k = 0 THEN 0 ELSE before[k - 1] + w.fut[list[k]].size
        drops == Max({k \in 0 .. Len(list) : before[k] <= n})
        dropped[k \in 0 .. drops] == IF k = 0 THEN w ELSE DropRead(dropped[k - 1])
        rest == SkipRest(dropped[drops], n - before[drops])
    IN  [rest EXCEPT !.source = UpdateHistoryUnused(@, before[drops]), !.tasks = Append(@, <<"skipped", 0>>)]

(* close(), in the end: waits for what is under way, and for the drops *)
CloseStream ==
    /\ reader.call = NoCall /\ reader.crashed = "no" /\ source.done = "no"
    /\ source' = [source EXCEPT !.done = IF source.plain THEN "closed" ELSE "asked"]
    /\ tasks' = IF source.inProgress = 0 /\ ~source.plain THEN Append(tasks, <<"close", 0>>) ELSE tasks
    /\ UNCHANGED <<fut, reader>>

(* ignore_ready_future() asserts that the future is there *)
CloseDone(w) ==
    LET list == w.source.list
        unused[k \in 0 .. Len(list)] == IF k = 0 THEN 0 ELSE unused[k - 1] + w.fut[list[k]].size
    IN  IF \E r \in ToSet(list) : ~Available(w.fut, r)
        THEN [w EXCEPT !.reader.crashed = "pending"]
        ELSE [w EXCEPT !.source = [UpdateHistoryUnused(@, unused[Len(list)]) EXCEPT !.done = "drops"]]

(* The drops are done: the stream may go *)
Closed ==
    /\ source.done = "drops"
    /\ \A r \in Reads : fut[r] # NoFuture => fut[r].owner # "dropped"
    /\ source' = [source EXCEPT !.done = "closed", !.list = <<>>]
    /\ fut' = [r \in Reads |-> NoFuture]
    /\ UNCHANGED <<tasks, reader>>

-----------------------------------------------------------------------------
(* The calls of the stream *)

(* One returns data, the reader is then at position at *)
Returns(w, data, at) ==
    [w EXCEPT !.reader.call = NoCall, !.reader.at = at,
              !.reader.last = [kind |-> w.reader.call.kind, n |-> w.reader.call.n, at |-> w.reader.at,
                               data |-> data]]

(* ... the first n units of the buffer *)
Take(w, n) ==
    [Returns(w, SubSeq(w.reader.buf, 1, n), w.reader.at + n) EXCEPT !.reader.buf = DropFront(@, n)]

AtEnd(w) == Returns(w, <<>>, w.reader.at)

Read(w) ==
    CASE w.reader.eof -> AtEnd(w)
      [] ~w.reader.eof /\ w.reader.buf = <<>> -> GetMore(w)
      [] OTHER -> Take(w, Len(w.reader.buf))

ReadUpTo(w, n) ==
    CASE w.reader.buf # <<>> -> Take(w, Low(n, Len(w.reader.buf)))
      [] w.reader.buf = <<>> /\ w.reader.eof -> AtEnd(w)
      [] OTHER -> GetMore(w)

(* read_exactly_part() once some units, but too few, are there *)
ReadExactlyPart(w, n) ==
    LET now == Low(n - Len(w.reader.call.out), Len(w.reader.buf))
        out == w.reader.call.out \o SubSeq(w.reader.buf, 1, now)
        rest == [w EXCEPT !.reader.buf = DropFront(@, now), !.reader.call.out = out]
    IN  IF Len(out) = n THEN Returns(rest, out, w.reader.at + n) ELSE GetMore(rest)

ReadExactly(w, n) ==
    CASE w.reader.call.out = <<>> /\ Len(w.reader.buf) >= n -> Take(w, n)
      [] w.reader.call.out = <<>> /\ w.reader.buf = <<>> -> GetMore(w)
      [] OTHER -> ReadExactlyPart(w, n)

(* skip() of the stream: what it holds, and then of the source *)
SkipStream(w, n) ==
    LET here == Low(n, Len(w.reader.buf))
        rest == [w EXCEPT !.reader.buf = DropFront(@, here), !.reader.call.n = n - here,
                          !.reader.at = @ + here]
    IN  CASE n = here -> AtEnd(rest)
          [] n > here /\ w.source.plain -> GetMore(rest)
          [] OTHER -> SkipFile(rest, n - here)

(* consume(): the consumer gets the buffer, at the end an empty one.  It   *)
(* is done, with the units after the first k as remainder, or wants more,  *)
(* or answers later.                                                       *)
ConsumerDone(w, at, buf, k) ==
    [w EXCEPT !.reader.call = NoCall, !.reader.at = at + k, !.reader.buf = DropFront(buf, k),
              !.reader.last = [kind |-> "consume", n |-> k, at |-> at, data |-> SubSeq(buf, 1, k)]]

Consumer(w, at, buf) ==
    LET more == [w EXCEPT !.reader.buf = <<>>, !.reader.at = at + Len(buf),
                          !.reader.last = [kind |-> "consume", n |-> Len(buf), at |-> at, data |-> buf],
                          !.tasks = Append(@, <<"again", 0>>)]
    IN  {ConsumerDone(w, at, buf, k) : k \in 0 .. Len(buf)}
        \union {m \in {more} : ~w.reader.eof}
        \union {[more EXCEPT !.reader.call.later = TRUE]}

Consume(w) ==
    IF w.reader.buf = <<>> /\ ~w.reader.eof THEN {GetMore(w)}
    ELSE Consumer(w, w.reader.at, w.reader.buf)

(* The loop of consume() goes on, after a late answer or a full buffer *)
Again(w) ==
    IF w.reader.call.later
    THEN {ConsumerDone(w, w.reader.last.at, w.reader.last.data, k) : k \in 0 .. Len(w.reader.last.data)}
         \union Consume([w EXCEPT !.reader.call.later = FALSE])
    ELSE Consume(w)

Goes(w) ==
    LET call == w.reader.call
    IN  CASE call.kind = "read" -> {Read(w)}
          [] call.kind = "upto" -> {ReadUpTo(w, call.n)}
          [] call.kind = "exactly" -> {ReadExactly(w, call.n)}
          [] call.kind = "skip" -> {SkipStream(w, call.n)}
          [] call.kind = "consume" -> Consume(w)

(* A buffer has arrived; an empty one is the end *)
Skipped(w, data) ==
    \* data_source_impl::skip(): for ever at the end
    LET n == Low(w.reader.call.n, Len(data))
        rest == [w EXCEPT !.reader.call.n = @ - n, !.reader.at = @ + n]
    IN  IF n = w.reader.call.n THEN AtEnd([rest EXCEPT !.reader.buf = DropFront(data, n)])
        ELSE GetMore(rest)

Got(w, data) ==
    LET kind == w.reader.call.kind
        here == [w EXCEPT !.reader.buf = data,
                          !.reader.eof = (data = <<>>) \/ (@ /\ kind = "exactly")]
    IN  CASE kind = "skip" -> {Skipped(w, data)}
          [] kind = "read" -> {Take(here, Len(data))}
          [] kind = "exactly" /\ data = <<>> ->
                 \* what was copied so far is lost
                 {Returns(here, <<>>, w.reader.at + Len(w.reader.call.out))}
          [] kind = "consume" -> {[here EXCEPT !.tasks = Append(@, <<"again", 0>>)]}
          [] OTHER -> Goes(here)

GetFails(w) == {[w EXCEPT !.reader.failed = TRUE, !.reader.call = NoCall]}

World == [source |-> source, fut |-> fut, tasks |-> tasks, reader |-> reader]
Becomes(w) == source' = w.source /\ fut' = w.fut /\ tasks' = w.tasks /\ reader' = w.reader

Call(kind, n) ==
    /\ reader.call = NoCall /\ reader.crashed = "no" /\ ~reader.failed /\ source.done = "no"
    /\ reader.calls < MaxCalls
    /\ \E w \in Goes([World EXCEPT !.reader.calls = @ + 1,
                                    !.reader.call = [kind |-> kind, n |-> n, out |-> <<>>, later |-> FALSE]]) :
          Becomes(w)

Runs(w, kind, r) ==
    CASE kind = "read" -> {ReadDone(w, r)}
      [] kind = "trim" -> {TrimFront(w, r)}
      [] kind = "ignored" -> {[w EXCEPT !.fut[r] = NoFuture]}
      [] kind = "got" /\ w.fut[r].state = "value" -> Got([w EXCEPT !.fut[r] = NoFuture], w.fut[r].data)
      [] kind = "got" /\ w.fut[r].state = "failed" -> GetFails([w EXCEPT !.fut[r] = NoFuture])
      [] kind = "skipped" -> {Returns([w EXCEPT !.reader.buf = <<>>], <<>>, w.reader.at + w.reader.call.n)}
      [] kind = "again" -> Again(w)
      [] kind = "close" -> {CloseDone(w)}

InputTask ==
    /\ tasks # <<>> /\ reader.crashed = "no"
    /\ \E w \in Runs([World EXCEPT !.tasks = Tail(@)], Head(tasks)[1], Head(tasks)[2]) : Becomes(w)

Calls ==
    \/ \E n \in Amounts, kind \in {"upto", "exactly", "skip"} : Call(kind, n)
    \/ \E kind \in {"read", "consume"} : Call(kind, 0)

InputNext == Calls \/ InputTask \/ (\E r \in Reads : KernelReads(r)) \/ CloseStream \/ Closed

(* Nothing is left to happen *)
InputDone == source.done = "closed" \/ reader.crashed # "no"

-----------------------------------------------------------------------------
(* Properties *)

(* The data a call returned is what the file has where the reader was;     *)
(* read_exactly() gives all it was asked for, unless fewer units were      *)
(* left; and an empty buffer means the end of what was opened.             *)
DataInOrder ==
    LET last == reader.last
        got == Len(last.data)
        rest == High(reader.end - last.at, 0)
    IN  last # NoCall =>
            /\ last.data = Units(last.at, last.at + got)
            /\ got <= rest
            /\ last.kind = "upto" => got <= last.n
            /\ last.kind = "exactly" => got = last.n \/ (got = 0 /\ rest < last.n)
            /\ last.kind \in {"read", "upto"} /\ got = 0 => rest = 0

(* A reader that was told of the end is at it *)
EndIsTheEnd == reader.eof /\ reader.buf = <<>> => reader.at >= reader.end

(* Reads that are under way are counted, read ahead no further than the    *)
(* limit, and a stream that is closed has none.                            *)
ReadsCounted ==
    /\ source.inProgress = Cardinality({r \in Reads : fut[r].state \in {"kernel", "arrived", "refused"}})
    /\ Len(source.list) <= source.most + 1
    /\ source.done = "closed" => source.inProgress = 0

(* A call, or close(), never waits for nothing.                            *)
NothingHangs ==
    (reader.call # NoCall \/ source.done = "asked") /\ reader.crashed = "no" /\ tasks = <<>>
        => \E r \in Reads : fut[r].state = "kernel"

(* It stops only where the code has no answer: the caller skips further    *)
(* than the length it gave, or than the file goes within a read that is    *)
(* issued, or it closes the stream while a read it cut is under way.       *)
StopsWhereStated ==
    /\ reader.crashed = "pending" => reader.cut
    /\ reader.crashed = "underflow" =>
           FileSize < IF reader.call = NoCall THEN reader.at ELSE reader.at + reader.call.n

(* input_stream hands out the file's data in order and without a gap,      *)
(* whatever is skipped, dropped or read ahead, and closes after the reads  *)
(* it issued.                                                              *)
InputExact == DataInOrder /\ EndIsTheEnd /\ ReadsCounted /\ NothingHangs /\ StopsWhereStated

=============================================================================
