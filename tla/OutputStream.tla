---------------------------- MODULE OutputStream ----------------------------
(***************************************************************************)
(* output_stream<char> with batched flushes (stream.hh), as sockets use    *)
(* it: flush() only marks the stream and puts it in the reactor's list,    *)
(* and the flush poller writes the buffer later, beside the fiber that     *)
(* goes on writing.                                                        *)
(*                                                                         *)
(* A stream is a record.  Its data are the units 1, 2, 3... in the order   *)
(* of the calls of write().  byFlush and byWriter are the puts in progress *)
(* on the sink, by poll_flush() and by the writing fiber; held waits in    *)
(* put() for the flush to end, next is the second put of a long write.     *)
(***************************************************************************)
EXTENDS Naturals, Sequences

CONSTANT BufferSize     \* _size, in units

ASSUME BufferSizeAssumption == BufferSize \in Nat \ {0}

NewStream ==
    [units |-> 0,           \* written so far
     buffer |-> <<>>,       \* _buf up to _end
     flush |-> FALSE,       \* _flush
     flushing |-> FALSE,    \* _flushing
     inBatch |-> FALSE,     \* _in_batch is engaged
     failed |-> FALSE,      \* _ex
     byFlush |-> <<>>,
     byWriter |-> <<>>,
     held |-> <<>>,
     next |-> <<>>]

(* In the reactor's _flush_batching.                                       *)
Listed(s) == s.inBatch /\ ~s.flushing

-----------------------------------------------------------------------------
(* put(): cancels a flush that is scheduled, so that it does not write in  *)
(* parallel, and waits for one that is in progress.                        *)

Put(s, data) ==
    IF s.flushing THEN [s EXCEPT !.flush = FALSE, !.held = data]
    ELSE [s EXCEPT !.flush = FALSE, !.byWriter = data]

(* write(): what fits is buffered, what does not fills the buffer and puts *)
(* it; a long write then puts the rest too, without buffering it.          *)
Write(s, n) ==
    LET data == [i \in 1 .. n |-> s.units + i]
        end == Len(s.buffer)
        now == BufferSize - end
        threshold == IF end > 0 THEN 2 * BufferSize - end ELSE BufferSize
        filled == s.buffer \o SubSeq(data, 1, now)
        rest == SubSeq(data, now + 1, n)
        t == [s EXCEPT !.units = @ + n]
    IN  CASE n >= threshold /\ end = 0 -> Put(t, data)
          [] n >= threshold /\ end > 0 ->
                Put([t EXCEPT !.buffer = <<>>, !.next = rest], filled)
          [] n < threshold /\ n <= now -> [t EXCEPT !.buffer = @ \o data]
          [] n < threshold /\ n > now ->
                Put([t EXCEPT !.buffer = rest], filled)

(* The writing fiber waits for the flush and for its puts.                 *)
Writing(s) == s.held # <<>> \/ s.byWriter # <<>> \/ s.next # <<>>

CanPutHeld(s) == s.held # <<>> /\ ~s.inBatch

PutHeld(s) == [s EXCEPT !.byWriter = s.held, !.held = <<>>]

(* A put of the writer ends: the rest of a long write follows, a failure   *)
(* reaches the caller of write().                                          *)
WriterPutDone(s) ==
    LET t == [s EXCEPT !.byWriter = <<>>, !.next = <<>>]
    IN  IF s.next = <<>> THEN t ELSE Put(t, s.next)

WriterPutFailed(s) == [s EXCEPT !.byWriter = <<>>, !.next = <<>>]

-----------------------------------------------------------------------------
(* flush() delivers an error of an earlier flush, or schedules one.        *)
FlushFails(s) == s.failed

Flush(s) ==
    IF s.failed THEN [s EXCEPT !.failed = FALSE]
    ELSE [s EXCEPT !.flush = TRUE, !.inBatch = TRUE]

(* Wrong on purpose, as the name says: a plausible mistake in the         *)
(* definition after it, which a property catches.                          *)
PollFlush_mut(s) ==
    IF s.flush
    THEN [s EXCEPT !.flush = FALSE, !.flushing = TRUE,
                   !.byFlush = s.buffer]
    ELSE [s EXCEPT !.flushing = FALSE, !.inBatch = FALSE]

(* poll_flush(): called by the flush poller for a listed stream, and again *)
(* at the end of each flush.                                               *)
PollFlush(s) ==
    IF s.flush
    THEN [s EXCEPT !.flush = FALSE, !.flushing = TRUE,
                   !.byFlush = s.buffer, !.buffer = <<>>]
    ELSE [s EXCEPT !.flushing = FALSE, !.inBatch = FALSE]

FlushDone(s) == PollFlush([s EXCEPT !.byFlush = <<>>])

FlushPutFailed(s) == PollFlush([s EXCEPT !.byFlush = <<>>, !.failed = TRUE])

-----------------------------------------------------------------------------
(* What write() was given and the sink has not taken, in the order in      *)
(* which it will.                                                          *)
Unsent(s) == s.byFlush \o s.byWriter \o s.held \o s.next \o s.buffer

OnePut(s) == s.byFlush = <<>> \/ s.byWriter = <<>>

=============================================================================
