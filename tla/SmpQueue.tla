------------------------------ MODULE SmpQueue ------------------------------
(***************************************************************************)
(* One smp_message_queue (smp.hh, future_all12.cc): the requests reactor   *)
(* "from" submits to reactor "to", and the answers that come back.         *)
(*                                                                         *)
(* submit() -> pending_fifo -> [_pending ring] -> process() on "to" ->     *)
(* respond() -> _completed_fifo -> [_completed ring] -> complete() and     *)
(* delete on "from".  Items move between the two threads through two rings *)
(* (SpscRing implements the BoundedFifo each of them is here); each thread *)
(* handles them in batches, one push or pop per step, so that the other    *)
(* thread may act in the middle of a batch.                                *)
(*                                                                         *)
(* Work items are numbered in the order they are submitted.  What an item  *)
(* computes is left out; so is maybe_wakeup(), which ReactorSleep models.  *)
(***************************************************************************)
EXTENDS Integers, Sequences, FiniteSets

CONSTANTS
    MaxItems,      \* bound: how many items are ever submitted
    QueueLength,   \* queue_length: slots of a ring, one of them always free
    BatchSize,     \* batch_size
    PrefetchCnt    \* prefetch_cnt, as process_incoming() uses it

ASSUME ConstantsAssumption ==
    /\ MaxItems \in Nat
    /\ QueueLength \in Nat \ {0, 1}
    /\ BatchSize \in Nat \ {0}
    /\ PrefetchCnt \in Nat

VARIABLES
    submitted,            \* how many items have been submitted
    pending_fifo,         \* _tx.a.pending_fifo
    pending,              \* the _pending ring
    completed_fifo,       \* _completed_fifo
    completed,            \* the _completed ring
    executing,            \* items whose process() was called and whose
                          \* respond() continuation has not run
    started,              \* the items in the order process() was called
    resolved,             \* items whose promise is set; they are deleted
    txPc, rxPc,           \* where the sending and the receiving thread are
    txMoved, rxMoved,     \* items the push() of a batch has put in the ring
    txBatch, rxBatch,     \* items process_queue() popped and did not process
    txTaken, rxTaken,     \* how many it popped
    sent, compl, queueLen,    \* _sent, _compl, _current_queue_length
    received                  \* _received

fromVars == <<submitted, pending_fifo, txPc, txMoved, txBatch, txTaken, resolved>>
toVars == <<completed_fifo, executing, started, rxPc, rxMoved, rxBatch, rxTaken>>
counters == <<sent, compl, queueLen, received>>
vars == <<fromVars, pending, toVars, completed, counters>>

Items == 1 .. MaxItems
RingRoom == QueueLength - 1

(* process_queue(): an item in a variable of its own, then as many as fit  *)
(* into items[queue_length + PrefetchCnt].                                 *)
ArrayRoom(prefetch) == QueueLength + prefetch

(* Operators whose names end in _mut are wrong on purpose: each is a        *)
(* plausible mistake in the definition after it that a property catches.   *)

Drop(s, n) == SubSeq(s, n + 1, Len(s))

Init ==
    /\ submitted = 0
    /\ pending_fifo = <<>> /\ pending = <<>>
    /\ completed_fifo = <<>> /\ completed = <<>>
    /\ executing = {} /\ started = <<>> /\ resolved = {}
    /\ txPc = "idle" /\ txMoved = 0 /\ txBatch = <<>> /\ txTaken = 0
    /\ rxPc = "idle" /\ rxMoved = 0 /\ rxBatch = <<>> /\ rxTaken = 0
    /\ sent = 0 /\ compl = 0 /\ queueLen = 0 /\ received = 0

-----------------------------------------------------------------------------
(* The sending reactor: submit_item(), and its half of poll_queues():      *)
(* flush_request_batch(), then process_completions()                       *)

Submit_mut ==
    /\ txPc = "idle"
    /\ submitted < MaxItems
    /\ submitted' = submitted + 1
    /\ pending_fifo' = <<submitted'>> \o pending_fifo
    /\ txPc' = IF Len(pending_fifo') >= BatchSize THEN "moving" ELSE "idle"
    /\ UNCHANGED <<txMoved, txBatch, txTaken, resolved, pending, completed>>
    /\ UNCHANGED <<toVars, counters>>

Submit ==
    /\ txPc = "idle"
    /\ submitted < MaxItems
    /\ submitted' = submitted + 1
    /\ pending_fifo' = Append(pending_fifo, submitted')
    /\ txPc' = IF Len(pending_fifo') >= BatchSize THEN "moving" ELSE "idle"
    /\ UNCHANGED <<txMoved, txBatch, txTaken, resolved, pending, completed>>
    /\ UNCHANGED <<toVars, counters>>

PollTx_mut ==
    /\ txPc = "idle"
    /\ txPc' = "popping"
    /\ UNCHANGED <<submitted, pending_fifo, txMoved, txBatch, txTaken, resolved>>
    /\ UNCHANGED <<pending, completed, toVars, counters>>

PollTx ==
    /\ txPc = "idle"
    /\ txPc' = IF pending_fifo = <<>> THEN "popping" ELSE "flushing"
    /\ UNCHANGED <<submitted, pending_fifo, txMoved, txBatch, txTaken, resolved>>
    /\ UNCHANGED <<pending, completed, toVars, counters>>

(* move_pending(): _pending.push(begin, end) item after item, then erase   *)
(* what was pushed and count it.                                           *)
MoveItem ==
    /\ txPc \in {"moving", "flushing"}
    /\ txMoved < Len(pending_fifo)
    /\ Len(pending) < RingRoom
    /\ pending' = Append(pending, pending_fifo[txMoved + 1])
    /\ txMoved' = txMoved + 1
    /\ UNCHANGED <<submitted, pending_fifo, txPc, txBatch, txTaken, resolved>>
    /\ UNCHANGED <<completed, toVars, counters>>

MoveDone_mut ==
    /\ txPc \in {"moving", "flushing"}
    /\ txMoved = Len(pending_fifo) \/ Len(pending) = RingRoom
    /\ pending_fifo' = Drop(pending_fifo, txMoved)
    /\ sent' = sent + txMoved
    /\ queueLen' = queueLen + Len(pending_fifo)
    /\ txMoved' = 0
    /\ txPc' = IF txPc = "moving" THEN "idle" ELSE "popping"
    /\ UNCHANGED <<submitted, txBatch, txTaken, resolved, pending, completed>>
    /\ UNCHANGED <<toVars, compl, received>>

MoveDone ==
    /\ txPc \in {"moving", "flushing"}
    /\ txMoved = Len(pending_fifo) \/ Len(pending) = RingRoom
    /\ pending_fifo' = Drop(pending_fifo, txMoved)
    /\ sent' = sent + txMoved
    /\ queueLen' = queueLen + txMoved
    /\ txMoved' = 0
    /\ txPc' = IF txPc = "moving" THEN "idle" ELSE "popping"
    /\ UNCHANGED <<submitted, txBatch, txTaken, resolved, pending, completed>>
    /\ UNCHANGED <<toVars, compl, received>>

(* process_queue(_completed): pop until the ring is empty or the array is  *)
(* full, then complete() and delete each item.                             *)
PopCompletion ==
    /\ txPc = "popping"
    /\ completed # <<>>
    /\ txTaken < 1 + ArrayRoom(2 * PrefetchCnt)
    /\ txBatch' = Append(txBatch, Head(completed))
    /\ txTaken' = txTaken + 1
    /\ completed' = Tail(completed)
    /\ UNCHANGED <<submitted, pending_fifo, txPc, txMoved, resolved>>
    /\ UNCHANGED <<pending, toVars, counters>>

PopCompletionsDone ==
    /\ txPc = "popping"
    /\ completed = <<>> \/ txTaken = 1 + ArrayRoom(2 * PrefetchCnt)
    /\ txPc' = "completing"
    /\ UNCHANGED <<submitted, pending_fifo, txMoved, txBatch, txTaken, resolved>>
    /\ UNCHANGED <<pending, completed, toVars, counters>>

CompleteItem ==
    /\ txPc = "completing"
    /\ txBatch # <<>>
    /\ resolved' = resolved \union {Head(txBatch)}
    /\ txBatch' = Tail(txBatch)
    /\ UNCHANGED <<submitted, pending_fifo, txPc, txMoved, txTaken>>
    /\ UNCHANGED <<pending, completed, toVars, counters>>

CompletionsDone ==
    /\ txPc = "completing"
    /\ txBatch = <<>>
    /\ queueLen' = queueLen - txTaken
    /\ compl' = compl + txTaken
    /\ txTaken' = 0
    /\ txPc' = "idle"
    /\ UNCHANGED <<submitted, pending_fifo, txMoved, txBatch, resolved>>
    /\ UNCHANGED <<pending, completed, toVars, sent, received>>

-----------------------------------------------------------------------------
(* The receiving reactor: respond(), and its half of poll_queues():        *)
(* flush_response_batch(), then process_incoming()                         *)

(* Requests finish in any order; the continuation that responds is a task  *)
(* of its own, however early process() finishes.                           *)
Respond(item) ==
    /\ rxPc = "idle"
    /\ item \in executing
    /\ executing' = executing \ {item}
    /\ completed_fifo' = Append(completed_fifo, item)
    /\ rxPc' = IF Len(completed_fifo') >= BatchSize THEN "moving" ELSE "idle"
    /\ UNCHANGED <<started, rxMoved, rxBatch, rxTaken, pending, completed>>
    /\ UNCHANGED <<fromVars, counters>>

PollRx ==
    /\ rxPc = "idle"
    /\ rxPc' = IF completed_fifo = <<>> THEN "popping" ELSE "flushing"
    /\ UNCHANGED <<completed_fifo, executing, started, rxMoved, rxBatch, rxTaken>>
    /\ UNCHANGED <<pending, completed, fromVars, counters>>

FlushItem ==
    /\ rxPc \in {"moving", "flushing"}
    /\ rxMoved < Len(completed_fifo)
    /\ Len(completed) < RingRoom
    /\ completed' = Append(completed, completed_fifo[rxMoved + 1])
    /\ rxMoved' = rxMoved + 1
    /\ UNCHANGED <<completed_fifo, executing, started, rxPc, rxBatch, rxTaken>>
    /\ UNCHANGED <<pending, fromVars, counters>>

FlushDone_mut ==
    /\ rxPc \in {"moving", "flushing"}
    /\ rxMoved = Len(completed_fifo) \/ Len(completed) = RingRoom
    /\ completed_fifo' = <<>>
    /\ rxMoved' = 0
    /\ rxPc' = IF rxPc = "moving" THEN "idle" ELSE "popping"
    /\ UNCHANGED <<executing, started, rxBatch, rxTaken, pending, completed>>
    /\ UNCHANGED <<fromVars, counters>>

FlushDone ==
    /\ rxPc \in {"moving", "flushing"}
    /\ rxMoved = Len(completed_fifo) \/ Len(completed) = RingRoom
    /\ completed_fifo' = Drop(completed_fifo, rxMoved)
    /\ rxMoved' = 0
    /\ rxPc' = IF rxPc = "moving" THEN "idle" ELSE "popping"
    /\ UNCHANGED <<executing, started, rxBatch, rxTaken, pending, completed>>
    /\ UNCHANGED <<fromVars, counters>>

PopRequest ==
    /\ rxPc = "popping"
    /\ pending # <<>>
    /\ rxTaken < 1 + ArrayRoom(PrefetchCnt)
    /\ rxBatch' = Append(rxBatch, Head(pending))
    /\ rxTaken' = rxTaken + 1
    /\ pending' = Tail(pending)
    /\ UNCHANGED <<completed_fifo, executing, started, rxPc, rxMoved>>
    /\ UNCHANGED <<completed, fromVars, counters>>

PopRequestsDone ==
    /\ rxPc = "popping"
    /\ pending = <<>> \/ rxTaken = 1 + ArrayRoom(PrefetchCnt)
    /\ rxPc' = "processing"
    /\ UNCHANGED <<completed_fifo, executing, started, rxMoved, rxBatch, rxTaken>>
    /\ UNCHANGED <<pending, completed, fromVars, counters>>

ProcessItem ==
    /\ rxPc = "processing"
    /\ rxBatch # <<>>
    /\ executing' = executing \union {Head(rxBatch)}
    /\ started' = Append(started, Head(rxBatch))
    /\ rxBatch' = Tail(rxBatch)
    /\ UNCHANGED <<completed_fifo, rxPc, rxMoved, rxTaken>>
    /\ UNCHANGED <<pending, completed, fromVars, counters>>

RequestsDone ==
    /\ rxPc = "processing"
    /\ rxBatch = <<>>
    /\ received' = received + rxTaken
    /\ rxTaken' = 0
    /\ rxPc' = "idle"
    /\ UNCHANGED <<completed_fifo, executing, started, rxMoved, rxBatch>>
    /\ UNCHANGED <<pending, completed, fromVars, sent, compl, queueLen>>

-----------------------------------------------------------------------------
Sender ==
    \/ PollTx \/ MoveItem \/ MoveDone
    \/ PopCompletion \/ PopCompletionsDone \/ CompleteItem \/ CompletionsDone

Receiver ==
    \/ PollRx \/ FlushItem \/ FlushDone
    \/ PopRequest \/ PopRequestsDone \/ ProcessItem \/ RequestsDone

Next ==
    \/ Submit
    \/ Sender
    \/ Receiver
    \/ \E item \in Items : Respond(item)

Spec == Init /\ [][Next]_vars

(* Both reactors go on polling.  What a request waits for happens, and the *)
(* continuation that responds then gets its turn between two polls, as     *)
(* every task does (run_tasks()).                                          *)
Fairness ==
    /\ WF_vars(Sender)
    /\ WF_vars(Receiver)
    /\ \A item \in Items : SF_vars(Respond(item))

FairSpec == Spec /\ Fairness

-----------------------------------------------------------------------------
Pcs == {"idle", "moving", "flushing", "popping"}

TypeOK ==
    /\ submitted \in 0 .. MaxItems
    /\ pending_fifo \in Seq(Items) /\ pending \in Seq(Items)
    /\ completed_fifo \in Seq(Items) /\ completed \in Seq(Items)
    /\ Len(pending) <= RingRoom /\ Len(completed) <= RingRoom
    /\ executing \subseteq Items /\ resolved \subseteq Items
    /\ started \in Seq(Items)
    /\ txPc \in Pcs \union {"completing"} /\ rxPc \in Pcs \union {"processing"}
    /\ txMoved \in 0 .. Len(pending_fifo) /\ rxMoved \in 0 .. Len(completed_fifo)
    /\ txBatch \in Seq(Items) /\ rxBatch \in Seq(Items)
    /\ txTaken \in Nat /\ rxTaken \in Nat
    /\ sent \in Nat /\ compl \in Nat /\ queueLen \in Nat /\ received \in Nat

(* Requests start on the other reactor in the order they were submitted,   *)
(* none skipped and none twice, through every partial flush of a full ring. *)
StartedInOrder ==
    started \o rxBatch \o pending \o Drop(pending_fifo, txMoved)
        = [i \in 1 .. submitted |-> i]

(* A work item is in exactly one place from submit() until it is deleted:  *)
(* it is never lost, and never used after the delete in                    *)
(* process_completions().                                                  *)
OnTheWay ==
    Drop(pending_fifo, txMoved) \o pending \o rxBatch
        \o Drop(completed_fifo, rxMoved) \o completed \o txBatch

ExactlyOnePlace ==
    /\ {OnTheWay[i] : i \in DOMAIN OnTheWay} \union executing \union resolved
           = 1 .. submitted
    /\ Len(OnTheWay) + Cardinality(executing) + Cardinality(resolved) = submitted

(* The statistics agree with where the items are: _current_queue_length is *)
(* the number of items handed to the other reactor and not completed,      *)
(* whenever the sender is not inside one of its batches, and the unsigned  *)
(* counter never wraps.                                                    *)
QueueLengthExact ==
    /\ sent + Len(pending_fifo) = submitted
    /\ queueLen = sent - compl /\ queueLen >= 0
    /\ txPc = "idle" => queueLen =
          Len(pending) + Len(rxBatch) + Cardinality(executing)
              + (Len(completed_fifo) - rxMoved) + Len(completed)
    /\ rxPc = "idle" => received = Len(started)

(* The fill of the prefetch slots stays inside items[].                    *)
FillInArray ==
    /\ rxPc = "processing" => (rxTaken - 1) + PrefetchCnt <= ArrayRoom(PrefetchCnt)
    /\ txPc = "completing" => (txTaken - 1) + 2 * PrefetchCnt <= ArrayRoom(2 * PrefetchCnt)

(* Every request is answered, if what it waits for happens: the rings may  *)
(* be full and the batches partly flushed, nothing gets stuck.             *)
Answered == \A item \in Items : (item <= submitted) ~> (item \in resolved)
=============================================================================
