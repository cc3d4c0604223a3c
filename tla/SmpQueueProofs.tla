--------------------------- MODULE SmpQueueProofs ---------------------------
(***************************************************************************)
(* Proofs about SmpQueue, for every queue length, batch size and prefetch  *)
(* count, and for any number of items.                                     *)
(*                                                                         *)
(* StartedInOrder is an equality of concatenations; what the provers can   *)
(* use is its form by index: each of the sequences an item goes through    *)
(* holds a run of consecutive numbers that starts where the one ahead of   *)
(* it ends (InRuns).  QueueLengthExact holds between batches only; inside  *)
(* them the items already moved, or popped and not yet counted, make up    *)
(* the difference (Counted).                                               *)
(*                                                                         *)
(* ExactlyOnePlace rests on the way back (Back): the three sequences an    *)
(* answer passes on its way to complete() are one queue in which flushes   *)
(* and pops move nothing.  That no item is in two places at once is not a  *)
(* part of the invariant: as many places as items, and every item in one   *)
(* of them, leave none for a second (Accounted).                           *)
(***************************************************************************)
EXTENDS SmpQueue, SequenceTheorems, FiniteSetTheorems, TLAPS

(* seq counts up from the number after "from".                             *)
CountsFrom(seq, from) == \A i \in 1 .. Len(seq) : seq[i] = from + i

Reached == Len(started)
Popped == Reached + Len(rxBatch)
Sent == Popped + Len(pending)

InRuns ==
    /\ CountsFrom(started, 0)
    /\ CountsFrom(rxBatch, Reached)
    /\ CountsFrom(pending, Popped)
    /\ \A i \in txMoved + 1 .. Len(pending_fifo) :
           pending_fifo[i] = Sent + (i - txMoved)
    /\ submitted = Sent + (Len(pending_fifo) - txMoved)

(* What the batch variables hold outside of their batch.                   *)
BatchesReset ==
    /\ txPc \notin {"moving", "flushing"} => txMoved = 0
    /\ txPc \notin {"popping", "completing"} => txTaken = 0
    /\ rxPc \notin {"moving", "flushing"} => rxMoved = 0
    /\ rxPc \notin {"popping", "processing"} => rxTaken = 0 /\ rxBatch = <<>>

ExecutingStarted == executing \subseteq 1 .. Reached

(* The items the other reactor has and those on their way back from it.    *)
Handed == Len(pending) + Len(rxBatch) + Cardinality(executing)
Returning == (Len(completed_fifo) - rxMoved) + Len(completed) + txTaken

Counted ==
    /\ sent + Len(pending_fifo) = submitted
    /\ queueLen = sent - compl
    /\ queueLen + txMoved = Handed + Returning
    /\ received + rxTaken = Reached + Len(rxBatch)

IInv == TypeOK /\ InRuns /\ BatchesReset /\ ExecutingStarted /\ Counted
-----------------------------------------------------------------------------
LEMMA AppendSeq ==
    ASSUME NEW S, NEW s \in Seq(S), NEW x \in S
    PROVE  /\ Append(s, x) \in Seq(S)
           /\ Len(Append(s, x)) = Len(s) + 1
           /\ \A i \in 1 .. Len(s) : Append(s, x)[i] = s[i]
           /\ Append(s, x)[Len(s) + 1] = x
BY AppendProperties

(* A run of numbers with the next one appended is a run.                   *)
LEMMA OneMore ==
    ASSUME NEW n \in Nat, NEW from \in Nat, NEW s, NEW t,
           \A i \in 1 .. n : s[i] = from + i,
           \A i \in 1 .. n : t[i] = s[i],
           t[n + 1] = from + (n + 1)
    PROVE  \A i \in 1 .. n + 1 : t[i] = from + i
<1> SUFFICES ASSUME NEW i \in 1 .. n + 1 PROVE t[i] = from + i
  OBVIOUS
<1>1. CASE i \in 1 .. n
  BY <1>1
<1>2. CASE i = n + 1
  BY <1>2
<1> QED BY <1>1, <1>2

LEMMA HeadTail ==
    ASSUME NEW S, NEW s \in Seq(S), s # <<>>
    PROVE  /\ Head(s) \in S /\ Head(s) = s[1]
           /\ Tail(s) \in Seq(S) /\ Len(s) > 0
           /\ Len(Tail(s)) = Len(s) - 1
           /\ \A i \in 1 .. Len(s) - 1 : Tail(s)[i] = s[i + 1]
BY HeadTailProperties

LEMMA DropSeq ==
    ASSUME NEW S, NEW s \in Seq(S), NEW n \in 0 .. Len(s)
    PROVE  /\ Drop(s, n) \in Seq(S)
           /\ Len(Drop(s, n)) = Len(s) - n
           /\ \A i \in 1 .. Len(s) - n : Drop(s, n)[i] = s[n + i]
<1>1. Len(s) \in Nat /\ \A i \in n + 1 .. Len(s) : s[i] \in S
  BY ElementOfSeq
<1> QED BY <1>1, SubSeqProperties DEF Drop

(* Two runs, the second starting where the first ends, make one.           *)
LEMMA ConcatCounts ==
    ASSUME NEW s \in Seq(Items), NEW t \in Seq(Items),
           CountsFrom(s, 0), CountsFrom(t, Len(s))
    PROVE  /\ s \o t \in Seq(Items) /\ Len(s \o t) = Len(s) + Len(t)
           /\ CountsFrom(s \o t, 0)
<1> DEFINE st == s \o t
<1>1. /\ st \in Seq(Items) /\ Len(st) = Len(s) + Len(t)
      /\ \A i \in 1 .. Len(s) + Len(t) :
             st[i] = IF i <= Len(s) THEN s[i] ELSE t[i - Len(s)]
  BY ConcatProperties
<1>2. Len(s) \in Nat /\ Len(t) \in Nat
  OBVIOUS
<1> HIDE DEF st
<1>3. ASSUME NEW i \in 1 .. Len(s) + Len(t) PROVE st[i] = 0 + i
  <2>1. CASE i <= Len(s)
    BY <1>1, <1>2, <2>1 DEF CountsFrom
  <2>2. CASE i > Len(s)
    <3>1. i - Len(s) \in 1 .. Len(t) /\ Len(s) + (i - Len(s)) = i
      BY <1>2, <2>2
    <3>2. t[i - Len(s)] = i
      BY <3>1 DEF CountsFrom
    <3>3. st[i] = t[i - Len(s)]
      BY <1>1, <1>2, <2>2
    <3> QED BY <3>2, <3>3
  <2> QED BY <1>2, <2>1, <2>2
<1>4. CountsFrom(st, 0)
  BY <1>1, <1>3 DEF CountsFrom
<1> QED BY <1>1, <1>4 DEF st

LEMMA InitIInv == Init => IInv
<1> SUFFICES ASSUME Init PROVE IInv
  OBVIOUS
<1> USE DEF Init
<1>1. TypeOK
  BY ConstantsAssumption DEF TypeOK, Pcs, RingRoom
<1>2. InRuns
  BY DEF InRuns, CountsFrom, Reached, Popped, Sent
<1>3. BatchesReset /\ ExecutingStarted
  BY DEF BatchesReset, ExecutingStarted
<1>4. Counted
  BY FS_EmptySet DEF Counted, Reached, Handed, Returning
<1> QED BY <1>1, <1>2, <1>3, <1>4 DEF IInv

(* What the arithmetic below needs of the types.                           *)
Numeric ==
    /\ Len(pending_fifo) \in Nat /\ Len(pending) \in Nat
    /\ Len(completed_fifo) \in Nat /\ Len(completed) \in Nat
    /\ Len(rxBatch) \in Nat /\ submitted \in Nat
    /\ txMoved \in Nat /\ txMoved <= Len(pending_fifo)
    /\ rxMoved \in Nat /\ rxMoved <= Len(completed_fifo)
    /\ txTaken \in Nat /\ rxTaken \in Nat
    /\ sent \in Nat /\ compl \in Nat /\ queueLen \in Nat /\ received \in Nat
    /\ IsFiniteSet(executing) /\ Cardinality(executing) \in Nat
    /\ Reached \in Nat /\ Popped \in Nat /\ Sent \in Nat
    /\ Handed \in Nat /\ Returning \in Nat

LEMMA NumericFromTypes == ASSUME TypeOK PROVE Numeric
<1>1. IsFiniteSet(Items)
  BY FS_Interval, ConstantsAssumption DEF Items
<1>2. IsFiniteSet(executing)
  BY <1>1, FS_Subset DEF TypeOK
<1>3. Cardinality(executing) \in Nat
  BY <1>2, FS_CardinalityType
<1>4. /\ Len(pending_fifo) \in Nat /\ Len(pending) \in Nat
      /\ Len(completed_fifo) \in Nat /\ Len(completed) \in Nat
      /\ Len(rxBatch) \in Nat /\ Reached \in Nat
  BY DEF TypeOK, Reached
<1>5. /\ submitted \in Nat
      /\ txMoved \in Nat /\ txMoved <= Len(pending_fifo)
      /\ rxMoved \in Nat /\ rxMoved <= Len(completed_fifo)
  BY <1>4, ConstantsAssumption DEF TypeOK
<1>6. /\ txTaken \in Nat /\ rxTaken \in Nat
      /\ sent \in Nat /\ compl \in Nat /\ queueLen \in Nat /\ received \in Nat
  BY DEF TypeOK
<1>7. Popped \in Nat /\ Popped + Len(pending) \in Nat
  BY ONLY <1>4 DEF Popped
<1>8. Handed \in Nat
  BY ONLY <1>3, <1>4 DEF Handed
<1>9. Returning \in Nat
  BY ONLY <1>4, <1>5, <1>6 DEF Returning
<1> QED BY <1>2, <1>3, <1>4, <1>5, <1>6, <1>7, <1>8, <1>9 DEF Numeric, Sent

LEMMA Parts ==
    IInv => TypeOK /\ InRuns /\ BatchesReset /\ ExecutingStarted /\ Counted /\ Numeric
BY NumericFromTypes DEF IInv

(* What the steps that leave these variables alone keep.                   *)
LEMMA InRunsFrame ==
    ASSUME InRuns,
           UNCHANGED <<started, rxBatch, pending, pending_fifo, txMoved, submitted>>
    PROVE  InRuns'
BY DEF InRuns, CountsFrom, Reached, Popped, Sent

LEMMA CountedFrame ==
    ASSUME Counted, Handed' = Handed, Returning' = Returning,
           UNCHANGED <<started, rxBatch, rxTaken, received, pending_fifo, txMoved,
                       submitted, sent, compl, queueLen>>
    PROVE  Counted'
BY DEF Counted, Reached

(* One lemma for each action that changes more than where a thread is:     *)
(* first what it does to the sequences, then the parts of the invariant.   *)
LEMMA SubmitStep == ASSUME IInv, Submit PROVE IInv'
<1>0. TypeOK /\ InRuns /\ BatchesReset /\ ExecutingStarted /\ Counted /\ Numeric
  BY Parts
<1>1. /\ submitted' = submitted + 1 /\ submitted < MaxItems
      /\ UNCHANGED <<txMoved, txTaken, pending, completed, started, rxBatch>>
      /\ UNCHANGED <<executing, completed_fifo, rxMoved, rxTaken>>
      /\ UNCHANGED <<sent, compl, queueLen, received>>
  BY DEF Submit, toVars, counters
<1>2. submitted' \in Items /\ submitted' \in 0 .. MaxItems
  BY <1>0, <1>1, ConstantsAssumption DEF Items, Numeric
<1>3. /\ pending_fifo' \in Seq(Items) /\ Len(pending_fifo') = Len(pending_fifo) + 1
      /\ \A i \in 1 .. Len(pending_fifo) : pending_fifo'[i] = pending_fifo[i]
      /\ pending_fifo'[Len(pending_fifo) + 1] = submitted'
  BY <1>0, <1>2, AppendSeq DEF TypeOK, Submit
<1>4. txPc' \in Pcs /\ txPc = "idle" /\ txMoved = 0
  BY <1>0 DEF BatchesReset, Pcs, Submit
<1>5. TypeOK'
  BY <1>0, <1>1, <1>2, <1>3, <1>4 DEF TypeOK, Numeric, Submit, toVars, counters
<1>6. Reached' = Reached /\ Popped' = Popped /\ Sent' = Sent
  BY <1>1 DEF Reached, Popped, Sent
<1>7. InRuns'
  <2>1. /\ CountsFrom(started, 0)'
        /\ CountsFrom(rxBatch, Reached)'
        /\ CountsFrom(pending, Popped)'
    BY <1>0, <1>1, <1>6 DEF InRuns, CountsFrom
  <2>2. submitted = Sent + Len(pending_fifo)
    BY <1>0, <1>4 DEF InRuns, Numeric
  <2>3. \A i \in 1 .. Len(pending_fifo) : pending_fifo[i] = Sent + i
    BY <1>0, <1>4 DEF InRuns, Numeric
  <2>4. \A i \in 1 .. Len(pending_fifo') : pending_fifo'[i] = Sent + i
    <3>1. pending_fifo'[Len(pending_fifo) + 1] = Sent + (Len(pending_fifo) + 1)
      BY <1>0, <1>1, <1>3, <2>2 DEF Numeric
    <3>2. \A i \in 1 .. Len(pending_fifo) + 1 : pending_fifo'[i] = Sent + i
      <4>1. Sent \in Nat /\ Len(pending_fifo) \in Nat
        BY <1>0 DEF Numeric
      <4>2. ASSUME NEW i \in 1 .. Len(pending_fifo)
            PROVE  pending_fifo'[i] = Sent + i
        BY <1>3, <2>3
      <4>3. 1 .. Len(pending_fifo) + 1
                = (1 .. Len(pending_fifo)) \union {Len(pending_fifo) + 1}
        BY <4>1
      <4> QED BY <3>1, <4>2, <4>3
    <3> QED BY <1>3, <3>2
  <2>5. submitted' = Sent + Len(pending_fifo')
    BY <1>0, <1>1, <1>3, <2>2 DEF Numeric
  <2> QED BY <1>0, <1>1, <1>3, <1>4, <1>6, <2>1, <2>4, <2>5 DEF InRuns, Numeric
<1>8. (BatchesReset /\ ExecutingStarted)'
  BY <1>0, <1>1, <1>4 DEF BatchesReset, ExecutingStarted, Reached, Submit, toVars
<1>9. Handed' = Handed /\ Returning' = Returning
  BY <1>1 DEF Handed, Returning
<1>10. Counted'
  BY <1>0, <1>1, <1>3, <1>6, <1>9, SMTT(200) DEF Counted, Numeric
<1> QED BY <1>5, <1>7, <1>8, <1>10 DEF IInv

LEMMA MoveItemStep == ASSUME IInv, MoveItem PROVE IInv'
<1>0. TypeOK /\ InRuns /\ BatchesReset /\ ExecutingStarted /\ Counted /\ Numeric
  BY Parts
<1>1. /\ txMoved < Len(pending_fifo) /\ txMoved' = txMoved + 1
      /\ Len(pending) < RingRoom
      /\ UNCHANGED <<submitted, pending_fifo, txPc, txTaken, started, rxBatch>>
      /\ UNCHANGED <<executing, completed_fifo, rxMoved, rxTaken, completed>>
      /\ UNCHANGED <<sent, compl, queueLen, received>>
  BY DEF MoveItem, toVars, counters
<1>2. txMoved + 1 \in 1 .. Len(pending_fifo)
  BY <1>0, <1>1 DEF Numeric
<1>3. /\ pending' \in Seq(Items) /\ Len(pending') = Len(pending) + 1
      /\ \A i \in 1 .. Len(pending) : pending'[i] = pending[i]
      /\ pending'[Len(pending) + 1] = pending_fifo[txMoved + 1]
  BY <1>0, <1>2, AppendSeq, ElementOfSeq DEF TypeOK, MoveItem
<1>4. TypeOK'
  <2>1. Len(pending') <= RingRoom /\ txMoved' \in 0 .. Len(pending_fifo)
    BY <1>0, <1>1, <1>2, <1>3, ConstantsAssumption, SMTT(200) DEF Numeric, RingRoom
  <2> QED BY <1>0, <1>3, <2>1 DEF TypeOK, MoveItem, toVars, counters
<1>5. Reached' = Reached /\ Popped' = Popped /\ Sent' = Sent + 1
  BY <1>0, <1>1, <1>3 DEF Reached, Popped, Sent, Numeric
<1>6. InRuns'
  <2>1. (CountsFrom(started, 0) /\ CountsFrom(rxBatch, Reached))'
    BY <1>0, <1>1, <1>5 DEF InRuns, CountsFrom
  <2>2. pending_fifo[txMoved + 1] = Sent + 1
    BY <1>0, <1>2 DEF InRuns, Numeric
  <2>3. CountsFrom(pending, Popped)'
    <3>1. pending'[Len(pending) + 1] = Popped + (Len(pending) + 1)
      BY <1>0, <1>3, <2>2 DEF Sent, Numeric
    <3>2. \A i \in 1 .. Len(pending) : pending[i] = Popped + i
      BY <1>0 DEF InRuns, CountsFrom
    <3>3. \A i \in 1 .. Len(pending) + 1 : pending'[i] = Popped + i
      BY <1>0, <1>3, <3>1, <3>2, OneMore, SMTT(200) DEF Numeric
    <3> QED BY <1>3, <1>5, <3>3 DEF CountsFrom
  <2>4. \A i \in txMoved' + 1 .. Len(pending_fifo) :
            pending_fifo[i] = Sent' + (i - txMoved')
    BY <1>0, <1>1, <1>5 DEF InRuns, Numeric
  <2>5. submitted = Sent' + (Len(pending_fifo) - txMoved')
    BY <1>0, <1>1, <1>5 DEF InRuns, Numeric
  <2> QED BY <1>1, <2>1, <2>3, <2>4, <2>5 DEF InRuns
<1>7. (BatchesReset /\ ExecutingStarted)'
  BY <1>0, <1>1 DEF BatchesReset, ExecutingStarted, Reached, MoveItem, toVars
<1>8. Handed' = Handed + 1 /\ Returning' = Returning
  BY <1>0, <1>1, <1>3, SMTT(200) DEF Handed, Returning, Numeric
<1>9. Counted'
  BY <1>0, <1>1, <1>5, <1>8 DEF Counted, Numeric
<1> QED BY <1>4, <1>6, <1>7, <1>9 DEF IInv

LEMMA MoveDoneStep == ASSUME IInv, MoveDone PROVE IInv'
<1>0. TypeOK /\ InRuns /\ BatchesReset /\ ExecutingStarted /\ Counted /\ Numeric
  BY Parts
<1>1. /\ txMoved' = 0 /\ sent' = sent + txMoved /\ queueLen' = queueLen + txMoved
      /\ txPc' \in Pcs /\ txTaken' = txTaken
      /\ UNCHANGED <<submitted, pending, started, rxBatch, compl, received>>
      /\ UNCHANGED <<executing, completed_fifo, rxMoved, rxTaken, completed>>
  BY DEF MoveDone, toVars, Pcs
<1>2. /\ pending_fifo' \in Seq(Items)
      /\ Len(pending_fifo') = Len(pending_fifo) - txMoved
      /\ \A i \in 1 .. Len(pending_fifo) - txMoved :
             pending_fifo'[i] = pending_fifo[txMoved + i]
  BY <1>0, DropSeq DEF TypeOK, MoveDone
<1>3. TypeOK'
  <2>1. txMoved' \in 0 .. Len(pending_fifo') /\ sent' \in Nat /\ queueLen' \in Nat
    BY <1>0, <1>1, <1>2, SMTT(200) DEF Numeric
  <2> QED BY <1>0, <1>1, <1>2, <2>1 DEF TypeOK, MoveDone, toVars
<1>4. Reached' = Reached /\ Popped' = Popped /\ Sent' = Sent
  BY <1>1 DEF Reached, Popped, Sent
<1>5. InRuns'
  <2>1. /\ CountsFrom(started, 0)'
        /\ CountsFrom(rxBatch, Reached)'
        /\ CountsFrom(pending, Popped)'
    BY <1>0, <1>1, <1>4 DEF InRuns, CountsFrom
  <2>2. \A i \in 1 .. Len(pending_fifo) - txMoved :
            pending_fifo[txMoved + i] = Sent + i
    BY <1>0 DEF InRuns, Numeric
  <2>3. \A i \in 1 .. Len(pending_fifo') : pending_fifo'[i] = Sent + (i - 0)
    BY <1>0, <1>2, <2>2 DEF Numeric
  <2>4. submitted = Sent + (Len(pending_fifo') - 0)
    BY <1>0, <1>2 DEF InRuns, Numeric
  <2> QED BY <1>1, <1>4, <2>1, <2>3, <2>4 DEF InRuns
<1>6. (BatchesReset /\ ExecutingStarted)'
  BY <1>0, <1>1 DEF BatchesReset, ExecutingStarted, Reached, MoveDone, toVars
<1>7. Handed' = Handed /\ Returning' = Returning
  BY <1>1 DEF Handed, Returning
<1>8. Counted'
  <2>1. sent' + Len(pending_fifo') = submitted
    <3>1. /\ sent \in Nat /\ txMoved \in Nat /\ Len(pending_fifo) \in Nat
          /\ sent + Len(pending_fifo) = submitted
      BY <1>0 DEF Counted, Numeric
    <3>2. (sent + txMoved) + (Len(pending_fifo) - txMoved) = submitted
      BY <3>1
    <3> QED BY <1>1, <1>2, <3>2
  <2>2. queueLen' = sent' - compl' /\ queueLen' + txMoved' = Handed + Returning
    BY <1>0, <1>1 DEF Counted, Numeric
  <2> QED BY <1>0, <1>1, <1>4, <1>7, <2>1, <2>2 DEF Counted
<1> QED BY <1>3, <1>5, <1>6, <1>8 DEF IInv

LEMMA PopCompletionStep == ASSUME IInv, PopCompletion PROVE IInv'
<1>0. TypeOK /\ InRuns /\ BatchesReset /\ ExecutingStarted /\ Counted /\ Numeric
  BY Parts
<1>1. /\ txTaken' = txTaken + 1
      /\ UNCHANGED <<submitted, pending_fifo, txMoved, pending, started, rxBatch>>
      /\ UNCHANGED <<executing, completed_fifo, rxMoved, rxTaken>>
      /\ UNCHANGED <<sent, compl, queueLen, received>>
  BY DEF PopCompletion, toVars, counters
<1>2. /\ completed' \in Seq(Items) /\ Len(completed') = Len(completed) - 1
      /\ Head(completed) \in Items
  BY <1>0, HeadTail DEF TypeOK, PopCompletion
<1>3. txBatch' \in Seq(Items)
  BY <1>0, <1>2, AppendSeq DEF TypeOK, PopCompletion
<1>4. TypeOK'
  <2>1. txTaken' \in Nat
    BY <1>0, <1>1 DEF Numeric
  <2>2. Len(completed') <= RingRoom
    BY <1>0, <1>2, ConstantsAssumption DEF TypeOK, RingRoom
  <2> QED BY <1>0, <1>2, <1>3, <2>1, <2>2 DEF TypeOK, PopCompletion, toVars, counters
<1>5. InRuns'
  BY <1>0, <1>1, InRunsFrame
<1>6. (BatchesReset /\ ExecutingStarted)'
  BY <1>0 DEF BatchesReset, ExecutingStarted, Reached, PopCompletion, toVars
<1>7. Handed' = Handed /\ Returning' = Returning
  BY <1>0, <1>1, <1>2 DEF Handed, Returning, Numeric
<1>8. Counted'
  BY <1>0, <1>1, <1>7, CountedFrame
<1> QED BY <1>4, <1>5, <1>6, <1>8 DEF IInv

LEMMA CompleteItemStep == ASSUME IInv, CompleteItem PROVE IInv'
<1>0. TypeOK /\ InRuns /\ BatchesReset /\ ExecutingStarted /\ Counted /\ Numeric
  BY Parts
<1>1. txBatch' \in Seq(Items) /\ Head(txBatch) \in Items
  BY <1>0, HeadTail DEF TypeOK, CompleteItem
<1>2. TypeOK'
  BY <1>0, <1>1 DEF TypeOK, CompleteItem, toVars, counters
<1>3. InRuns'
  BY <1>0, InRunsFrame DEF CompleteItem, toVars
<1>4. (BatchesReset /\ ExecutingStarted /\ Counted)'
  BY <1>0 DEF BatchesReset, ExecutingStarted, Counted, Reached, Handed, Returning,
              CompleteItem, toVars, counters
<1> QED BY <1>2, <1>3, <1>4 DEF IInv

(* That queueLen does not go below zero: Counted, with nothing moved.      *)
LEMMA CompletionsDoneStep == ASSUME IInv, CompletionsDone PROVE IInv'
<1>0. TypeOK /\ InRuns /\ BatchesReset /\ ExecutingStarted /\ Counted /\ Numeric
  BY Parts
<1>1. /\ txTaken' = 0 /\ queueLen' = queueLen - txTaken /\ compl' = compl + txTaken
      /\ txPc' \in Pcs /\ txMoved = 0
      /\ UNCHANGED <<submitted, pending_fifo, txMoved, pending, started, rxBatch>>
      /\ UNCHANGED <<executing, completed_fifo, rxMoved, rxTaken, completed>>
      /\ UNCHANGED <<sent, received>>
  BY <1>0 DEF CompletionsDone, BatchesReset, toVars, Pcs
<1>2. Handed' = Handed
  BY <1>1 DEF Handed
<1>3. Returning' = Returning - txTaken /\ Returning - txTaken \in Nat
  BY <1>0, <1>1 DEF Returning, Numeric
<1>4. queueLen' = Handed' + Returning' /\ queueLen' \in Nat /\ compl' \in Nat
  BY <1>0, <1>1, <1>2, <1>3 DEF Counted, Numeric
<1>5. TypeOK'
  BY <1>0, <1>1, <1>4 DEF TypeOK, CompletionsDone, toVars
<1>6. InRuns'
  BY <1>0, <1>1, InRunsFrame
<1>7. (BatchesReset /\ ExecutingStarted)'
  BY <1>0, <1>1 DEF BatchesReset, ExecutingStarted, Reached, CompletionsDone, toVars
<1>8. queueLen' = sent' - compl'
  BY <1>0, <1>1 DEF Counted, Numeric
<1>9. Counted'
  BY <1>0, <1>1, <1>4, <1>8 DEF Counted, Reached
<1> QED BY <1>5, <1>6, <1>7, <1>9 DEF IInv

LEMMA RespondStep ==
    ASSUME IInv, NEW item \in Items, Respond(item) PROVE IInv'
<1>0. TypeOK /\ InRuns /\ BatchesReset /\ ExecutingStarted /\ Counted /\ Numeric
  BY Parts
<1>1. /\ item \in executing /\ executing' = executing \ {item}
      /\ rxPc' \in Pcs /\ rxPc = "idle" /\ rxMoved = 0
      /\ UNCHANGED <<submitted, pending_fifo, txMoved, txTaken, pending, started>>
      /\ UNCHANGED <<rxBatch, rxMoved, rxTaken, completed>>
      /\ UNCHANGED <<sent, compl, queueLen, received>>
  BY <1>0 DEF Respond, BatchesReset, fromVars, counters, Pcs
<1>2. completed_fifo' \in Seq(Items) /\ Len(completed_fifo') = Len(completed_fifo) + 1
  BY <1>0, AppendSeq DEF TypeOK, Respond
<1>3. Cardinality(executing') = Cardinality(executing) - 1
  BY <1>0, <1>1, FS_RemoveElement DEF Numeric
<1>4. TypeOK'
  <2>1. rxMoved' \in 0 .. Len(completed_fifo')
    BY <1>0, <1>1, <1>2 DEF Numeric
  <2> QED BY <1>0, <1>1, <1>2, <2>1 DEF TypeOK, Respond, fromVars, counters
<1>5. InRuns'
  BY <1>0, <1>1, InRunsFrame
<1>6. (BatchesReset /\ ExecutingStarted)'
  BY <1>0, <1>1 DEF BatchesReset, ExecutingStarted, Reached, Respond, fromVars
<1>7. Handed' = Handed - 1
  BY <1>0, <1>1, <1>3 DEF Handed, Numeric
<1>8. Returning' = Returning + 1
  BY <1>0, <1>1, <1>2 DEF Returning, Numeric
<1>9. Counted'
  BY <1>0, <1>1, <1>7, <1>8 DEF Counted, Reached, Numeric
<1> QED BY <1>4, <1>5, <1>6, <1>9 DEF IInv

LEMMA FlushItemStep == ASSUME IInv, FlushItem PROVE IInv'
<1>0. TypeOK /\ InRuns /\ BatchesReset /\ ExecutingStarted /\ Counted /\ Numeric
  BY Parts
<1>1. /\ rxMoved < Len(completed_fifo) /\ rxMoved' = rxMoved + 1
      /\ Len(completed) < RingRoom
      /\ UNCHANGED <<submitted, pending_fifo, txMoved, txTaken, pending, started>>
      /\ UNCHANGED <<executing, rxBatch, rxTaken, completed_fifo>>
      /\ UNCHANGED <<sent, compl, queueLen, received>>
  BY DEF FlushItem, fromVars, counters
<1>2. rxMoved + 1 \in 1 .. Len(completed_fifo)
  BY <1>0, <1>1 DEF Numeric
<1>3. completed' \in Seq(Items) /\ Len(completed') = Len(completed) + 1
  BY <1>0, <1>2, AppendSeq, ElementOfSeq DEF TypeOK, FlushItem
<1>4. TypeOK'
  <2>1. Len(completed') <= RingRoom /\ rxMoved' \in 0 .. Len(completed_fifo)
    BY <1>0, <1>1, <1>2, <1>3, ConstantsAssumption DEF Numeric, RingRoom
  <2> QED BY <1>0, <1>3, <2>1 DEF TypeOK, FlushItem, fromVars, counters
<1>5. InRuns'
  BY <1>0, <1>1, InRunsFrame
<1>6. (BatchesReset /\ ExecutingStarted)'
  BY <1>0 DEF BatchesReset, ExecutingStarted, Reached, FlushItem, fromVars
<1>7. Handed' = Handed /\ Returning' = Returning
  BY <1>0, <1>1, <1>3 DEF Handed, Returning, Numeric
<1>8. Counted'
  BY <1>0, <1>1, <1>7, CountedFrame
<1> QED BY <1>4, <1>5, <1>6, <1>8 DEF IInv

LEMMA FlushDoneStep == ASSUME IInv, FlushDone PROVE IInv'
<1>0. TypeOK /\ InRuns /\ BatchesReset /\ ExecutingStarted /\ Counted /\ Numeric
  BY Parts
<1>1. /\ rxMoved' = 0 /\ rxPc' \in Pcs
      /\ UNCHANGED <<submitted, pending_fifo, txMoved, txTaken, pending, started>>
      /\ UNCHANGED <<executing, rxBatch, rxTaken, completed>>
      /\ UNCHANGED <<sent, compl, queueLen, received>>
  BY DEF FlushDone, fromVars, counters, Pcs
<1>2. /\ completed_fifo' \in Seq(Items)
      /\ Len(completed_fifo') = Len(completed_fifo) - rxMoved
  BY <1>0, DropSeq DEF TypeOK, FlushDone
<1>3. TypeOK'
  <2>1. rxMoved' \in 0 .. Len(completed_fifo')
    BY <1>0, <1>1, <1>2 DEF Numeric
  <2> QED BY <1>0, <1>1, <1>2, <2>1 DEF TypeOK, FlushDone, fromVars, counters
<1>4. InRuns'
  BY <1>0, <1>1, InRunsFrame
<1>5. (BatchesReset /\ ExecutingStarted)'
  BY <1>0, <1>1 DEF BatchesReset, ExecutingStarted, Reached, FlushDone, fromVars
<1>6. Handed' = Handed /\ Returning' = Returning
  BY <1>0, <1>1, <1>2 DEF Handed, Returning, Numeric
<1>7. Counted'
  BY <1>0, <1>1, <1>6, CountedFrame
<1> QED BY <1>3, <1>4, <1>5, <1>7 DEF IInv

LEMMA PopRequestStep == ASSUME IInv, PopRequest PROVE IInv'
<1>0. TypeOK /\ InRuns /\ BatchesReset /\ ExecutingStarted /\ Counted /\ Numeric
  BY Parts
<1>1. /\ rxTaken' = rxTaken + 1
      /\ UNCHANGED <<submitted, pending_fifo, txMoved, txTaken, started>>
      /\ UNCHANGED <<executing, completed_fifo, rxMoved, completed>>
      /\ UNCHANGED <<sent, compl, queueLen, received>>
  BY DEF PopRequest, fromVars, counters
<1>2. /\ pending' \in Seq(Items) /\ Len(pending') = Len(pending) - 1
      /\ Head(pending) \in Items /\ Head(pending) = pending[1] /\ Len(pending) > 0
      /\ \A i \in 1 .. Len(pending) - 1 : pending'[i] = pending[i + 1]
  BY <1>0, HeadTail DEF TypeOK, PopRequest
<1>3. /\ rxBatch' \in Seq(Items) /\ Len(rxBatch') = Len(rxBatch) + 1
      /\ \A i \in 1 .. Len(rxBatch) : rxBatch'[i] = rxBatch[i]
      /\ rxBatch'[Len(rxBatch) + 1] = pending[1]
  BY <1>0, <1>2, AppendSeq DEF TypeOK, PopRequest
<1>4. TypeOK'
  <2>1. rxTaken' \in Nat
    BY <1>0, <1>1 DEF Numeric
  <2>2. Len(pending') <= RingRoom
    BY <1>0, <1>2, ConstantsAssumption DEF TypeOK, RingRoom
  <2> QED BY <1>0, <1>2, <1>3, <2>1, <2>2 DEF TypeOK, PopRequest, fromVars, counters
<1>5. Reached' = Reached
  BY <1>1 DEF Reached
<1>6. Popped' = Popped + 1 /\ Sent' = Sent
  BY <1>0, <1>2, <1>3, <1>5 DEF Popped, Sent, Numeric
<1>7. InRuns'
  <2>1. CountsFrom(started, 0)'
    BY <1>0, <1>1 DEF InRuns, CountsFrom
  <2>2. pending[1] = Popped + 1
    BY <1>0, <1>2 DEF InRuns, CountsFrom, Numeric
  <2>3. CountsFrom(rxBatch, Reached)'
    <3>1. rxBatch'[Len(rxBatch) + 1] = Reached + (Len(rxBatch) + 1)
      BY <1>0, <1>3, <2>2 DEF Popped, Numeric
    <3>2. \A i \in 1 .. Len(rxBatch) : rxBatch[i] = Reached + i
      BY <1>0 DEF InRuns, CountsFrom
    <3>3. \A i \in 1 .. Len(rxBatch) + 1 : rxBatch'[i] = Reached + i
      BY <1>0, <1>3, <3>1, <3>2, OneMore, SMTT(200) DEF Numeric
    <3> QED BY <1>3, <1>5, <3>3 DEF CountsFrom
  <2>4. \A i \in 1 .. Len(pending) - 1 : pending[i + 1] = Popped + (i + 1)
    BY <1>0, <1>2, SMTT(200) DEF InRuns, CountsFrom, Numeric
  <2>5. CountsFrom(pending, Popped)'
    BY <1>0, <1>2, <1>6, <2>4 DEF CountsFrom, Numeric
  <2> QED BY <1>0, <1>1, <1>6, <2>1, <2>3, <2>5 DEF InRuns
<1>8. (BatchesReset /\ ExecutingStarted)'
  BY <1>0 DEF BatchesReset, ExecutingStarted, Reached, PopRequest, fromVars
<1>9. Handed' = Handed /\ Returning' = Returning
  BY <1>0, <1>1, <1>2, <1>3 DEF Handed, Returning, Numeric
<1>10. Counted'
  BY <1>0, <1>1, <1>3, <1>5, <1>9, SMTT(200) DEF Counted, Numeric
<1> QED BY <1>4, <1>7, <1>8, <1>10 DEF IInv

(* The item that starts is the next after those that have, so that it is   *)
(* not executing already.                                                  *)
LEMMA ProcessItemStep == ASSUME IInv, ProcessItem PROVE IInv'
<1>0. TypeOK /\ InRuns /\ BatchesReset /\ ExecutingStarted /\ Counted /\ Numeric
  BY Parts
<1>1. /\ executing' = executing \union {Head(rxBatch)}
      /\ UNCHANGED <<submitted, pending_fifo, txMoved, txTaken, pending>>
      /\ UNCHANGED <<completed_fifo, rxMoved, rxTaken, completed>>
      /\ UNCHANGED <<sent, compl, queueLen, received>>
  BY DEF ProcessItem, fromVars, counters
<1>2. /\ rxBatch' \in Seq(Items) /\ Len(rxBatch') = Len(rxBatch) - 1
      /\ Len(rxBatch) > 0
      /\ Head(rxBatch) \in Items /\ Head(rxBatch) = rxBatch[1]
      /\ \A i \in 1 .. Len(rxBatch) - 1 : rxBatch'[i] = rxBatch[i + 1]
  BY <1>0, HeadTail DEF TypeOK, ProcessItem
<1>3. Head(rxBatch) = Reached + 1
  BY <1>0, <1>2 DEF InRuns, CountsFrom, Numeric
<1>4. /\ started' \in Seq(Items) /\ Reached' = Reached + 1
      /\ \A i \in 1 .. Reached : started'[i] = started[i]
      /\ started'[Reached + 1] = Reached + 1
  BY <1>0, <1>2, <1>3, AppendSeq DEF TypeOK, Reached, ProcessItem
<1>5. Reached + 1 \notin executing
  BY <1>0 DEF ExecutingStarted, Numeric
<1>6. Cardinality(executing') = Cardinality(executing) + 1
  BY <1>0, <1>1, <1>3, <1>5, FS_AddElement DEF Numeric
<1>7. TypeOK'
  BY <1>0, <1>2, <1>4 DEF TypeOK, ProcessItem, fromVars, counters
<1>8. Popped' = Popped
  BY <1>0, <1>2, <1>4, SMTT(200) DEF Popped, Numeric
<1>9. Sent' = Sent
  BY <1>1, <1>8 DEF Sent
<1>10. InRuns'
  <2>1. CountsFrom(started, 0)'
    <3>1. \A i \in 1 .. Reached : started[i] = 0 + i
      BY <1>0 DEF InRuns, CountsFrom, Reached
    <3>2. \A i \in 1 .. Reached + 1 : started'[i] = 0 + i
      BY <1>0, <1>4, <3>1, SMTT(200) DEF Numeric
    <3> QED BY <1>4, <3>2 DEF CountsFrom, Reached
  <2>2. \A i \in 1 .. Len(rxBatch) - 1 : rxBatch[i + 1] = Reached + (i + 1)
    BY <1>0, <1>2, SMTT(200) DEF InRuns, CountsFrom, Numeric
  <2>3. CountsFrom(rxBatch, Reached)'
    BY <1>0, <1>2, <1>4, <2>2 DEF CountsFrom, Numeric
  <2>4. CountsFrom(pending, Popped)'
    BY <1>0, <1>1, <1>8 DEF InRuns, CountsFrom
  <2> QED BY <1>0, <1>1, <1>9, <2>1, <2>3, <2>4 DEF InRuns
<1>11. ExecutingStarted'
  <2>1. executing \subseteq 1 .. Reached + 1 /\ Reached + 1 \in 1 .. Reached + 1
    BY <1>0 DEF ExecutingStarted, Numeric
  <2> QED BY <1>1, <1>3, <1>4, <2>1 DEF ExecutingStarted
<1>12. BatchesReset'
  BY <1>0, <1>1 DEF BatchesReset, ProcessItem, fromVars
<1>13. Handed' = Handed /\ Returning' = Returning
  BY <1>0, <1>1, <1>2, <1>6, SMTT(200) DEF Handed, Returning, Numeric
<1>14. Counted'
  <2>1. Reached' + Len(rxBatch') = Reached + Len(rxBatch)
    BY <1>0, <1>2, <1>4 DEF Numeric
  <2> QED BY <1>0, <1>1, <1>13, <2>1 DEF Counted
<1> QED BY <1>7, <1>10, <1>11, <1>12, <1>14 DEF IInv

LEMMA RequestsDoneStep == ASSUME IInv, RequestsDone PROVE IInv'
<1>0. TypeOK /\ InRuns /\ BatchesReset /\ ExecutingStarted /\ Counted /\ Numeric
  BY Parts
<1>1. /\ received' = received + rxTaken /\ rxTaken' = 0 /\ rxPc' \in Pcs
      /\ UNCHANGED <<submitted, pending_fifo, txMoved, txTaken, pending, started>>
      /\ UNCHANGED <<executing, rxBatch, completed_fifo, rxMoved, completed>>
      /\ UNCHANGED <<sent, compl, queueLen>>
  BY DEF RequestsDone, fromVars, Pcs
<1>2. TypeOK'
  BY <1>0, <1>1 DEF TypeOK, RequestsDone, fromVars
<1>3. InRuns'
  BY <1>0, <1>1, InRunsFrame
<1>4. (BatchesReset /\ ExecutingStarted)'
  BY <1>0, <1>1 DEF BatchesReset, ExecutingStarted, Reached, RequestsDone, fromVars
<1>5. Reached' = Reached /\ Handed' = Handed /\ Returning' = Returning
  BY <1>1 DEF Reached, Handed, Returning
<1>6. Counted'
  BY <1>0, <1>1, <1>5 DEF Counted, Numeric
<1> QED BY <1>2, <1>3, <1>4, <1>6 DEF IInv

(* The steps between two batches, and the stuttering step.                 *)
LEMMA PcStep ==
    ASSUME IInv,
           \/ PollTx \/ PopCompletionsDone \/ PollRx \/ PopRequestsDone
           \/ UNCHANGED vars
    PROVE  IInv'
<1> USE DEF vars, fromVars, toVars, counters, PollTx,
            PopCompletionsDone, PollRx, PopRequestsDone
<1>0. TypeOK /\ InRuns /\ BatchesReset /\ ExecutingStarted /\ Counted /\ Numeric
  BY Parts
<1>1. TypeOK'
  BY <1>0 DEF TypeOK, Pcs
<1>2. InRuns'
  BY <1>0, InRunsFrame
<1>3. (BatchesReset /\ ExecutingStarted)'
  BY <1>0 DEF BatchesReset, ExecutingStarted, Reached
<1>4. Counted'
  BY <1>0 DEF Counted, Reached, Handed, Returning
<1> QED BY <1>1, <1>2, <1>3, <1>4 DEF IInv

LEMMA StepIInv == IInv /\ [Next]_vars => IInv'
BY SubmitStep, MoveItemStep, MoveDoneStep, PopCompletionStep, CompleteItemStep,
   CompletionsDoneStep, RespondStep, FlushItemStep, FlushDoneStep,
   PopRequestStep, ProcessItemStep, RequestsDoneStep, PcStep
DEF Next, Sender, Receiver

-----------------------------------------------------------------------------
(* The answers on their way back, the next to be completed first.          *)
Back == txBatch \o completed \o Drop(completed_fifo, rxMoved)

(* The items that were started are the ones executing, on their way back   *)
(* or deleted, and there are no more entries than items.                   *)
Accounted ==
    /\ Range(Back) \union executing \union resolved = 1 .. Reached
    /\ Len(Back) + Cardinality(executing) + Cardinality(resolved) = Reached

PlaceInv == IInv /\ Accounted

(* A sequence has no more elements than places.                            *)
LEMMA RangeBound ==
    ASSUME NEW S, NEW s \in Seq(S)
    PROVE  IsFiniteSet(Range(s)) /\ Cardinality(Range(s)) <= Len(s)
<1>1. Len(s) \in Nat /\ DOMAIN s = 1 .. Len(s) /\ s \in [1 .. Len(s) -> Range(s)]
  BY LenProperties DEF Range
<1>2. IsFiniteSet(1 .. Len(s)) /\ Cardinality(1 .. Len(s)) = Len(s)
  BY <1>1, FS_Interval
<1>3. s \in Surjection(1 .. Len(s), Range(s))
  BY <1>1 DEF Range, Surjection
<1> QED BY <1>2, <1>3, FS_Surjection

(* A sequence that is not empty is its head and its tail.                  *)
LEMMA HeadFirst ==
    ASSUME NEW S, NEW s \in Seq(S), s # <<>>
    PROVE  s = <<Head(s)>> \o Tail(s)
<1>1. /\ <<Head(s)>> \in Seq(S) /\ Len(<<Head(s)>>) = 1
      /\ Tail(s) \in Seq(S) /\ Len(Tail(s)) = Len(s) - 1 /\ Len(s) \in Nat
      /\ \A i \in 1 .. Len(s) - 1 : Tail(s)[i] = s[i + 1]
      /\ Head(s) = s[1] /\ Len(s) > 0
  BY HeadTail
<1> DEFINE t == <<Head(s)>> \o Tail(s)
<1>2. /\ t \in Seq(S) /\ Len(t) = Len(s)
      /\ \A i \in 1 .. Len(s) :
             t[i] = IF i <= 1 THEN <<Head(s)>>[i] ELSE Tail(s)[i - 1]
  BY <1>1, ConcatProperties
<1>3. ASSUME NEW i \in 1 .. Len(s) PROVE s[i] = t[i]
  <2>1. CASE i = 1
    BY <1>1, <1>2, <2>1
  <2>2. CASE i # 1
    <3>1. i - 1 \in 1 .. Len(s) - 1 /\ ~(i <= 1) /\ (i - 1) + 1 = i
      BY <1>1, <2>2
    <3> QED BY <1>1, <1>2, <3>1
  <2> QED BY <2>1, <2>2
<1> QED BY <1>2, <1>3, SeqEqual

(* Dropping one more takes off the first that is left.                     *)
LEMMA DropFirst ==
    ASSUME NEW S, NEW s \in Seq(S), NEW n \in Nat, n < Len(s)
    PROVE  Drop(s, n) = <<s[n + 1]>> \o Drop(s, n + 1)
<1>1. Len(s) \in Nat /\ n + 1 \in 1 .. Len(s) /\ Len(s) \in n + 1 .. Len(s)
  OBVIOUS
<1> QED BY <1>1, SubSeqRecursiveFirst DEF Drop

(* An element appended to the first sequence of two, or put before the     *)
(* second, gives the same concatenation.                                   *)
LEMMA Handover ==
    ASSUME NEW S, NEW s \in Seq(S), NEW t \in Seq(S), NEW x \in S
    PROVE  Append(s, x) \o t = s \o (<<x>> \o t)
<1>1. <<x>> \in Seq(S) /\ Append(s, x) = s \o <<x>>
  BY AppendIsConcat
<1>2. (s \o <<x>>) \o t = s \o (<<x>> \o t)
  BY <1>1, ConcatAssociative
<1> QED BY <1>1, <1>2

(* A singleton in front, or behind, adds its element and one place.        *)
LEMMA OneInFront ==
    ASSUME NEW S, NEW s \in Seq(S), NEW x \in S
    PROVE  /\ Range(<<x>> \o s) = Range(s) \union {x}
           /\ Len(<<x>> \o s) = Len(s) + 1
<1> DEFINE one == <<x>>
<1>1. one \in Seq(S) /\ Len(one) = 1
  OBVIOUS
<1>2. Range(one) = {x}
  BY DEF Range
<1> HIDE DEF one
<1>3. Range(one \o s) = Range(one) \union Range(s)
  BY <1>1, RangeConcatenation
<1>4. Len(one \o s) = Len(one) + Len(s)
  BY ONLY <1>1, s \in Seq(S), ConcatProperties
<1>5. Len(s) \in Nat
  OBVIOUS
<1>6. Range(one \o s) = Range(s) \union {x} /\ Len(one \o s) = Len(s) + 1
  BY <1>1, <1>2, <1>3, <1>4, <1>5
<1> QED BY <1>6 DEF one

LEMMA OneBehind ==
    ASSUME NEW S, NEW s \in Seq(S), NEW x \in S
    PROVE  /\ Range(Append(s, x)) = Range(s) \union {x}
           /\ Len(Append(s, x)) = Len(s) + 1
<1> DEFINE one == <<x>>
<1>1. one \in Seq(S) /\ Append(s, x) = s \o one /\ Range(one) = {x}
  BY AppendIsConcat DEF Range
<1> HIDE DEF one
<1>2. Range(s \o one) = Range(s) \union Range(one)
  BY <1>1, RangeConcatenation
<1> QED BY <1>1, <1>2, AppendSeq

LEMMA BackSeq ==
    ASSUME TypeOK
    PROVE  /\ Drop(completed_fifo, rxMoved) \in Seq(Items)
           /\ txBatch \o completed \in Seq(Items) /\ Back \in Seq(Items)
<1>1. Drop(completed_fifo, rxMoved) \in Seq(Items)
  BY DropSeq DEF TypeOK
<1> QED BY <1>1, ConcatProperties DEF Back, TypeOK

LEMMA FiniteItems ==
    ASSUME TypeOK
    PROVE  /\ IsFiniteSet(executing) /\ Cardinality(executing) \in Nat
           /\ IsFiniteSet(resolved) /\ Cardinality(resolved) \in Nat
<1>1. IsFiniteSet(Items)
  BY FS_Interval, ConstantsAssumption DEF Items
<1> QED BY <1>1, FS_Subset, FS_CardinalityType DEF TypeOK

-----------------------------------------------------------------------------
LEMMA UnionBound ==
    ASSUME NEW S, NEW T, IsFiniteSet(S), IsFiniteSet(T)
    PROVE  /\ IsFiniteSet(S \union T)
           /\ Cardinality(S \union T) <= Cardinality(S) + Cardinality(T)
<1>1. /\ IsFiniteSet(S \union T) /\ IsFiniteSet(S \intersect T)
      /\ Cardinality(S \union T)
             = Cardinality(S) + Cardinality(T) - Cardinality(S \intersect T)
  BY FS_Union, FS_Intersection
<1>2. /\ Cardinality(S) \in Nat /\ Cardinality(T) \in Nat
      /\ Cardinality(S \intersect T) \in Nat
  BY <1>1, FS_CardinalityType
<1> QED BY <1>1, <1>2

LEMMA AccountedFrame ==
    ASSUME Accounted, Back' = Back, UNCHANGED <<executing, resolved, started>>
    PROVE  Accounted'
BY DEF Accounted, Reached

(* What process() has started is on its way nowhere else: the numbers of   *)
(* the items that executing, or being deleted, or on their way back, are   *)
(* those of the items started before.                                      *)
LEMMA ProcessItemPlace == ASSUME IInv, Accounted, ProcessItem PROVE Accounted'
<1>0. TypeOK /\ InRuns /\ Numeric
  BY Parts
<1>1. /\ executing' = executing \union {Head(rxBatch)} /\ resolved' = resolved
      /\ started' = Append(started, Head(rxBatch)) /\ rxBatch # <<>>
      /\ UNCHANGED <<completed_fifo, rxMoved, completed, txBatch>>
  BY DEF ProcessItem, fromVars
<1>2. Head(rxBatch) \in Items /\ Head(rxBatch) = Reached + 1
  BY <1>0, <1>1, HeadTail DEF TypeOK, InRuns, CountsFrom, Numeric
<1>3. Reached' = Reached + 1 /\ Reached \in Nat
  BY <1>0, <1>1, <1>2, AppendSeq DEF TypeOK, Reached, Numeric
<1>4. Back' = Back
  BY <1>1 DEF Back
<1>5. Reached + 1 \notin executing
  BY <1>3 DEF Accounted
<1>6. Cardinality(executing') = Cardinality(executing) + 1
  BY <1>0, <1>1, <1>2, <1>5, FiniteItems, FS_AddElement
<1>7. Range(Back') \union executing' \union resolved' = 1 .. Reached'
  BY <1>1, <1>2, <1>3, <1>4 DEF Accounted
<1>8. Len(Back') + Cardinality(executing') + Cardinality(resolved') = Reached'
  <2>1. /\ Len(Back) \in Nat /\ Cardinality(executing) \in Nat
        /\ Cardinality(resolved) \in Nat
        /\ Len(Back) + Cardinality(executing) + Cardinality(resolved) = Reached
    BY <1>0, BackSeq, FiniteItems DEF Accounted
  <2> QED BY <1>1, <1>3, <1>4, <1>6, <2>1
<1> QED BY <1>7, <1>8 DEF Accounted

LEMMA RespondPlace ==
    ASSUME IInv, Accounted, NEW item \in Items, Respond(item) PROVE Accounted'
<1>0. TypeOK /\ BatchesReset /\ Numeric
  BY Parts
<1>1. /\ item \in executing /\ executing' = executing \ {item}
      /\ completed_fifo' = Append(completed_fifo, item)
      /\ rxMoved = 0 /\ rxMoved' = 0
      /\ UNCHANGED <<completed, txBatch, resolved, started>>
  BY <1>0 DEF Respond, BatchesReset, fromVars
<1>2. /\ Drop(completed_fifo, 0) = completed_fifo
      /\ Drop(completed_fifo', 0) = completed_fifo'
  BY <1>0, <1>1, AppendSeq, SubSeqFull DEF TypeOK, Drop
<1>3. Back' = Append(Back, item)
  <2> DEFINE ahead == txBatch \o completed
  <2>1. ahead \in Seq(Items) /\ completed_fifo \in Seq(Items)
    BY <1>0, BackSeq DEF TypeOK
  <2> HIDE DEF ahead
  <2>2. <<item>> \in Seq(Items) /\ completed_fifo' = completed_fifo \o <<item>>
    BY <1>1, <2>1, AppendIsConcat
  <2>3. ahead \o (completed_fifo \o <<item>>) = (ahead \o completed_fifo) \o <<item>>
    BY <2>1, <2>2, ConcatAssociative
  <2>4. ahead \o completed_fifo \in Seq(Items)
    BY <2>1, ConcatProperties
  <2>5. Append(ahead \o completed_fifo, item) = (ahead \o completed_fifo) \o <<item>>
    BY <2>4, AppendIsConcat
  <2> QED BY <1>1, <1>2, <2>2, <2>3, <2>5 DEF Back, ahead
<1>4. Range(Back') = Range(Back) \union {item} /\ Len(Back') = Len(Back) + 1
  BY <1>0, <1>3, BackSeq, OneBehind
<1>5. Cardinality(executing') = Cardinality(executing) - 1
  BY <1>0, <1>1, FiniteItems, FS_RemoveElement
<1>6. Range(Back') \union executing' \union resolved' = 1 .. Reached'
  BY <1>1, <1>4 DEF Accounted, Reached
<1>7. Len(Back') + Cardinality(executing') + Cardinality(resolved') = Reached'
  <2>1. /\ Len(Back) \in Nat /\ Cardinality(executing) \in Nat
        /\ Cardinality(resolved) \in Nat /\ Reached' = Reached
        /\ Len(Back) + Cardinality(executing) + Cardinality(resolved) = Reached
    BY <1>0, <1>1, BackSeq, FiniteItems DEF Accounted, Reached
  <2> QED BY <1>1, <1>4, <1>5, <2>1
<1> QED BY <1>6, <1>7 DEF Accounted

(* A flush moves nothing on the way back: what push() puts in the ring is  *)
(* what comes next in _completed_fifo.                                     *)
LEMMA FlushItemPlace == ASSUME IInv, Accounted, FlushItem PROVE Accounted'
<1>0. TypeOK /\ Numeric
  BY Parts
<1> DEFINE x == completed_fifo[rxMoved + 1]
           rest == Drop(completed_fifo, rxMoved + 1)
           ahead == txBatch \o completed
<1>1. /\ rxMoved < Len(completed_fifo) /\ rxMoved' = rxMoved + 1
      /\ completed' = Append(completed, x)
      /\ UNCHANGED <<completed_fifo, txBatch, executing, resolved, started>>
  BY DEF FlushItem, fromVars
<1>2. rxMoved + 1 \in 1 .. Len(completed_fifo)
  BY <1>0, <1>1 DEF Numeric
<1>3. x \in Items /\ rest \in Seq(Items) /\ ahead \in Seq(Items)
  BY <1>0, <1>2, BackSeq, ElementOfSeq, DropSeq DEF TypeOK
<1>4. Drop(completed_fifo, rxMoved) = <<x>> \o rest
  BY <1>0, <1>1, DropFirst DEF TypeOK, Numeric
<1> HIDE DEF x, rest
<1>5. txBatch \o Append(completed, x) = Append(ahead, x)
  <2>1. <<x>> \in Seq(Items) /\ Append(completed, x) = completed \o <<x>>
    BY <1>0, <1>3, AppendIsConcat DEF TypeOK
  <2>2. txBatch \o (completed \o <<x>>) = ahead \o <<x>>
    <3>1. txBatch \in Seq(Items) /\ completed \in Seq(Items)
      BY <1>0 DEF TypeOK
    <3> QED BY ONLY <2>1, <3>1, ConcatAssociative
  <2> QED BY <1>3, <2>1, <2>2, AppendIsConcat
<1> HIDE DEF ahead
<1>6. Append(ahead, x) \o rest = ahead \o (<<x>> \o rest)
  BY <1>3, Handover
<1>7. Back' = Back
  BY <1>1, <1>4, <1>5, <1>6 DEF Back, ahead, rest
<1> QED BY <1>1, <1>7, AccountedFrame

LEMMA FlushDonePlace == ASSUME IInv, Accounted, FlushDone PROVE Accounted'
<1>0. TypeOK
  BY Parts
<1>1. /\ completed_fifo' = Drop(completed_fifo, rxMoved) /\ rxMoved' = 0
      /\ UNCHANGED <<completed, txBatch, executing, resolved, started>>
  BY DEF FlushDone, fromVars
<1>2. Drop(completed_fifo', 0) = completed_fifo'
  <2>1. completed_fifo' \in Seq(Items)
    BY <1>0, <1>1, BackSeq
  <2> QED BY ONLY <2>1, SubSeqFull DEF Drop
<1>3. Back' = Back
  BY <1>1, <1>2 DEF Back
<1> QED BY <1>1, <1>3, AccountedFrame

LEMMA PopCompletionPlace == ASSUME IInv, Accounted, PopCompletion PROVE Accounted'
<1>0. TypeOK
  BY Parts
<1>1. /\ completed # <<>> /\ txBatch' = Append(txBatch, Head(completed))
      /\ completed' = Tail(completed)
      /\ UNCHANGED <<completed_fifo, rxMoved, executing, resolved, started>>
  BY DEF PopCompletion, toVars
<1> DEFINE x == Head(completed)
           rest == Tail(completed)
<1>2. /\ x \in Items /\ rest \in Seq(Items) /\ txBatch \in Seq(Items)
      /\ completed = <<x>> \o rest
  BY <1>0, <1>1, HeadTail, HeadFirst DEF TypeOK
<1>3. txBatch' = Append(txBatch, x) /\ completed' = rest
  BY <1>1
<1> HIDE DEF x, rest
<1>4. Append(txBatch, x) \o rest = txBatch \o (<<x>> \o rest)
  BY ONLY <1>2, Handover
<1>5. Back' = Back
  BY <1>1, <1>2, <1>3, <1>4 DEF Back
<1> QED BY <1>1, <1>5, AccountedFrame

(* complete() and delete happen once: were the item deleted before, there  *)
(* would be fewer entries than items.                                      *)
LEMMA CompleteItemPlace == ASSUME IInv, Accounted, CompleteItem PROVE Accounted'
<1>0. TypeOK /\ Numeric
  BY Parts
<1> DEFINE x == Head(txBatch)
<1>1. /\ txBatch # <<>> /\ txBatch' = Tail(txBatch)
      /\ resolved' = resolved \union {x}
      /\ UNCHANGED <<completed, completed_fifo, rxMoved, executing, started>>
  BY DEF CompleteItem, toVars
<1>2. x \in Items /\ Tail(txBatch) \in Seq(Items) /\ txBatch = <<x>> \o Tail(txBatch)
  BY <1>0, <1>1, HeadTail, HeadFirst DEF TypeOK
<1> HIDE DEF x
<1> DEFINE rest == Drop(completed_fifo, rxMoved)
<1>3. /\ rest \in Seq(Items) /\ completed \in Seq(Items) /\ <<x>> \in Seq(Items)
      /\ Tail(txBatch) \o completed \in Seq(Items)
      /\ (Tail(txBatch) \o completed) \o rest \in Seq(Items)
  BY <1>0, <1>2, BackSeq, ConcatProperties DEF TypeOK
<1>4. Back' = (Tail(txBatch) \o completed) \o rest
  BY <1>1 DEF Back
<1>5. Back = (txBatch \o completed) \o rest
  BY DEF Back
<1> HIDE DEF rest
<1>6. Back = <<x>> \o Back'
  <2>1. txBatch \o completed = <<x>> \o (Tail(txBatch) \o completed)
    BY <1>2, <1>3, ConcatAssociative
  <2>2. (<<x>> \o (Tail(txBatch) \o completed)) \o rest
            = <<x>> \o ((Tail(txBatch) \o completed) \o rest)
    BY <1>3, ConcatAssociative
  <2> QED BY <1>4, <1>5, <2>1, <2>2
<1>7. Back' \in Seq(Items)
  BY <1>3, <1>4
<1>8. Range(Back) = Range(Back') \union {x} /\ Len(Back) = Len(Back') + 1
  BY <1>2, <1>6, <1>7, OneInFront
<1>9. /\ Len(Back') \in Nat /\ Reached \in Nat /\ Reached' = Reached
      /\ Cardinality(executing) \in Nat /\ Cardinality(resolved) \in Nat
      /\ Len(Back') + 1 + Cardinality(executing) + Cardinality(resolved) = Reached
  BY <1>0, <1>1, <1>7, <1>8, FiniteItems DEF Accounted, Reached, Numeric
<1>10. x \notin resolved
  <2> SUFFICES ASSUME x \in resolved PROVE FALSE
    OBVIOUS
  <2> DEFINE some == Range(Back') \union executing
  <2>1. some \union resolved = 1 .. Reached
    BY <1>8 DEF Accounted
  <2>2. IsFiniteSet(Range(Back')) /\ Cardinality(Range(Back')) <= Len(Back')
    BY <1>7, RangeBound
  <2>3. Cardinality(Range(Back')) \in Nat
    BY <2>2, FS_CardinalityType
  <2>4. /\ IsFiniteSet(some)
        /\ Cardinality(some) <= Cardinality(Range(Back')) + Cardinality(executing)
    BY <1>0, <2>2, FiniteItems, UnionBound
  <2>5. Cardinality(some) \in Nat
    BY <2>4, FS_CardinalityType
  <2> HIDE DEF some
  <2>6. Cardinality(some \union resolved) <= Cardinality(some) + Cardinality(resolved)
    BY <1>0, <2>4, FiniteItems, UnionBound
  <2>7. Cardinality(1 .. Reached) = Reached
    BY <1>9, FS_Interval
  <2>8. Reached <= Cardinality(some) + Cardinality(resolved)
    BY <2>1, <2>6, <2>7
  <2>9. Cardinality(some) <= Len(Back') + Cardinality(executing)
    BY ONLY <1>9, <2>2, <2>3, <2>4, <2>5
  <2> QED BY ONLY <1>9, <2>5, <2>8, <2>9
<1>11. Cardinality(resolved') = Cardinality(resolved) + 1
  BY <1>0, <1>1, <1>10, FiniteItems, FS_AddElement
<1>12. Range(Back') \union executing' \union resolved' = 1 .. Reached'
  BY <1>1, <1>8, <1>9 DEF Accounted
<1>13. Len(Back') + Cardinality(executing') + Cardinality(resolved') = Reached'
  BY <1>1, <1>9, <1>11
<1> QED BY <1>12, <1>13 DEF Accounted

(* All other steps leave the way back and its ends alone.                  *)
LEMMA OtherPlace ==
    ASSUME Accounted,
           \/ Submit \/ PollTx \/ MoveItem \/ MoveDone
           \/ PopCompletionsDone \/ CompletionsDone
           \/ PollRx \/ PopRequest \/ PopRequestsDone \/ RequestsDone
           \/ UNCHANGED vars
    PROVE  Accounted'
<1>1. UNCHANGED <<completed_fifo, rxMoved, completed, txBatch, executing,
                  resolved, started>>
  BY DEF Submit, PollTx, MoveItem, MoveDone, PopCompletionsDone, CompletionsDone,
         PollRx, PopRequest, PopRequestsDone, RequestsDone, vars, fromVars,
         toVars, counters
<1>2. Back' = Back
  BY <1>1 DEF Back
<1> QED BY <1>1, <1>2, AccountedFrame

LEMMA InitPlaceInv == Init => PlaceInv
<1> SUFFICES ASSUME Init PROVE PlaceInv
  OBVIOUS
<1>1. /\ completed_fifo = <<>> /\ completed = <<>> /\ txBatch = <<>> /\ rxMoved = 0
      /\ executing = {} /\ resolved = {} /\ Reached = 0
  BY DEF Init, Reached
<1>2. Back = <<>>
  <2>1. Len(<<>>) = 0 /\ SubSeq(<<>>, 1, 0) = <<>>
    BY SubSeqEmpty, EmptySeq
  <2>2. Drop(<<>>, 0) = <<>>
    BY <2>1 DEF Drop
  <2>3. <<>> \o <<>> = <<>>
    BY EmptySeq, ConcatEmptySeq
  <2> QED BY <1>1, <2>2, <2>3 DEF Back
<1>3. Range(<<>>) = {} /\ Len(<<>>) = 0 /\ 1 .. 0 = {} /\ Cardinality({}) = 0
  BY FS_EmptySet DEF Range
<1> QED BY <1>1, <1>2, <1>3, InitIInv DEF PlaceInv, Accounted

LEMMA StepPlaceInv == PlaceInv /\ [Next]_vars => PlaceInv'
BY StepIInv, ProcessItemPlace, RespondPlace, FlushItemPlace, FlushDonePlace,
   PopCompletionPlace, CompleteItemPlace, OtherPlace
DEF PlaceInv, Next, Sender, Receiver

-----------------------------------------------------------------------------
LEMMA TypeFromIInv == IInv => TypeOK
BY DEF IInv

(* The concatenation, by index.                                            *)
LEMMA InOrderFromIInv == IInv => StartedInOrder
<1> SUFFICES ASSUME IInv PROVE StartedInOrder
  OBVIOUS
<1> DEFINE rest == Drop(pending_fifo, txMoved)
           a == started \o rxBatch
           b == a \o pending
           c == b \o rest
           count == [i \in 1 .. submitted |-> i]
<1>0. TypeOK /\ InRuns /\ Numeric
  BY Parts
<1>1. /\ rest \in Seq(Items) /\ Len(rest) = Len(pending_fifo) - txMoved
      /\ \A i \in 1 .. Len(pending_fifo) - txMoved : rest[i] = pending_fifo[txMoved + i]
  BY <1>0, DropSeq DEF TypeOK
<1>2. started \in Seq(Items) /\ rxBatch \in Seq(Items) /\ pending \in Seq(Items)
  BY <1>0 DEF TypeOK
<1>3. CountsFrom(rest, Sent)
  <2>1. \A i \in 1 .. Len(pending_fifo) - txMoved :
            pending_fifo[txMoved + i] = Sent + i
    BY <1>0 DEF InRuns, Numeric
  <2> QED BY <1>1, <2>1 DEF CountsFrom
<1> HIDE DEF rest
<1>4. a \in Seq(Items) /\ Len(a) = Popped /\ CountsFrom(a, 0)
  BY <1>0, <1>2, ConcatCounts DEF InRuns, Reached, Popped, Numeric
<1> HIDE DEF a
<1>5. b \in Seq(Items) /\ Len(b) = Sent /\ CountsFrom(b, 0)
  BY <1>0, <1>2, <1>4, ConcatCounts DEF InRuns, Sent, Numeric
<1> HIDE DEF b
<1>6. c \in Seq(Items) /\ Len(c) = Sent + Len(rest) /\ CountsFrom(c, 0)
  BY <1>0, <1>1, <1>3, <1>5, ConcatCounts DEF Numeric
<1> HIDE DEF c
<1>7. Len(c) = submitted /\ submitted \in Nat
  BY <1>0, <1>1, <1>6 DEF InRuns, Numeric
<1>8. \A i \in 1 .. submitted : c[i] = i
  BY <1>7, <1>6 DEF CountsFrom
<1>9. c = count
  <2>1. c = [i \in 1 .. submitted |-> c[i]]
    BY <1>6, <1>7
  <2> QED BY <1>8, <2>1
<1> QED BY <1>9 DEF StartedInOrder, a, b, c, rest

LEMMA LengthFromIInv == IInv => QueueLengthExact
<1> SUFFICES ASSUME IInv PROVE QueueLengthExact
  OBVIOUS
<1>0. BatchesReset /\ Counted /\ Numeric
  BY Parts
<1>1. sent + Len(pending_fifo) = submitted /\ queueLen = sent - compl /\ queueLen >= 0
  BY <1>0 DEF Counted, Numeric
<1>2. ASSUME txPc = "idle"
      PROVE  queueLen = Len(pending) + Len(rxBatch) + Cardinality(executing)
                            + (Len(completed_fifo) - rxMoved) + Len(completed)
  <2>1. queueLen = Handed + Returning /\ txTaken = 0
    BY <1>0, <1>2 DEF BatchesReset, Counted, Numeric
  <2>2. Handed + Returning = Handed + (Len(completed_fifo) - rxMoved) + Len(completed)
    BY <1>0, <2>1 DEF Returning, Numeric
  <2> QED BY <2>1, <2>2 DEF Handed
<1>3. ASSUME rxPc = "idle" PROVE received = Len(started)
  <2>1. rxTaken = 0 /\ Len(rxBatch) = 0
    BY <1>0, <1>3 DEF BatchesReset
  <2>2. received = Reached
    BY <1>0, <2>1 DEF Counted, Numeric
  <2> QED BY <2>2 DEF Reached
<1> QED BY <1>1, <1>2, <1>3 DEF QueueLengthExact

(* A run of numbers takes each once.                                       *)
LEMMA RunRange ==
    ASSUME NEW s \in Seq(Items), NEW from \in Nat, CountsFrom(s, from)
    PROVE  Range(s) = from + 1 .. from + Len(s)
<1>1. Len(s) \in Nat /\ DOMAIN s = 1 .. Len(s)
  BY LenProperties
<1>2. ASSUME NEW n \in Range(s) PROVE n \in from + 1 .. from + Len(s)
  <2>1. PICK i \in 1 .. Len(s) : n = s[i]
    BY <1>1 DEF Range
  <2> QED BY <1>1, <2>1 DEF CountsFrom
<1>3. ASSUME NEW n \in from + 1 .. from + Len(s) PROVE n \in Range(s)
  <2>1. n - from \in 1 .. Len(s) /\ from + (n - from) = n
    BY <1>1
  <2>2. s[n - from] = n
    BY <2>1 DEF CountsFrom
  <2> QED BY <1>1, <2>1, <2>2 DEF Range
<1> QED BY <1>2, <1>3

LEMMA ConcatRange ==
    ASSUME NEW s \in Seq(Items), NEW t \in Seq(Items)
    PROVE  /\ s \o t \in Seq(Items) /\ Len(s \o t) = Len(s) + Len(t)
           /\ Range(s \o t) = Range(s) \union Range(t)
BY ConcatProperties, RangeConcatenation

(* The items on the way there are the numbers after those of the items     *)
(* started; the rest of the places are counted in Accounted.               *)
LEMMA PlaceFromPlaceInv == PlaceInv => ExactlyOnePlace
<1> SUFFICES ASSUME PlaceInv PROVE ExactlyOnePlace
  OBVIOUS
<1>0. TypeOK /\ InRuns /\ Numeric /\ Accounted
  BY Parts DEF PlaceInv
<1> DEFINE ahead == Drop(pending_fifo, txMoved)
           back == Drop(completed_fifo, rxMoved)
           a == ahead \o pending
           b == a \o rxBatch
           c == b \o back
           d == c \o completed
<1>1. /\ ahead \in Seq(Items) /\ back \in Seq(Items) /\ pending \in Seq(Items)
      /\ rxBatch \in Seq(Items) /\ completed \in Seq(Items) /\ txBatch \in Seq(Items)
      /\ Len(ahead) = Len(pending_fifo) - txMoved
      /\ \A i \in 1 .. Len(pending_fifo) - txMoved : ahead[i] = pending_fifo[txMoved + i]
  BY <1>0, DropSeq DEF TypeOK
<1>2. CountsFrom(ahead, Sent)
  <2>1. \A i \in 1 .. Len(pending_fifo) - txMoved :
            pending_fifo[txMoved + i] = Sent + i
    BY <1>0 DEF InRuns, Numeric
  <2> QED BY <1>1, <2>1 DEF CountsFrom
<1>3. OnTheWay = d \o txBatch /\ Back = (txBatch \o completed) \o back
  BY DEF OnTheWay, Back
<1> HIDE DEF ahead, back
<1>4. /\ Range(rxBatch) = Reached + 1 .. Popped
      /\ Range(pending) = Popped + 1 .. Sent
      /\ Range(ahead) = Sent + 1 .. submitted
  <2>1. submitted = Sent + Len(ahead)
    BY <1>0, <1>1 DEF InRuns
  <2> QED BY <1>0, <1>1, <1>2, <2>1, RunRange DEF InRuns, Numeric, Popped, Sent
<1>5. /\ a \in Seq(Items) /\ Len(a) = Len(ahead) + Len(pending)
      /\ Range(a) = Range(ahead) \union Range(pending)
  BY <1>1, ConcatRange
<1> HIDE DEF a
<1>6. /\ b \in Seq(Items) /\ Len(b) = Len(a) + Len(rxBatch)
      /\ Range(b) = Range(a) \union Range(rxBatch)
  BY <1>1, <1>5, ConcatRange
<1> HIDE DEF b
<1>7. /\ c \in Seq(Items) /\ Len(c) = Len(b) + Len(back)
      /\ Range(c) = Range(b) \union Range(back)
  BY <1>1, <1>6, ConcatRange
<1> HIDE DEF c
<1>8. /\ d \in Seq(Items) /\ Len(d) = Len(c) + Len(completed)
      /\ Range(d) = Range(c) \union Range(completed)
  BY <1>1, <1>7, ConcatRange
<1> HIDE DEF d
<1>9. /\ Len(OnTheWay) = Len(d) + Len(txBatch)
      /\ Range(OnTheWay) = Range(d) \union Range(txBatch)
  BY <1>1, <1>3, <1>8, ConcatRange
<1>10. /\ Len(Back) = Len(txBatch) + Len(completed) + Len(back)
       /\ Range(Back) = Range(txBatch) \union Range(completed) \union Range(back)
  <2> DEFINE e == txBatch \o completed
  <2>1. /\ e \in Seq(Items) /\ Len(e) = Len(txBatch) + Len(completed)
        /\ Range(e) = Range(txBatch) \union Range(completed)
    BY <1>1, ConcatRange
  <2>2. Back = e \o back
    BY <1>3
  <2> HIDE DEF e
  <2>3. Len(Back) = Len(e) + Len(back) /\ Range(Back) = Range(e) \union Range(back)
    BY <1>1, <2>1, <2>2, ConcatRange
  <2> QED BY <2>1, <2>3
<1>11. Range(OnTheWay) = (Reached + 1 .. submitted) \union Range(Back)
  <2>1. Reached <= Popped /\ Popped <= Sent /\ Sent <= submitted
    BY <1>0, <1>1 DEF InRuns, Numeric, Popped, Sent
  <2>2. Reached + 1 .. submitted
            = (Sent + 1 .. submitted) \union (Popped + 1 .. Sent)
                  \union (Reached + 1 .. Popped)
    BY <1>0, <2>1 DEF Numeric
  <2> QED BY <1>4, <1>5, <1>6, <1>7, <1>8, <1>9, <1>10, <2>2
<1>12. Range(OnTheWay) \union executing \union resolved = 1 .. submitted
  <2>1. Reached <= submitted
    BY <1>0, <1>1 DEF InRuns, Numeric, Popped, Sent
  <2>2. 1 .. submitted = (Reached + 1 .. submitted) \union (1 .. Reached)
    BY <1>0, <2>1 DEF Numeric
  <2> QED BY <1>0, <1>11, <2>2 DEF Accounted
<1>13. Len(OnTheWay) + Cardinality(executing) + Cardinality(resolved) = submitted
  <2>1. /\ Len(ahead) \in Nat /\ Len(pending) \in Nat /\ Len(rxBatch) \in Nat
        /\ Len(back) \in Nat /\ Len(completed) \in Nat /\ Len(txBatch) \in Nat
        /\ Cardinality(executing) \in Nat /\ Cardinality(resolved) \in Nat
    BY <1>0, <1>1, FiniteItems
  <2>2. Len(OnTheWay) = Len(ahead) + Len(pending) + Len(rxBatch) + Len(Back)
    BY ONLY <1>5, <1>6, <1>7, <1>8, <1>9, <1>10, <2>1
  <2>3. Len(Back) + Cardinality(executing) + Cardinality(resolved) = Reached
    BY <1>0 DEF Accounted
  <2>4. submitted = Reached + Len(rxBatch) + Len(pending) + Len(ahead)
    BY <1>0, <1>1 DEF InRuns, Popped, Sent
  <2>5. Len(Back) \in Nat /\ Reached \in Nat
    BY <1>0, <1>10, <2>1 DEF Numeric
  <2> DEFINE ah == Len(ahead)
             pe == Len(pending)
             rx == Len(rxBatch)
             bk == Len(Back)
             x == Cardinality(executing)
             y == Cardinality(resolved)
  <2> HIDE DEF ah, pe, rx, bk, x, y
  <2>6. /\ ah \in Nat /\ pe \in Nat /\ rx \in Nat /\ bk \in Nat
        /\ x \in Nat /\ y \in Nat /\ Reached \in Nat
    BY <2>1, <2>5 DEF ah, pe, rx, bk, x, y
  <2>7. Len(OnTheWay) = ah + pe + rx + bk
    BY <2>2 DEF ah, pe, rx, bk
  <2>8. submitted = Reached + rx + pe + ah
    BY <2>4 DEF ah, pe, rx
  <2>9. bk + x + y = Reached
    BY <2>3 DEF bk, x, y
  <2> DEFINE m == ah + pe + rx
             n == Len(OnTheWay)
  <2>10. m \in Nat /\ n = m + bk /\ submitted = Reached + m
    BY ONLY <2>6, <2>7, <2>8
  <2> HIDE DEF m, n
  <2>11. n + x + y = submitted
    BY ONLY <2>6, <2>9, <2>10
  <2> QED BY <2>11 DEF n, x, y
<1> QED BY <1>12, <1>13 DEF ExactlyOnePlace, Range

(* The inductive invariant holds.                                          *)
THEOREM InvHolds == Spec => []IInv
BY InitIInv, StepIInv, PTL DEF Spec

(* The invariant extended by where the started items are.                  *)
THEOREM PlaceInvHolds == Spec => []PlaceInv
BY InitPlaceInv, StepPlaceInv, PTL DEF Spec

(* The rings never hold more than their capacity, and what is moved or     *)
(* taken from a sequence was in it: the type invariant.                    *)
THEOREM TypeCorrect == Spec => []TypeOK
BY InvHolds, TypeFromIInv, PTL

(* Requests start in the order they were submitted, none skipped, none     *)
(* twice, whatever the ring, the batch size and the interleaving.          *)
THEOREM StartedInOrderHolds == Spec => []StartedInOrder
BY InvHolds, InOrderFromIInv, PTL

(* The statistics agree with where the items are, and the unsigned         *)
(* _current_queue_length never wraps below zero.                           *)
THEOREM QueueLengthExactHolds == Spec => []QueueLengthExact
BY InvHolds, LengthFromIInv, PTL

(* A work item is in exactly one place from submit() until it is deleted:  *)
(* never lost between the rings, the batches and the fifos, and never      *)
(* completed twice.                                                        *)
THEOREM ExactlyOnePlaceHolds == Spec => []ExactlyOnePlace
BY PlaceInvHolds, PlaceFromPlaceInv, PTL
=============================================================================
