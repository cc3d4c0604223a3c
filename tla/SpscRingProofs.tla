--------------------------- MODULE SpscRingProofs ---------------------------
(***************************************************************************)
(* Proofs about SpscRing, for every Capacity and every set of Items.       *)
(***************************************************************************)
EXTENDS SpscRing, Integers, SequenceTheorems, TLAPS

(* (current + 1) % Capacity wraps once: the form in which the provers use  *)
(* next_index().                                                           *)
LEMMA NextIndexValue ==
    ASSUME NEW i \in Slots
    PROVE  NextIndex(i) = IF i = Capacity - 1 THEN 0 ELSE i + 1
<1>1. CASE i = Capacity - 1
  BY <1>1, CapacityAssumption DEF NextIndex, Slots
<1>2. CASE i # Capacity - 1
  BY <1>2, CapacityAssumption DEF NextIndex, Slots
<1> QED BY <1>1, <1>2

LEMMA SlotFromValue ==
    ASSUME NEW h \in Slots, NEW k \in Slots
    PROVE  SlotFrom(h, k) = IF h + k < Capacity THEN h + k ELSE h + k - Capacity
<1>1. CASE h + k < Capacity
  BY <1>1, CapacityAssumption DEF SlotFrom, Slots
<1>2. CASE h + k >= Capacity
  BY <1>2, CapacityAssumption DEF SlotFrom, Slots
<1> QED BY <1>1, <1>2, CapacityAssumption DEF Slots

LEMMA DistanceValue ==
    ASSUME NEW h \in Slots, NEW t \in Slots
    PROVE  Distance(h, t) = IF h <= t THEN t - h ELSE t + Capacity - h
<1>1. CASE h <= t
  BY <1>1, CapacityAssumption DEF Distance, Slots
<1>2. CASE h > t
  BY <1>2, CapacityAssumption DEF Distance, Slots
<1> QED BY <1>1, <1>2, CapacityAssumption DEF Slots

(* The arithmetic of the index pair, once for all: the distance of two     *)
(* slots, and what publishing one index does to it.                        *)
LEMMA RingArithmetic ==
    ASSUME NEW h \in Slots, NEW t \in Slots
    PROVE  /\ Distance(h, t) \in Slots
           /\ NextIndex(t) \in Slots
           /\ Distance(h, t) = 0 <=> h = t
           /\ NextIndex(t) = h <=> Distance(h, t) = Capacity - 1
           /\ Distance(h, t) < Capacity - 1
                 => Distance(h, NextIndex(t)) = Distance(h, t) + 1
           /\ Distance(h, t) > 0
                 => Distance(NextIndex(h), t) = Distance(h, t) - 1
<1> DEFINE nh == NextIndex(h)
<1> DEFINE nt == NextIndex(t)
<1>1. h \in Int /\ t \in Int /\ 0 <= h /\ h < Capacity /\ 0 <= t /\ t < Capacity
      /\ Capacity \in Int
  BY CapacityAssumption DEF Slots
<1>2. nt = IF t = Capacity - 1 THEN 0 ELSE t + 1
  BY NextIndexValue
<1>3. nh = IF h = Capacity - 1 THEN 0 ELSE h + 1
  BY NextIndexValue
<1>4. nh \in Slots /\ nt \in Slots
  BY <1>1, <1>2, <1>3 DEF Slots
<1>5. Distance(h, t) = IF h <= t THEN t - h ELSE t + Capacity - h
  BY DistanceValue
<1>6. Distance(h, nt) = IF h <= nt THEN nt - h ELSE nt + Capacity - h
  BY <1>4, DistanceValue
<1>7. Distance(nh, t) = IF nh <= t THEN t - nh ELSE t + Capacity - nh
  BY <1>4, DistanceValue
<1> HIDE DEF nh, nt
<1>8. Distance(h, t) \in Slots /\ (Distance(h, t) = 0 <=> h = t)
  BY <1>1, <1>5 DEF Slots
<1>9. nt = h <=> Distance(h, t) = Capacity - 1
  BY <1>1, <1>2, <1>5
<1>10. Distance(h, t) < Capacity - 1 => Distance(h, nt) = Distance(h, t) + 1
  BY <1>1, <1>2, <1>5, <1>6
<1>11. Distance(h, t) > 0 => Distance(nh, t) = Distance(h, t) - 1
  BY <1>1, <1>3, <1>5, <1>7
<1> QED BY <1>4, <1>8, <1>9, <1>10, <1>11 DEF nh, nt

LEMMA InitInv == Init => Inv
<1> SUFFICES ASSUME Init PROVE Inv
  OBVIOUS
<1>0. 0 \in Slots
  BY CapacityAssumption DEF Slots
<1>1. TypeOK
  BY <1>0 DEF Init, TypeOK
<1>2. RoomWhilePushing /\ ItemWhilePopping /\ PushHasItem /\ InFlightIntact
  BY DEF Init, RoomWhilePushing, ItemWhilePopping, PushHasItem, InFlightIntact
<1> QED BY <1>1, <1>2 DEF Inv

LEMMA StepInv == Inv /\ [Next]_vars => Inv'
<1> SUFFICES ASSUME Inv, [Next]_vars PROVE Inv'
  OBVIOUS
<1>0. Size \in Nat /\ Capacity \in Nat
  <2>1. Size \in Slots
    BY RingArithmetic DEF Inv, TypeOK, Size
  <2> QED BY <2>1, CapacityAssumption DEF Slots
<1> USE DEF Inv, TypeOK, RoomWhilePushing, ItemWhilePopping, PushHasItem,
            InFlightIntact, producerVars, consumerVars
<1>1. CASE PushFull
  BY <1>1 DEF PushFull, Size
<1>2. ASSUME NEW x \in Items, PushBegin(x) PROVE Inv'
  <2>1. Size # Capacity - 1 /\ Size \in Slots
    BY <1>2, RingArithmetic DEF PushBegin, IsFull, Size
  <2>2. Size < Capacity - 1 /\ Size' = Size
    BY <1>2, <2>1, CapacityAssumption DEF PushBegin, Slots, Size
  <2> QED BY <1>2, <2>2 DEF PushBegin
<1>3. CASE WriteSlot
  <2>1. cPc = "publish" => head # tail
    BY <1>0, RingArithmetic DEF Size
  <2>2. Size' = Size
    BY <1>3 DEF WriteSlot, Size
  <2> QED BY <1>3, <2>1, <2>2 DEF WriteSlot
<1>4. CASE PublishTail
  <2>1. tail' \in Slots /\ Size' = Size + 1
    BY <1>4, RingArithmetic DEF PublishTail, Size
  <2> QED BY <1>0, <1>4, <2>1 DEF PublishTail
<1>5. CASE PopEmpty
  BY <1>5 DEF PopEmpty, Size
<1>6. CASE PopBegin
  <2>1. Size > 0
    BY <1>0, <1>6, RingArithmetic DEF PopBegin, IsEmpty, Size
  <2> QED BY <1>6, <2>1 DEF PopBegin, Size
<1>7. CASE ReadSlot
  BY <1>7 DEF ReadSlot, Size
<1>8. CASE PublishHead
  <2>1. head' \in Slots /\ Size' = Size - 1
    BY <1>8, RingArithmetic DEF PublishHead, Size
  <2> QED BY <1>0, <1>8, <2>1 DEF PublishHead
<1>9. CASE UNCHANGED vars
  BY <1>9 DEF vars, Size
<1> QED
  BY <1>1, <1>2, <1>3, <1>4, <1>5, <1>6, <1>7, <1>8, <1>9
  DEF Next, Producer, Consumer

(* The index pair, the in-flight copies and the types are as Inv says in   *)
(* every reachable state of the ring.                                      *)
THEOREM InvHolds == Spec => []Inv
BY InitInv, StepInv, PTL DEF Spec

(* The indices never leave the ring, and slots, program counters and items *)
(* in hand keep their types.                                               *)
THEOREM TypeCorrect == Spec => []TypeOK
<1>1. Inv => TypeOK
  BY DEF Inv
<1> QED BY <1>1, InvHolds, PTL

(* The two threads never touch the same slot at the same time.             *)
THEOREM NoDataRaceHolds == Spec => []NoDataRace
<1>1. Inv => NoDataRace
  BY RingArithmetic, CapacityAssumption
  DEF Inv, TypeOK, ItemWhilePopping, NoDataRace, Size, Slots
<1> QED BY <1>1, InvHolds, PTL
-----------------------------------------------------------------------------
(* Refinement: what each step does to the sequence of published items.     *)

(* The k-th slot from h on, for h and t the two indices of the ring: below *)
(* the distance it is never t, at the distance it is t, and the k-th slot  *)
(* from next_index(h) on is the (k + 1)-th from h on.                      *)
LEMMA SlotArithmetic ==
    ASSUME NEW h \in Slots, NEW t \in Slots, NEW k \in Nat,
           k <= Distance(h, t)
    PROVE  /\ SlotFrom(h, k) \in Slots
           /\ SlotFrom(h, k) = t <=> k = Distance(h, t)
           /\ k < Distance(h, t) => SlotFrom(NextIndex(h), k) = SlotFrom(h, k + 1)
<1> DEFINE nh == NextIndex(h)
<1> DEFINE d == Distance(h, t)
<1>1. h \in Int /\ t \in Int /\ 0 <= h /\ h < Capacity /\ 0 <= t /\ t < Capacity
      /\ Capacity \in Int /\ k \in Int /\ 0 <= k
  BY CapacityAssumption DEF Slots
<1>2. nh = IF h = Capacity - 1 THEN 0 ELSE h + 1
  BY NextIndexValue
<1>3. d = IF h <= t THEN t - h ELSE t + Capacity - h
  BY DistanceValue
<1>4. nh \in Slots /\ d \in Slots
  BY <1>1, <1>2, <1>3 DEF Slots
<1>5. k \in Slots /\ k < Capacity /\ (k < d => k + 1 \in Slots)
  BY <1>1, <1>3 DEF Slots
<1>6. SlotFrom(h, k) = IF h + k < Capacity THEN h + k ELSE h + k - Capacity
  BY <1>5, SlotFromValue
<1>7. SlotFrom(nh, k) = IF nh + k < Capacity THEN nh + k ELSE nh + k - Capacity
  BY <1>4, <1>5, SlotFromValue
<1>8. k < d => SlotFrom(h, k + 1) =
        IF h + (k + 1) < Capacity THEN h + (k + 1) ELSE h + (k + 1) - Capacity
  BY <1>5, SlotFromValue
<1> HIDE DEF nh
<1>9. SlotFrom(h, k) \in Slots
  BY <1>1, <1>5, <1>6 DEF Slots
<1>10. SlotFrom(h, k) = t <=> k = d
  <2> HIDE DEF d
  <2>1. k <= d
    BY DEF d
  <2> QED BY <2>1, <1>1, <1>3, <1>6
<1>11. k < d => SlotFrom(nh, k) = SlotFrom(h, k + 1)
  <2> HIDE DEF d
  <2> QED BY <1>1, <1>2, <1>5, <1>7, <1>8
<1> QED BY <1>9, <1>10, <1>11 DEF nh

LEMMA ContentsSeq ==
    ASSUME Inv
    PROVE  /\ Contents \in Seq(Items \union {NoItem})
           /\ Len(Contents) = Size
           /\ Size \in Nat
<1>1. head \in Slots /\ tail \in Slots /\ buffer \in [Slots -> Items \union {NoItem}]
  BY DEF Inv, TypeOK
<1>2. Size \in Nat
  <2>1. Size \in Slots
    BY <1>1, RingArithmetic DEF Size
  <2> QED BY <2>1, CapacityAssumption DEF Slots
<1>3. ASSUME NEW i \in 1 .. Size
      PROVE  buffer[SlotFrom(head, i - 1)] \in Items \union {NoItem}
  <2>1. i - 1 \in Nat /\ i - 1 <= Size
    BY <1>2
  <2>2. SlotFrom(head, i - 1) \in Slots
    BY <1>1, <2>1, SlotArithmetic DEF Size
  <2> QED BY <1>1, <2>2
<1> QED BY <1>2, <1>3 DEF Contents

(* Writing the slot at _tail leaves the published items alone.             *)
LEMMA WriteSlotContents ==
    ASSUME Inv, WriteSlot
    PROVE  Contents' = Contents
<1>1. head \in Slots /\ tail \in Slots /\ buffer \in [Slots -> Items \union {NoItem}]
  BY DEF Inv, TypeOK
<1>2. Size \in Nat /\ Size' = Size /\ head' = head
  BY ContentsSeq DEF WriteSlot, Size
<1>3. ASSUME NEW i \in 1 .. Size
      PROVE  buffer'[SlotFrom(head, i - 1)] = buffer[SlotFrom(head, i - 1)]
  <2>1. i - 1 \in Nat /\ i - 1 <= Size /\ i - 1 # Size
    BY <1>2
  <2>2. SlotFrom(head, i - 1) \in Slots /\ SlotFrom(head, i - 1) # tail
    BY <1>1, <2>1, SlotArithmetic DEF Size
  <2> QED BY <1>1, <2>2 DEF WriteSlot
<1> QED BY <1>2, <1>3 DEF Contents

(* Publishing _tail is Push.                                               *)
LEMMA PublishTailContents ==
    ASSUME Inv, PublishTail
    PROVE  /\ pItem \in Items
           /\ Len(Contents) < Capacity - 1
           /\ Contents' = Append(Contents, pItem)
<1>1. head \in Slots /\ tail \in Slots /\ pItem \in Items /\ Size < Capacity - 1
      /\ buffer[tail] = pItem
  BY DEF Inv, TypeOK, PublishTail, PushHasItem, RoomWhilePushing, InFlightIntact
<1>2. Size \in Nat /\ Len(Contents) = Size
  BY ContentsSeq
<1>3. Size' = Size + 1 /\ head' = head /\ buffer' = buffer
  BY <1>1, RingArithmetic DEF PublishTail, Size
<1>4. SlotFrom(head, Size) = tail
  BY <1>1, <1>2, SlotArithmetic DEF Size
<1> DEFINE S == Items \union {NoItem}
<1> DEFINE longer == Append(Contents, pItem)
<1>5. longer \in Seq(S) /\ Len(longer) = Size + 1
      /\ (\A i \in 1 .. Size : longer[i] = Contents[i])
      /\ longer[Size + 1] = pItem
  BY <1>1, <1>2, ContentsSeq, AppendProperties
<1>6. \A i \in 1 .. Size + 1 : longer[i] = buffer[SlotFrom(head, i - 1)]
  <2>1. \A i \in 1 .. Size : Contents[i] = buffer[SlotFrom(head, i - 1)]
    BY DEF Contents
  <2>2. (Size + 1) - 1 = Size
    BY <1>2
  <2> HIDE DEF longer
  <2> QED BY <1>1, <1>2, <1>4, <1>5, <2>1, <2>2
<1>7. Contents' = [i \in 1 .. Size + 1 |-> buffer[SlotFrom(head, i - 1)]]
  BY <1>3 DEF Contents
<1>8. Contents' = longer
  <2> HIDE DEF longer
  <2>1. \A i \in 1 .. Size + 1 : longer[i] \in S
    BY <1>2, <1>5
  <2>2. Contents' \in Seq(S) /\ Len(Contents') = Size + 1
    BY <1>2, <1>6, <1>7, <2>1
  <2> QED BY <1>5, <1>6, <1>7, <2>2, SeqEqual
<1> QED BY <1>1, <1>2, <1>8

(* Publishing _head is Pop.                                                *)
LEMMA PublishHeadContents ==
    ASSUME Inv, PublishHead
    PROVE  /\ Contents # <<>>
           /\ cItem = Head(Contents)
           /\ Contents' = Tail(Contents)
<1>1. head \in Slots /\ tail \in Slots /\ Size > 0 /\ buffer[head] = cItem
  BY DEF Inv, TypeOK, PublishHead, ItemWhilePopping, InFlightIntact
<1>2. Size \in Nat /\ Len(Contents) = Size /\ Contents \in Seq(Items \union {NoItem})
  BY ContentsSeq
<1>3. Size' = Size - 1 /\ head' = NextIndex(head) /\ buffer' = buffer
  BY <1>1, RingArithmetic DEF PublishHead, Size
<1>4. Contents # <<>>
  BY <1>1, <1>2
<1>5. cItem = Head(Contents)
  <2>1. SlotFrom(head, 0) = head
    BY <1>1, SlotFromValue, CapacityAssumption DEF Slots
  <2>2. Contents[1] = buffer[SlotFrom(head, 1 - 1)]
    BY <1>1, <1>2 DEF Contents
  <2> QED BY <1>1, <1>2, <1>4, <2>1, <2>2
<1>6. Contents' = [i \in 1 .. Size - 1 |-> buffer[SlotFrom(NextIndex(head), i - 1)]]
  BY <1>3 DEF Contents
<1> DEFINE S == Items \union {NoItem}
<1> DEFINE rest == Tail(Contents)
<1>7. rest \in Seq(S) /\ Len(rest) = Size - 1
      /\ \A i \in 1 .. Size - 1 : rest[i] = Contents[i + 1]
  BY <1>2, <1>4, HeadTailProperties
<1>8. ASSUME NEW i \in 1 .. Size - 1
      PROVE  Contents[i + 1] = buffer[SlotFrom(NextIndex(head), i - 1)]
  <2>1. i - 1 \in Nat /\ i - 1 < Size /\ i + 1 \in 1 .. Size
        /\ (i + 1) - 1 = (i - 1) + 1
    BY <1>2
  <2>2. SlotFrom(NextIndex(head), i - 1) = SlotFrom(head, (i - 1) + 1)
    BY <1>1, <1>2, <2>1, SlotArithmetic DEF Size
  <2>3. Contents[i + 1] = buffer[SlotFrom(head, (i + 1) - 1)]
    BY <2>1 DEF Contents
  <2> QED BY <2>1, <2>2, <2>3
<1>9. Contents' = rest
  <2> HIDE DEF rest, S
  <2>1. Size - 1 \in Nat /\ \A i \in 1 .. Size - 1 : rest[i] \in S
    BY <1>1, <1>2, <1>7
  <2>2. \A i \in 1 .. Size - 1 : Contents'[i] = rest[i]
    BY <1>6, <1>7, <1>8, <2>1
  <2>3. Contents' \in Seq(S) /\ Len(Contents') = Size - 1
    <3>1. \A i \in 1 .. Size - 1 : buffer[SlotFrom(NextIndex(head), i - 1)] \in S
      BY <1>7, <1>8, <2>1
    <3> QED BY <1>6, <2>1, <3>1
  <2> QED BY <1>7, <2>1, <2>2, <2>3, SeqEqual
<1> QED BY <1>4, <1>5, <1>9

-----------------------------------------------------------------------------
LEMMA InitFifo == Init => Fifo!Init
<1> SUFFICES ASSUME Init PROVE Contents = <<>>
  BY DEF Init, Fifo!Init
<1>1. 0 \in Slots
  BY CapacityAssumption DEF Slots
<1>2. Size = 0
  BY <1>1, RingArithmetic DEF Init, Size
<1> QED BY <1>2 DEF Contents

(* Every step of the ring is a step of the FIFO channel or changes nothing *)
(* the channel shows: pushes and pops take effect when they publish their  *)
(* index, refusals when they load the other side's.                        *)
LEMMA StepFifo == Inv /\ [Next]_vars => [Fifo!Next]_Fifo!vars
<1> SUFFICES ASSUME Inv, [Next]_vars PROVE [Fifo!Next]_Fifo!vars
  OBVIOUS
<1> USE DEF Fifo!vars, producerVars, consumerVars
<1>0. head \in Slots /\ tail \in Slots /\ Len(Contents) = Size /\ Size \in Nat
  BY ContentsSeq DEF Inv, TypeOK
<1>1. CASE PushFull
  <2>1. Len(Contents) = Capacity - 1
    BY <1>0, <1>1, RingArithmetic DEF PushFull, IsFull, Size
  <2>2. Contents' = Contents
    BY <1>1 DEF PushFull, Contents, Size
  <2>3. Fifo!RefusePush
    BY <1>1, <2>1, <2>2 DEF PushFull, Fifo!RefusePush
  <2> QED BY <2>3 DEF Fifo!Next
<1>2. ASSUME NEW x \in Items, PushBegin(x) PROVE UNCHANGED Fifo!vars
  BY <1>2 DEF PushBegin, Contents, Size
<1>3. CASE WriteSlot
  <2>1. UNCHANGED Fifo!vars
    BY <1>3, WriteSlotContents DEF WriteSlot
  <2> QED BY <2>1
<1>4. CASE PublishTail
  <2>1. pItem \in Items /\ Fifo!Push(pItem)
    BY <1>4, PublishTailContents DEF PublishTail, Fifo!Push
  <2> QED BY <2>1 DEF Fifo!Next
<1>5. CASE PopEmpty
  <2>1. Size = 0
    BY <1>0, <1>5, RingArithmetic DEF PopEmpty, IsEmpty, Size
  <2>2. Contents = <<>> /\ Contents' = Contents
    BY <1>5, <2>1 DEF PopEmpty, Contents, Size
  <2>3. Fifo!RefusePop
    BY <1>5, <2>2 DEF PopEmpty, Fifo!RefusePop
  <2> QED BY <2>3 DEF Fifo!Next
<1>6. CASE PopBegin
  BY <1>6 DEF PopBegin, Contents, Size
<1>7. CASE ReadSlot
  BY <1>7 DEF ReadSlot, Contents, Size
<1>8. CASE PublishHead
  <2>1. Fifo!Pop
    BY <1>8, PublishHeadContents DEF PublishHead, Fifo!Pop
  <2> QED BY <2>1 DEF Fifo!Next
<1>9. CASE UNCHANGED vars
  BY <1>9 DEF vars, Contents, Size
<1> QED
  BY <1>1, <1>2, <1>3, <1>4, <1>5, <1>6, <1>7, <1>8, <1>9
  DEF Next, Producer, Consumer

(* The ring implements the bounded FIFO channel of Capacity - 1 items.     *)
THEOREM RingImplementsFifo == Spec => ImplementsFifo
BY InvHolds, InitFifo, StepFifo, PTL DEF Spec, ImplementsFifo, Fifo!Spec
=============================================================================
