------------------------------ MODULE SpscRing ------------------------------
(***************************************************************************)
(* spsc_queue<T, Capacity> (src/include/future/smp.hh), the lock-free ring *)
(* between two reactors, one atomic access per step.                       *)
(*                                                                         *)
(* One producer thread calls push(), one consumer thread calls pop().  A   *)
(* call is three steps: load the other side's index, touch the slot,       *)
(* publish one's own index.  The slot accesses are ordinary memory         *)
(* accesses, so they are steps of their own and NoDataRace says that the   *)
(* two threads never touch the same slot at the same time.  The index      *)
(* stores are release and the loads of the other side's index acquire, so  *)
(* a slot access is seen before the index that publishes it: the order of  *)
(* the steps below is the order both threads see.                          *)
(***************************************************************************)
EXTENDS Naturals, Sequences

CONSTANTS
    Capacity,  \* slots of _buffer; Capacity - 1 of them hold items
    Items,     \* what is pushed (work_item pointers)
    NoItem     \* the contents of a slot never written

ASSUME CapacityAssumption == Capacity \in Nat \ {0}

VARIABLES
    head,      \* _head: the next slot to read, written by the consumer
    tail,      \* _tail: the next slot to write, written by the producer
    buffer,    \* _buffer
    pPc,       \* where the producer is in push()
    pItem,     \* push()'s argument
    pushed,    \* what the last push() returned
    cPc,       \* where the consumer is in pop()
    cItem,     \* pop()'s out-parameter, once the slot is read
    popped,    \* what the last pop() returned
    got        \* the item the last successful pop() handed to its caller

producerVars == <<pPc, pItem, pushed>>
consumerVars == <<cPc, cItem, popped, got>>
vars == <<head, tail, buffer, pPc, pItem, pushed, cPc, cItem, popped, got>>

Slots == 0 .. Capacity - 1

(* Operators whose names end in _mut are wrong on purpose: each is a        *)
(* plausible mistake in the definition after it that a property catches.   *)
NextIndex(current) == (current + 1) % Capacity

IsEmpty == head = tail

IsFull_mut == NextIndex(NextIndex(tail)) = head
IsFull == NextIndex(tail) = head

Init ==
    /\ head = 0
    /\ tail = 0
    /\ buffer = [s \in Slots |-> NoItem]
    /\ pPc = "idle" /\ pItem = NoItem /\ pushed = FALSE
    /\ cPc = "idle" /\ cItem = NoItem /\ popped = FALSE
    /\ got = NoItem

-----------------------------------------------------------------------------
(* push(item) *)

PushFull ==
    /\ pPc = "idle"
    /\ IsFull
    /\ pushed' = FALSE
    /\ UNCHANGED <<head, tail, buffer, pPc, pItem, consumerVars>>

PushBegin(x) ==
    /\ pPc = "idle"
    /\ ~IsFull
    /\ pPc' = "write"
    /\ pItem' = x
    /\ UNCHANGED <<head, tail, buffer, pushed, consumerVars>>

WriteSlot ==
    /\ pPc = "write"
    /\ buffer' = [buffer EXCEPT ![tail] = pItem]
    /\ pPc' = "publish"
    /\ UNCHANGED <<head, tail, pItem, pushed, consumerVars>>

PublishTail ==
    /\ pPc = "publish"
    /\ tail' = NextIndex(tail)
    /\ pPc' = "idle"
    /\ pushed' = TRUE
    /\ UNCHANGED <<head, buffer, pItem, consumerVars>>

(* pop(item) *)

PopEmpty ==
    /\ cPc = "idle"
    /\ IsEmpty
    /\ popped' = FALSE
    /\ UNCHANGED <<head, tail, buffer, producerVars, cPc, cItem, got>>

PopBegin_mut ==
    /\ cPc = "idle"
    /\ cPc' = "read"
    /\ UNCHANGED <<head, tail, buffer, producerVars, cItem, popped, got>>

PopBegin ==
    /\ cPc = "idle"
    /\ ~IsEmpty
    /\ cPc' = "read"
    /\ UNCHANGED <<head, tail, buffer, producerVars, cItem, popped, got>>

ReadSlot ==
    /\ cPc = "read"
    /\ cItem' = buffer[head]
    /\ cPc' = "publish"
    /\ UNCHANGED <<head, tail, buffer, producerVars, popped, got>>

PublishHead_mut ==
    /\ cPc = "publish"
    /\ cPc' = "idle"
    /\ popped' = TRUE
    /\ got' = cItem
    /\ UNCHANGED <<head, tail, buffer, producerVars, cItem>>

PublishHead ==
    /\ cPc = "publish"
    /\ head' = NextIndex(head)
    /\ cPc' = "idle"
    /\ popped' = TRUE
    /\ got' = cItem
    /\ UNCHANGED <<tail, buffer, producerVars, cItem>>

-----------------------------------------------------------------------------
Producer == PushFull \/ (\E x \in Items : PushBegin(x)) \/ WriteSlot \/ PublishTail
Consumer == PopEmpty \/ PopBegin \/ ReadSlot \/ PublishHead

Next == Producer \/ Consumer

Spec == Init /\ [][Next]_vars

(* A thread in the middle of a call goes on with it, and the consumer's    *)
(* reactor polls the ring over and over; nobody has to push.               *)
Fairness ==
    /\ WF_vars(WriteSlot \/ PublishTail)
    /\ WF_vars(Consumer)

FairSpec == Spec /\ Fairness

-----------------------------------------------------------------------------
TypeOK ==
    /\ head \in Slots
    /\ tail \in Slots
    /\ buffer \in [Slots -> Items \union {NoItem}]
    /\ pPc \in {"idle", "write", "publish"}
    /\ pItem \in Items \union {NoItem}
    /\ pushed \in BOOLEAN
    /\ cPc \in {"idle", "read", "publish"}
    /\ cItem \in Items \union {NoItem}
    /\ popped \in BOOLEAN
    /\ got \in Items \union {NoItem}

(* How far the tail index t is ahead of the head index h, and the k-th     *)
(* slot from h on.                                                         *)
Distance(h, t) == (t + Capacity - h) % Capacity
SlotFrom(h, k) == (h + k) % Capacity

(* How many items are published and not yet given back, and those items,   *)
(* oldest first.                                                           *)
Size == Distance(head, tail)
Contents == [i \in 1 .. Size |-> buffer[SlotFrom(head, i - 1)]]

(* What a thread knows inside a call: there is still a slot to write to    *)
(* while the producer is in push(), and still an item to read while the    *)
(* consumer is in pop(), however far the other thread has moved its index. *)
RoomWhilePushing == pPc # "idle" => Size < Capacity - 1
ItemWhilePopping == cPc # "idle" => Size > 0

(* Between reading the slot and publishing _head, the consumer holds a copy *)
(* of an item that is still in the ring: nothing may overwrite it, and the  *)
(* item written but not yet published stays as push() was given it.         *)
InFlightIntact ==
    /\ cPc = "publish" => buffer[head] = cItem
    /\ pPc = "publish" => buffer[tail] = pItem

PushHasItem == pPc # "idle" => pItem \in Items

(* The inductive invariant behind NoDataRace and ImplementsFifo.           *)
Inv ==
    /\ TypeOK
    /\ RoomWhilePushing
    /\ ItemWhilePopping
    /\ PushHasItem
    /\ InFlightIntact

(* The producer writes the slot at _tail while the consumer reads the slot *)
(* at _head with plain accesses: the two are never the same slot.          *)
NoDataRace == ~ (pPc = "write" /\ cPc = "read" /\ tail = head)

(* The ring is a FIFO channel of Capacity - 1 items: push() refuses only at *)
(* a moment when the channel is full, pop() only when it is empty, and what *)
(* pop() delivers is the oldest item not yet delivered.                     *)
Fifo == INSTANCE BoundedFifo WITH Bound <- Capacity - 1, q <- Contents

ImplementsFifo == Fifo!Spec

(* While the consumer keeps polling, an item that was published in the ring *)
(* is handed to a caller of pop().                                          *)
Delivered == \A x \in Items :
    (\E i \in DOMAIN Contents : Contents[i] = x) ~> (got = x)
=============================================================================
