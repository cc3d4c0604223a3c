---------------------------- MODULE BoundedFifo ----------------------------
(***************************************************************************)
(* What one direction of an smp_message_queue promises its two ends: a     *)
(* first-in first-out channel between ONE producer and ONE consumer that   *)
(* holds at most Bound items.  push() refuses an item only when the channel *)
(* is full, pop() comes back empty-handed only when it is empty.           *)
(* SpscRing (the lock-free ring of smp.hh) implements this specification.  *)
(***************************************************************************)
EXTENDS Naturals, Sequences

CONSTANTS
    Bound,   \* the largest number of items the channel holds
    Items,   \* what is sent through it
    NoItem   \* what the consumer holds before its first successful pop

VARIABLES
    q,       \* the items sent and not yet received, oldest first
    pushed,  \* what the last push returned: TRUE (queued) or FALSE (full)
    popped,  \* what the last pop returned: TRUE (got) or FALSE (empty)
    got      \* the item the last successful pop delivered

vars == <<q, pushed, popped, got>>

Init ==
    /\ q = <<>>
    /\ pushed = FALSE
    /\ popped = FALSE
    /\ got = NoItem

Push(x) ==
    /\ Len(q) < Bound
    /\ q' = Append(q, x)
    /\ pushed' = TRUE
    /\ UNCHANGED <<popped, got>>

RefusePush ==
    /\ Len(q) = Bound
    /\ pushed' = FALSE
    /\ UNCHANGED <<q, popped, got>>

Pop ==
    /\ q # <<>>
    /\ got' = Head(q)
    /\ q' = Tail(q)
    /\ popped' = TRUE
    /\ UNCHANGED pushed

RefusePop ==
    /\ q = <<>>
    /\ popped' = FALSE
    /\ UNCHANGED <<q, pushed, got>>

Next ==
    \/ \E x \in Items : Push(x)
    \/ RefusePush
    \/ Pop
    \/ RefusePop

Spec == Init /\ [][Next]_vars
=============================================================================
