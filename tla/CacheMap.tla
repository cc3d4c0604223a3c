------------------------------ MODULE CacheMap ------------------------------
(***************************************************************************)
(* What a memcached server promises of the items of its keys: an entry is  *)
(* written by one request at a time, a write to a present entry follows on *)
(* the version it replaces, and any entry may be lost at any time, by      *)
(* expiry, eviction, reclaiming or a flush.                                *)
(***************************************************************************)
EXTENDS Naturals

CONSTANT Keys

VARIABLE version    \* of the entry of each key, 0 where there is none

Init == version = [k \in Keys |-> 0]

Lost(k) == version'[k] = 0

Kept(k) == version'[k] = version[k]

Lose == /\ version' \in [Keys -> Nat]
        /\ \A k \in Keys : Kept(k) \/ Lost(k)

Write(k) ==
    /\ version' \in [Keys -> Nat]
    /\ version'[k] = version[k] + 1
    /\ \A j \in Keys \ {k} : Kept(j) \/ Lost(j)

Next == Lose \/ \E k \in Keys : Write(k)

Spec == Init /\ [][Next]_version
=============================================================================
