------------------------------ MODULE TimerSet ------------------------------
(***************************************************************************)
(* timer_set (timer.hh): queued timers kept in Bits + 1 buckets.  The      *)
(* bucket of a timer is the number of leading bits its expiry shares with  *)
(* the time of the last expire(), so that a high bucket holds near         *)
(* expiries and the last one those already due.  A set is a record with    *)
(* the fields of the class; its operations return the next record.         *)
(***************************************************************************)
EXTENDS Integers, Sequences, FiniteSets
LOCAL INSTANCE SequencesExt
LOCAL INSTANCE FiniteSetsExt

CONSTANTS
    Timers,
    Bits      \* timestamp_bits: 63 in the code

ASSUME BitsAssumption == Bits \in Nat \ {0}

MaxTimestamp == 2^Bits - 1
Buckets == 0 .. Bits
LastBucket == Bits       \* n_buckets - 1

TimerSets == [last : 0 .. MaxTimestamp, next : 0 .. MaxTimestamp,
              buckets : [Buckets -> Seq(Timers)], nonEmpty : SUBSET Buckets]

EmptySet == [last |-> 0, next |-> MaxTimestamp,
             buckets |-> [i \in Buckets |-> <<>>], nonEmpty |-> {}]

(* The first k of the Bits bits of a and b are the same.                   *)
SharePrefix(a, b, k) == a \div 2^(Bits - k) = b \div 2^(Bits - k)

(* Operators whose names end in _mut are wrong on purpose: each is a        *)
(* plausible mistake in the definition after it that a property catches.   *)

GetIndex_mut(last, timestamp) ==
    IF timestamp <= last THEN LastBucket
    ELSE CHOOSE i \in 0 .. Bits - 1 :
             timestamp - last \in 2^(Bits - i - 1) .. 2^(Bits - i) - 1

(* get_index(): count_leading_zeros(timestamp ^ _last).                    *)
GetIndex(last, timestamp) ==
    IF timestamp <= last THEN LastBucket
    ELSE CHOOSE i \in 0 .. Bits - 1 :
             /\ SharePrefix(timestamp, last, i)
             /\ ~SharePrefix(timestamp, last, i + 1)

Insert(w, t, timestamp) ==
    LET i == GetIndex(w.last, timestamp)
    IN  [w EXCEPT !.buckets[i] = Append(@, t),
                  !.nonEmpty = @ \cup {i},
                  !.next = IF timestamp < @ THEN timestamp ELSE @]

(* What insert() returns.                                                  *)
LowersNext(w, timestamp) == timestamp < w.next

(* remove(): erases through the iterator the timer keeps; _next stays.     *)
RemoveTimer(w, t, timestamp) ==
    LET i == GetIndex(w.last, timestamp)
        rest == Remove(w.buckets[i], t)
    IN  [w EXCEPT !.buckets[i] = rest,
                  !.nonEmpty = IF rest = <<>> THEN @ \ {i} ELSE @]

-----------------------------------------------------------------------------
(* expire(now): whole buckets above the bucket of now are due; the bucket  *)
(* of now is sorted out, its later timers going to higher buckets.         *)

(* The non-empty buckets after bucket i, in the order of their index.      *)
Spliced(w, i) == FlattenSeq([k \in 1 .. Bits - i |-> w.buckets[i + k]])

Expired_mut(w, now, expiry) ==
    LET i == GetIndex(w.last, now)
    IN  Spliced(w, i) \o SelectSeq(w.buckets[i], LAMBDA t : expiry[t] < now)

(* The list expire() returns.                                              *)
Expired(w, now, expiry) ==
    LET i == GetIndex(w.last, now)
    IN  Spliced(w, i) \o SelectSeq(w.buckets[i], LAMBDA t : expiry[t] <= now)

AfterExpire_mut(w, now, expiry) ==
    LET i == GetIndex(w.last, now)
        cleared == [last |-> now, next |-> MaxTimestamp,
                    buckets |-> [b \in Buckets |->
                                   IF b >= i THEN <<>> ELSE w.buckets[b]],
                    nonEmpty |-> {b \in w.nonEmpty : b < i}]
        later == SelectSeq(w.buckets[i], LAMBDA t : expiry[t] > now)
    IN  FoldLeft(LAMBDA s, t : Insert(s, t, expiry[t]), cleared, later)

(* What expire() leaves in the set.                                        *)
AfterExpire(w, now, expiry) ==
    LET i == GetIndex(w.last, now)
        cleared == [last |-> now, next |-> MaxTimestamp,
                    buckets |-> [b \in Buckets |->
                                   IF b >= i THEN <<>> ELSE w.buckets[b]],
                    nonEmpty |-> {b \in w.nonEmpty : b < i}]
        later == SelectSeq(w.buckets[i], LAMBDA t : expiry[t] > now)
        kept == FoldLeft(LAMBDA s, t : Insert(s, t, expiry[t]), cleared, later)
        nearest == kept.buckets[Max(kept.nonEmpty)]
    IN  IF kept.next = MaxTimestamp /\ kept.nonEmpty # {}
        THEN [kept EXCEPT !.next = Min({expiry[t] : t \in ToSet(nearest)})]
        ELSE kept

GetNextTimeout(w) == IF w.last > w.next THEN w.last ELSE w.next

IsEmptySet(w) == w.nonEmpty = {}
=============================================================================
