--------------------------- MODULE ShardedProofs ---------------------------
(***************************************************************************)
(* sharded<Service>, for any number of cores, of callers and of starts.    *)
(* The invariant accounts for three things that are passed around: a core  *)
(* that has not answered is worked at in exactly one place (Tokens), every *)
(* reference to an instance has a holder (RefsExact), and every call is in *)
(* one place (CallsSound).  With them each instance is in a phase of its   *)
(* life (Phase) that agrees with what the fiber on core 0 does (Turn).     *)
(*                                                                         *)
(* The operators of Sharded make one world of another, and a step applies  *)
(* several.  Between them a core may owe its answer, a reference may be    *)
(* without a holder and a call without a place: Sound has these as debts.  *)
(***************************************************************************)
EXTENDS Sharded, SequenceCounts

Pairs == Cores \X Cores

States == {"none", "alive", "stopping", "freeing", "stopped", "failed", "lost", "dead"}

CreateAsk == Request("create", 0)
StopAsk == Request("stop", 0)
ReleaseAsk == Request("release", 0)
Fine == Request("joined", 0)
Broken == Request("joined", 1)
CallAsk(k) == Request("call", k)
ReturnAsk(k) == Request("returned", k)

\* A request carries call k, there or back.
OfCall(r, k) == r = CallAsk(k) \/ r = ReturnAsk(k)

\* It is delivered to the core the call ran to, or was made from.
ReachesCaller(w, r, k, to) ==
    /\ r = CallAsk(k) => w.call[k].to = to
    /\ r = ReturnAsk(k) => w.call[k].from = to

Requests == {CreateAsk, StopAsk, ReleaseAsk, Fine, Broken}
            \union {CallAsk(k) : k \in Callers} \union {ReturnAsk(k) : k \in Callers}

Instances == [state : States, stops : Nat, refs : Int, calls : SUBSET Callers]

SharedStates ==
    [kind : Kinds, size : 0 .. Cardinality(Cores), slot : [Cores -> BOOLEAN],
     freed : [Cores -> BOOLEAN],
     crashed : {"no", "range", "dangling", "freed twice", "deleted late"}]

Controls ==
    [op : {"none", "start", "stop"}, left : SUBSET Cores, failed : BOOLEAN,
     starting : BOOLEAN, starts : Nat, stopFailed : BOOLEAN,
     result : {"none", "started", "not started", "stopped", "failed"}]

CallStates == [state : {"idle", "sent", "inside", "returning"}, from : Cores, to : Cores]

Loans == [state : {"none", "lent", "dropped"}, of : Cores, at : Cores, wrapped : BOOLEAN]

Worlds ==
    [shared : SharedStates, service : [Cores -> Instances], control : Controls,
     call : [Callers -> CallStates], loan : Loans, msg : [Pairs -> Seq(Requests)]]

(* How often a request is on its way.                                      *)
In(w, p, r) == Count(w.msg[p], {r})

Bare(w) == w.loan.state # "none" /\ ~w.loan.wrapped /\ w.loan.at # w.loan.of

-----------------------------------------------------------------------------
(* Who works at the answer of core c.                                      *)
Tokens(w, c) ==
    In(w, <<0, c>>, CreateAsk) + In(w, <<0, c>>, StopAsk)
    + Indicator(w.service[c].state \in {"stopping", "freeing", "lost"})
    + In(w, <<c, 0>>, Fine) + In(w, <<c, 0>>, Broken)

(* Who has a reference to the instance of core c: sharded itself, the      *)
(* methods inside, and the loan or the request to destroy it.              *)
Own(w, c) == Indicator(w.service[c].state \in {"alive", "stopping"})
Inside(w, c) == IF w.shared.kind = "tracked" THEN Cardinality(w.service[c].calls) ELSE 0
Lent(w, c) ==
    IF w.loan.of = c
    THEN Indicator(w.loan.state = "lent") + In(w, <<w.loan.at, w.loan.of>>, ReleaseAsk)
    ELSE 0

RefsExact(w, c, spare) ==
    w.service[c].refs = Own(w, c) + Inside(w, c) + Lent(w, c) + Indicator(c \in spare)

(* What the state of an instance says.                                     *)
Phase(w, c) ==
    LET x == w.service[c]
        tracked == w.shared.kind = "tracked"
    IN  /\ w.shared.slot[c] <=> x.state = "alive"
        /\ x.stops = IF x.state \in {"none", "alive"} THEN 0 ELSE 1
        /\ x.state \in {"none", "dead", "lost"} => x.refs = 0
        /\ x.state \in {"failed", "stopped", "freeing"} => x.refs > 0
        /\ x.state \in {"alive", "stopping", "freeing", "failed"} => c < w.shared.size
        /\ x.state \in {"freeing", "lost"} => tracked
        /\ x.state = "lost" => Bare(w)
        /\ tracked /\ x.state = "stopped" => Bare(w)
        /\ tracked /\ x.state \in {"alive", "stopping", "freeing", "failed"}
               => ~w.shared.freed[c] \/ Bare(w)
        /\ ~tracked /\ x.state \in {"alive", "stopping"} => w.shared.freed[c]
        /\ w.shared.kind = "gated" /\ x.state \notin {"alive", "stopping"} => x.calls = {}
        /\ x.state = "none" => x.calls = {}

(* What the fiber on core 0 has done to the instance of core c.            *)
Turn(w, c, owes) ==
    LET s == w.service[c].state
        op == w.control.op
    IN  /\ Tokens(w, c) + Indicator(c \in owes) = Indicator(c \in w.control.left)
        /\ op = "start" => s \in {"none", "alive"} /\ In(w, <<0, c>>, StopAsk) = 0
        /\ In(w, <<0, c>>, CreateAsk) > 0 => op = "start" /\ s = "none"
        /\ op = "stop" /\ s = "alive" => In(w, <<0, c>>, StopAsk) > 0 \/ c \in owes
        /\ op = "stop" /\ s = "failed"
               => w.control.failed \/ c \in owes \/ In(w, <<c, 0>>, Broken) > 0
        /\ op = "none" /\ w.control.result \in {"none", "started"} => s \in {"none", "alive"}
        /\ op = "none" /\ w.control.result \in {"stopped", "not started"}
               => s \in {"none", "dead", "stopped"}

CoreSound(w, c, owes, spare) == RefsExact(w, c, spare) /\ Phase(w, c) /\ Turn(w, c, owes)

ControlSound(w) ==
    /\ w.control.left \subseteq 0 .. w.shared.size - 1
    /\ w.control.op = "none" => w.control.left = {}
    /\ w.control.op # "none" => w.shared.size > 0
    /\ w.control.op = "none" /\ w.control.result \in {"stopped", "not started"}
           => w.shared.size = 0

(* Where requests may be.                                                  *)
Placed(w) ==
    \A p \in Pairs :
        /\ p[1] = p[2] => w.msg[p] = <<>>
        /\ p[1] # 0 => In(w, p, CreateAsk) = 0 /\ In(w, p, StopAsk) = 0
        /\ p[2] # 0 => In(w, p, Fine) = 0 /\ In(w, p, Broken) = 0
        /\ In(w, p, ReleaseAsk) > 0 => w.loan.state = "dropped" /\ p = <<w.loan.at, w.loan.of>>

CallSound(w, k, loose) ==
    LET x == w.call[k]
    IN  /\ \A c \in Cores :
               k \in w.service[c].calls <=> k \notin loose /\ x.state = "inside" /\ x.to = c
        /\ \A p \in Pairs :
               /\ In(w, p, CallAsk(k))
                      = Indicator(k \notin loose /\ x.state = "sent" /\ p = <<x.from, x.to>>)
               /\ In(w, p, ReturnAsk(k))
                      = Indicator(k \notin loose /\ x.state = "returning" /\ p = <<x.to, x.from>>)

Sound(w, owes, spare, loose) ==
    /\ w \in Worlds /\ w.shared.crashed = "no"
    /\ ControlSound(w) /\ Placed(w)
    /\ \A c \in Cores : CoreSound(w, c, owes, spare)
    /\ \A k \in Callers : CallSound(w, k, loose)

SoundNow == Running => Sound(World, {}, {}, {})

-----------------------------------------------------------------------------
LEMMA CoreFacts ==
    /\ 0 \in Cores /\ Cardinality(Cores) \in Nat /\ Cardinality(Cores) > 0
    /\ \A c : c \in Cores <=> c \in Nat /\ c < Cardinality(Cores)
<1>1. Cardinality(Cores) \in Nat  BY ShardedAssumption, FS_CardinalityType
<1> QED BY <1>1, ShardedAssumption

LEMMA RequestFacts ==
    /\ CreateAsk \in Requests /\ StopAsk \in Requests /\ ReleaseAsk \in Requests
    /\ Fine \in Requests /\ Broken \in Requests
    /\ \A k \in Callers : CallAsk(k) \in Requests /\ ReturnAsk(k) \in Requests
    /\ \A k : /\ CallAsk(k) \notin {CreateAsk, StopAsk, ReleaseAsk, Fine, Broken}
              /\ ReturnAsk(k) \notin {CreateAsk, StopAsk, ReleaseAsk, Fine, Broken}
              /\ \A j : CallAsk(k) # ReturnAsk(j)
              /\ \A j : j # k => CallAsk(k) # CallAsk(j) /\ ReturnAsk(k) # ReturnAsk(j)
    /\ CreateAsk \notin {StopAsk, ReleaseAsk, Fine, Broken}
    /\ StopAsk \notin {ReleaseAsk, Fine, Broken}
    /\ ReleaseAsk \notin {Fine, Broken} /\ Fine # Broken
<1> USE DEF CreateAsk, StopAsk, ReleaseAsk, Fine, Broken, CallAsk, ReturnAsk, Request
<1>1. /\ CreateAsk \in Requests /\ StopAsk \in Requests /\ ReleaseAsk \in Requests
      /\ Fine \in Requests /\ Broken \in Requests
  BY DEF Requests
<1>2. \A k \in Callers : CallAsk(k) \in Requests /\ ReturnAsk(k) \in Requests
  BY DEF Requests
<1>3. /\ \A k : CallAsk(k).kind = "call" /\ CallAsk(k).arg = k
      /\ \A k : ReturnAsk(k).kind = "returned" /\ ReturnAsk(k).arg = k
      /\ CreateAsk.kind = "create" /\ StopAsk.kind = "stop" /\ ReleaseAsk.kind = "release"
      /\ Fine.kind = "joined" /\ Fine.arg = 0 /\ Broken.kind = "joined" /\ Broken.arg = 1
  OBVIOUS
<1> HIDE DEF CreateAsk, StopAsk, ReleaseAsk, Fine, Broken, CallAsk, ReturnAsk, Request
<1>4. /\ CreateAsk \notin {StopAsk, ReleaseAsk, Fine, Broken}
      /\ StopAsk \notin {ReleaseAsk, Fine, Broken}
      /\ ReleaseAsk \notin {Fine, Broken} /\ Fine # Broken
  BY <1>3
<1>5. ASSUME NEW k
      PROVE  /\ CallAsk(k) \notin {CreateAsk, StopAsk, ReleaseAsk, Fine, Broken}
             /\ ReturnAsk(k) \notin {CreateAsk, StopAsk, ReleaseAsk, Fine, Broken}
             /\ \A j : CallAsk(k) # ReturnAsk(j)
             /\ \A j : j # k => CallAsk(k) # CallAsk(j) /\ ReturnAsk(k) # ReturnAsk(j)
  BY <1>3
<1> QED BY <1>1, <1>2, <1>4, <1>5

LEMMA InType ==
    ASSUME NEW w \in Worlds, NEW p \in Pairs
    PROVE  /\ \A r : In(w, p, r) \in Nat
           /\ w.msg[p] = <<>> => \A r : In(w, p, r) = 0
<1>1. w.msg[p] \in Seq(Requests)  BY DEF Worlds
<1>2. \A r : Count(w.msg[p], {r}) \in Nat  BY <1>1, CountType
<1> QED BY <1>2, CountEmpty DEF In

(* A request sent, and one taken off the front.                            *)
LEMMA SentWorld ==
    ASSUME NEW w \in Worlds, NEW from \in Cores, NEW to \in Cores, NEW r \in Requests,
           NEW v, v = Sent(w, from, to, r)
    PROVE  /\ v \in Worlds /\ v.shared = w.shared /\ v.service = w.service
           /\ v.control = w.control /\ v.call = w.call /\ v.loan = w.loan
           /\ \A q \in Pairs : q # <<from, to>> => v.msg[q] = w.msg[q]
           /\ \A q \in Pairs : \A x :
                  In(v, q, x) = In(w, q, x) + Indicator(q = <<from, to>> /\ x = r)
<1> DEFINE p == <<from, to>>
<1>1. p \in Pairs /\ w.msg \in [Pairs -> Seq(Requests)]  BY DEF Pairs, Worlds
<1>2. v = [w EXCEPT !.msg = [w.msg EXCEPT ![p] = Append(w.msg[p], r)]]
  BY DEF Sent, Worlds
<1>3. Append(w.msg[p], r) \in Seq(Requests)  BY <1>1, CountAppend
<1> HIDE DEF p
<1>4. [w.msg EXCEPT ![p] = Append(w.msg[p], r)] \in [Pairs -> Seq(Requests)]
  BY <1>1, <1>3
<1>5. /\ v \in Worlds /\ v.shared = w.shared /\ v.service = w.service
      /\ v.control = w.control /\ v.call = w.call /\ v.loan = w.loan
      /\ v.msg = [w.msg EXCEPT ![p] = Append(w.msg[p], r)]
  BY <1>2, <1>4 DEF Worlds
<1>6. ASSUME NEW q \in Pairs, NEW x
      PROVE  In(v, q, x) = In(w, q, x) + Indicator(q = p /\ x = r)
  <2>1. CASE q = p
    <3>1. v.msg[q] = Append(w.msg[p], r)  BY <1>1, <1>5, <2>1
    <3>2. Count(Append(w.msg[p], r), {x}) = Count(w.msg[p], {x}) + Indicator(r \in {x})
      BY <1>1, CountAppend
    <3>3. Indicator(r \in {x}) = Indicator(q = p /\ x = r)  BY <2>1 DEF Indicator
    <3> QED BY <2>1, <3>1, <3>2, <3>3 DEF In
  <2>2. CASE q # p
    <3>1. v.msg[q] = w.msg[q]  BY <1>1, <1>5, <2>2
    <3>2. Indicator(q = p /\ x = r) = 0 /\ In(w, q, x) \in Nat
      BY <2>2, InType DEF Indicator
    <3> QED BY <3>1, <3>2 DEF In
  <2> QED BY <2>1, <2>2
<1> QED BY <1>1, <1>5, <1>6 DEF p

Taken(w, from, to) == [w EXCEPT !.msg[<<from, to>>] = Tail(@)]

LEMMA TakenWorld ==
    ASSUME NEW w \in Worlds, NEW from \in Cores, NEW to \in Cores, w.msg[<<from, to>>] # <<>>,
           NEW v, v = Taken(w, from, to)
    PROVE  /\ Head(w.msg[<<from, to>>]) \in Requests
           /\ v \in Worlds /\ v.shared = w.shared /\ v.service = w.service
           /\ v.control = w.control /\ v.call = w.call /\ v.loan = w.loan
           /\ \A q \in Pairs : q # <<from, to>> => v.msg[q] = w.msg[q]
           /\ \A q \in Pairs : \A x :
                  In(w, q, x) = In(v, q, x)
                      + Indicator(q = <<from, to>> /\ x = Head(w.msg[<<from, to>>]))
<1> DEFINE p == <<from, to>>
           r == Head(w.msg[p])
<1>1. p \in Pairs /\ w.msg \in [Pairs -> Seq(Requests)]  BY DEF Pairs, Worlds
<1>2. v = [w EXCEPT !.msg = [w.msg EXCEPT ![p] = Tail(w.msg[p])]]
  BY DEF Worlds, Taken
<1>3. r \in Requests /\ Tail(w.msg[p]) \in Seq(Requests)  BY <1>1, HeadThenTail
<1>4. \A x : Count(w.msg[p], {x}) = Indicator(r \in {x}) + Count(Tail(w.msg[p]), {x})
  BY <1>1, CountHead
<1> HIDE DEF p, r
<1>5. [w.msg EXCEPT ![p] = Tail(w.msg[p])] \in [Pairs -> Seq(Requests)]
  BY <1>1, <1>3
<1>6. /\ v \in Worlds /\ v.shared = w.shared /\ v.service = w.service
      /\ v.control = w.control /\ v.call = w.call /\ v.loan = w.loan
      /\ v.msg = [w.msg EXCEPT ![p] = Tail(w.msg[p])]
  BY <1>2, <1>5 DEF Worlds
<1>7. ASSUME NEW q \in Pairs, NEW x
      PROVE  In(w, q, x) = In(v, q, x) + Indicator(q = p /\ x = r)
  <2>1. CASE q = p
    <3>1. v.msg[q] = Tail(w.msg[p])  BY <1>1, <1>6, <2>1
    <3>2. Indicator(r \in {x}) = Indicator(q = p /\ x = r)  BY <2>1 DEF Indicator
    <3>3. In(v, q, x) \in Nat /\ Indicator(r \in {x}) \in Nat
      BY <1>6, InType DEF Indicator
    <3>4. In(w, q, x) = Indicator(r \in {x}) + In(v, q, x)
      BY <1>4, <2>1, <3>1 DEF In
    <3> QED BY ONLY <3>2, <3>3, <3>4
  <2>2. CASE q # p
    <3>1. v.msg[q] = w.msg[q]  BY <1>1, <1>6, <2>2
    <3>2. Indicator(q = p /\ x = r) = 0 /\ In(w, q, x) \in Nat
      BY <2>2, InType DEF Indicator
    <3> QED BY <3>1, <3>2 DEF In
  <2> QED BY <2>1, <2>2
<1>8. \A q \in Pairs : q # p => v.msg[q] = w.msg[q]  BY <1>1, <1>6
<1> QED BY <1>3, <1>6, <1>7, <1>8 DEF p, r
-----------------------------------------------------------------------------
(* A step that leaves a core, its requests and its references alone.       *)
SameInstance(w, v, c) ==
    /\ v.service[c] = w.service[c] /\ v.shared.slot[c] = w.shared.slot[c]
    /\ v.shared.kind = w.shared.kind /\ v.shared.size = w.shared.size
    /\ v.shared.freed[c] = w.shared.freed[c] \/ (Bare(v) /\ v.shared.kind = "tracked")
    /\ Bare(w) => Bare(v)

SameTurn(w, v, c) ==
    /\ v.control.op = w.control.op /\ v.control.result = w.control.result
    /\ c \in v.control.left <=> c \in w.control.left
    /\ w.control.failed => v.control.failed

SameRequests(w, v, c) ==
    /\ In(v, <<0, c>>, CreateAsk) = In(w, <<0, c>>, CreateAsk)
    /\ In(v, <<0, c>>, StopAsk) = In(w, <<0, c>>, StopAsk)
    /\ In(v, <<c, 0>>, Fine) = In(w, <<c, 0>>, Fine)
    /\ In(v, <<c, 0>>, Broken) = In(w, <<c, 0>>, Broken)
    /\ Lent(v, c) = Lent(w, c)

Same(w, v, c) == SameInstance(w, v, c) /\ SameTurn(w, v, c) /\ SameRequests(w, v, c)

LEMMA CoreKept ==
    ASSUME NEW w, NEW v, NEW c, NEW owes, NEW owes2, NEW spare, NEW spare2,
           CoreSound(w, c, owes, spare), Same(w, v, c),
           c \in owes2 <=> c \in owes, c \in spare2 <=> c \in spare
    PROVE  CoreSound(v, c, owes2, spare2)
<1> USE DEF Same, SameInstance, SameTurn, SameRequests, CoreSound
<1>1. RefsExact(v, c, spare2)  BY DEF RefsExact, Own, Inside, Indicator
<1>2. Phase(v, c)  BY DEF Phase
<1>3. Turn(v, c, owes2)
  <2>1. Tokens(v, c) = Tokens(w, c)  BY DEF Tokens
  <2> QED BY <2>1 DEF Turn, Indicator
<1> QED BY <1>1, <1>2, <1>3

LEMMA InstanceKept ==
    ASSUME NEW w, NEW v, NEW c, v.shared = w.shared, v.service = w.service, Bare(w) => Bare(v)
    PROVE  /\ SameInstance(w, v, c)
           /\ Phase(w, c) => Phase(v, c)
<1>1. SameInstance(w, v, c)  BY DEF SameInstance
<1>2. Phase(w, c) => Phase(v, c)  BY DEF Phase
<1> QED BY <1>1, <1>2

LEMMA CallKept ==
    ASSUME NEW w, NEW v, NEW k, NEW loose, NEW loose2, k \in loose2 <=> k \in loose,
           CallSound(w, k, loose), v.call[k] = w.call[k],
           \A c \in Cores : k \in v.service[c].calls <=> k \in w.service[c].calls,
           \A p \in Pairs : /\ In(v, p, CallAsk(k)) = In(w, p, CallAsk(k))
                            /\ In(v, p, ReturnAsk(k)) = In(w, p, ReturnAsk(k))
    PROVE  CallSound(v, k, loose2)
BY DEF CallSound, Indicator

(* Nobody was sent anything.                                               *)
LEMMA SameMessages ==
    ASSUME NEW w, NEW v, v.msg = w.msg, v.loan = w.loan
    PROVE  /\ \A p, x : In(v, p, x) = In(w, p, x)
           /\ Bare(v) <=> Bare(w)
           /\ \A c : Lent(v, c) = Lent(w, c)
           /\ Placed(w) => Placed(v)
<1>1. \A p, x : In(v, p, x) = In(w, p, x)  BY DEF In
<1>2. Bare(v) <=> Bare(w)  BY DEF Bare
<1>3. \A c : Lent(v, c) = Lent(w, c)  BY <1>1 DEF Lent
<1>4. Placed(w) => Placed(v)  BY <1>1 DEF Placed
<1> QED BY <1>1, <1>2, <1>3, <1>4

(* The numbers of one core are natural.                                    *)
LEMMA CoreNumbers ==
    ASSUME NEW w \in Worlds, NEW c \in Cores
    PROVE  /\ <<0, c>> \in Pairs /\ <<c, 0>> \in Pairs
           /\ \A r : In(w, <<0, c>>, r) \in Nat /\ In(w, <<c, 0>>, r) \in Nat
           /\ Own(w, c) \in Nat /\ Inside(w, c) \in Nat /\ Lent(w, c) \in Nat
           /\ IsFiniteSet(w.service[c].calls) /\ Cardinality(w.service[c].calls) \in Nat
           /\ w.service[c] \in Instances
<1>1. <<0, c>> \in Pairs /\ <<c, 0>> \in Pairs  BY CoreFacts DEF Pairs
<1>2. w.loan.at \in Cores /\ w.loan.of \in Cores /\ w.service[c] \in Instances
  BY DEF Worlds, Loans
<1>3. <<w.loan.at, w.loan.of>> \in Pairs  BY <1>2 DEF Pairs
<1>4. \A r : /\ In(w, <<0, c>>, r) \in Nat /\ In(w, <<c, 0>>, r) \in Nat
             /\ In(w, <<w.loan.at, w.loan.of>>, r) \in Nat
  BY <1>1, <1>3, InType
<1>5. w.service[c].calls \subseteq Callers  BY <1>2 DEF Instances
<1>6. IsFiniteSet(w.service[c].calls) /\ Cardinality(w.service[c].calls) \in Nat
  BY <1>5, ShardedAssumption, FS_Subset, FS_CardinalityType
<1>7. Own(w, c) \in Nat /\ Inside(w, c) \in Nat  BY <1>6 DEF Own, Inside, Indicator
<1>8. Lent(w, c) \in Nat  BY <1>4 DEF Lent, Indicator
<1> QED BY <1>1, <1>2, <1>4, <1>6, <1>7, <1>8

(* The fiber on core 0 learns of an answer that was owed.                  *)
LEMMA JoinedSound ==
    ASSUME NEW w, NEW owes, NEW spare, NEW loose, Sound(w, owes, spare, loose),
           NEW c \in Cores, c \in owes, NEW failed \in BOOLEAN,
           w.control.op = "stop" => w.service[c].state # "alive",
           w.control.op = "stop" /\ w.service[c].state = "failed" => failed \/ w.control.failed,
           NEW rest, \A d \in Cores : d \in rest <=> d \in owes /\ d # c,
           NEW v, v = Joined(w, c, failed)
    PROVE  Sound(v, rest, spare, loose)
<1>0. w \in Worlds  BY DEF Sound
<1>a. /\ v.control = [w.control EXCEPT !.left = @ \ {c}, !.failed = @ \/ failed]
      /\ v = [w EXCEPT !.control = v.control]
  BY <1>0 DEF Joined, Worlds
<1>1. /\ v.shared = w.shared /\ v.service = w.service /\ v.call = w.call
      /\ v.loan = w.loan /\ v.msg = w.msg
  BY <1>0, <1>a DEF Worlds
<1>2. /\ w.control \in Controls
      /\ v.control.left = w.control.left \ {c} /\ v.control.op = w.control.op
      /\ v.control.result = w.control.result
      /\ v.control.failed = (w.control.failed \/ failed) /\ v.control \in Controls
  <2> DEFINE x == v.control
  <2>1. w.control \in Controls  BY <1>0 DEF Worlds
  <2>2. x = [w.control EXCEPT !.left = @ \ {c}, !.failed = @ \/ failed]  BY <1>a
  <2> HIDE DEF x
  <2>3. /\ x.left = w.control.left \ {c} /\ x.op = w.control.op /\ x.result = w.control.result
        /\ x.failed = (w.control.failed \/ failed)
    BY ONLY <2>1, <2>2 DEF Controls
  <2>4. x \in Controls  BY ONLY <2>1, <2>2, failed \in BOOLEAN DEF Controls
  <2> QED BY <2>1, <2>3, <2>4 DEF x
<1>3. v \in Worlds  BY <1>0, <1>a, <1>2 DEF Worlds
<1>4. /\ \A p, x : In(v, p, x) = In(w, p, x)
      /\ Placed(v)
      /\ Bare(w) => Bare(v)
      /\ \A d : Lent(v, d) = Lent(w, d)
  BY <1>1, SameMessages DEF Sound
<1>5. ControlSound(v)  BY <1>1, <1>2 DEF ControlSound, Sound
<1>6. ASSUME NEW d \in Cores PROVE CoreSound(v, d, rest, spare)
  <2>1. CoreSound(w, d, owes, spare)  BY DEF Sound
  <2>2. CASE d # c
    <3>1. Same(w, v, d)
      <4>1. SameInstance(w, v, d)  BY <1>1, <1>4, InstanceKept
      <4>2. SameTurn(w, v, d)  BY <1>2, <2>2 DEF SameTurn
      <4>3. SameRequests(w, v, d)  BY <1>4 DEF SameRequests
      <4> QED BY <4>1, <4>2, <4>3 DEF Same
    <3> QED BY <2>1, <2>2, <3>1, CoreKept
  <2>3. CASE d = c
    <3>1. RefsExact(v, c, spare)
      BY <1>1, <1>4, <2>1, <2>3 DEF CoreSound, RefsExact, Own, Inside
    <3>2. Phase(v, c)  BY <1>1, <1>4, <2>1, <2>3, InstanceKept DEF CoreSound
    <3>3. Turn(v, c, rest)
      <4>1. Tokens(v, c) = Tokens(w, c) /\ Turn(w, c, owes)
        BY <1>1, <1>4, <2>1, <2>3 DEF Tokens, CoreSound
      <4>2. Tokens(w, c) \in Nat  BY <1>0, CoreNumbers DEF Tokens, Indicator
      <4>3. Tokens(w, c) + 1 = Indicator(c \in w.control.left)
        BY <4>1 DEF Turn, Indicator
      <4>4. Tokens(w, c) = 0 /\ c \notin v.control.left
        BY <1>2, <4>2, <4>3 DEF Indicator
      <4>5. Tokens(v, c) + Indicator(c \in rest) = Indicator(c \in v.control.left)
        BY <4>1, <4>4 DEF Indicator
      <4>6. w.control.op = "stop" /\ w.service[c].state = "failed" => v.control.failed
        BY <1>2
      <4>7. /\ v.service = w.service /\ v.control.op = w.control.op
            /\ v.control.result = w.control.result
            /\ \A p, x : In(v, p, x) = In(w, p, x)
        BY <1>1, <1>2, <1>4
      <4>8. w.control.op = "stop" => w.service[c].state # "alive"  OBVIOUS
      <4> QED BY ONLY <4>1, <4>5, <4>6, <4>7, <4>8 DEF Turn
    <3> QED BY <2>3, <3>1, <3>2, <3>3 DEF CoreSound
  <2> QED BY <2>2, <2>3
<1>7. ASSUME NEW k \in Callers PROVE CallSound(v, k, loose)
  <2>1. CallSound(w, k, loose)  BY DEF Sound
  <2>2. v.call[k] = w.call[k] /\ \A d \in Cores : k \in v.service[d].calls <=> k \in w.service[d].calls
    BY <1>1
  <2>3. \A p \in Pairs : /\ In(v, p, CallAsk(k)) = In(w, p, CallAsk(k))
                         /\ In(v, p, ReturnAsk(k)) = In(w, p, ReturnAsk(k))
    BY <1>4
  <2> QED BY <2>1, <2>2, <2>3, CallKept
<1>8. v.shared.crashed = "no"  BY <1>1 DEF Sound
<1> QED BY ONLY <1>3, <1>4, <1>5, <1>6, <1>7, <1>8 DEF Sound
(* v has one more request r on the way p than w has.                       *)
More(w, v, p, r) ==
    \A q \in Pairs : \A x : In(v, q, x) = In(w, q, x) + Indicator(q = p /\ x = r)

LEMMA MoreThere ==
    ASSUME NEW w \in Worlds, NEW v, NEW p \in Pairs, NEW r, More(w, v, p, r)
    PROVE  /\ In(v, p, r) = In(w, p, r) + 1
           /\ \A q \in Pairs : \A x : q # p \/ x # r => In(v, q, x) = In(w, q, x)
<1>1. In(v, p, r) = In(w, p, r) + 1  BY DEF More, Indicator
<1>2. ASSUME NEW q \in Pairs, NEW x, q # p \/ x # r PROVE In(v, q, x) = In(w, q, x)
  <2>1. In(w, q, x) \in Nat /\ In(v, q, x) = In(w, q, x) + Indicator(q = p /\ x = r)
    BY InType DEF More
  <2>2. Indicator(q = p /\ x = r) = 0  BY <1>2 DEF Indicator
  <2> QED BY ONLY <2>1, <2>2
<1> QED BY <1>1, <1>2

LEMMA RequestsKept ==
    ASSUME NEW w, NEW v, NEW c \in Cores, w.loan \in Loans, v.loan = w.loan,
           \A q \in Pairs : /\ In(v, q, ReleaseAsk) = In(w, q, ReleaseAsk)
                            /\ q \in {<<0, c>>, <<c, 0>>} =>
                                   \A x \in {CreateAsk, StopAsk, Fine, Broken} :
                                       In(v, q, x) = In(w, q, x)
    PROVE  SameRequests(w, v, c)
<1>1. <<0, c>> \in Pairs /\ <<c, 0>> \in Pairs /\ <<w.loan.at, w.loan.of>> \in Pairs
  BY CoreFacts DEF Pairs, Loans
<1>2. Lent(v, c) = Lent(w, c)  BY <1>1 DEF Lent
<1> QED BY <1>1, <1>2 DEF SameRequests

(* An answer is sent to core 0, or joined there at once.                   *)
LEMMA AnsweredSound ==
    ASSUME NEW w, NEW owes, NEW spare, NEW loose, Sound(w, owes, spare, loose),
           NEW c \in Cores, c \in owes, NEW failed \in BOOLEAN,
           w.control.op = "stop" => w.service[c].state # "alive",
           w.control.op = "stop" /\ w.service[c].state = "failed" => failed \/ w.control.failed,
           NEW rest, \A d \in Cores : d \in rest <=> d \in owes /\ d # c,
           NEW v, v = Answered(w, c, failed)
    PROVE  Sound(v, rest, spare, loose)
<1>0. w \in Worlds /\ w.loan \in Loans  BY DEF Sound, Worlds
<1>1. CASE c = 0
  <2>1. v = Joined(w, c, failed)  BY <1>1 DEF Answered
  <2> QED BY <2>1, JoinedSound
<1>2. CASE c # 0
  <2> DEFINE r == IF failed THEN Broken ELSE Fine
             p == <<c, 0>>
  <2>1. v = Sent(w, c, 0, r) /\ r \in Requests /\ r \in {Fine, Broken}
    BY <1>2, RequestFacts DEF Answered, Fine, Broken, Request
  <2>2. p \in Pairs /\ p[1] = c /\ p[2] = 0 /\ 0 \in Cores  BY CoreFacts DEF Pairs
  <2>a. failed => r = Broken  OBVIOUS
  <2> HIDE DEF r
  <2>3. /\ v \in Worlds /\ v.shared = w.shared /\ v.service = w.service
        /\ v.control = w.control /\ v.call = w.call /\ v.loan = w.loan
        /\ \A q \in Pairs : q # p => v.msg[q] = w.msg[q]
        /\ More(w, v, p, r)
    BY <1>0, <2>1, <2>2, SentWorld DEF More
  <2> HIDE DEF p
  <2>4. /\ In(v, p, r) = In(w, p, r) + 1
        /\ \A q \in Pairs : \A x : q # p \/ x # r => In(v, q, x) = In(w, q, x)
    BY <1>0, <2>2, <2>3, MoreThere
  <2>5. Bare(v) <=> Bare(w)  BY <2>3 DEF Bare
  <2>6. r \notin {CreateAsk, StopAsk, ReleaseAsk} /\ \A k : r # CallAsk(k) /\ r # ReturnAsk(k)
    BY <2>1, RequestFacts
  <2>7. Placed(v)
    <3> SUFFICES ASSUME NEW q \in Pairs
                 PROVE  /\ q[1] = q[2] => v.msg[q] = <<>>
                        /\ q[1] # 0 => In(v, q, CreateAsk) = 0 /\ In(v, q, StopAsk) = 0
                        /\ q[2] # 0 => In(v, q, Fine) = 0 /\ In(v, q, Broken) = 0
                        /\ In(v, q, ReleaseAsk) > 0
                               => v.loan.state = "dropped" /\ q = <<v.loan.at, v.loan.of>>
      BY DEF Placed
    <3>1. /\ q[1] = q[2] => w.msg[q] = <<>>
          /\ q[1] # 0 => In(w, q, CreateAsk) = 0 /\ In(w, q, StopAsk) = 0
          /\ q[2] # 0 => In(w, q, Fine) = 0 /\ In(w, q, Broken) = 0
          /\ In(w, q, ReleaseAsk) > 0
                 => w.loan.state = "dropped" /\ q = <<w.loan.at, w.loan.of>>
      BY DEF Sound, Placed
    <3>2. /\ In(v, q, CreateAsk) = In(w, q, CreateAsk) /\ In(v, q, StopAsk) = In(w, q, StopAsk)
          /\ In(v, q, ReleaseAsk) = In(w, q, ReleaseAsk)
      BY <2>4, <2>6
    <3>3. q[2] # 0 => In(v, q, Fine) = In(w, q, Fine) /\ In(v, q, Broken) = In(w, q, Broken)
      BY <2>2, <2>4
    <3>4. q[1] = q[2] => q # p  BY <1>2, <2>2
    <3> QED BY <2>3, <3>1, <3>2, <3>3, <3>4
  <2>8. ControlSound(v)  BY <2>3 DEF Sound, ControlSound
  <2>9. ASSUME NEW d \in Cores PROVE CoreSound(v, d, rest, spare)
    <3>0. CoreSound(w, d, owes, spare) /\ SameInstance(w, v, d) /\ SameTurn(w, v, d)
      BY <2>3, <2>5, InstanceKept DEF Sound, SameTurn
    <3>1. CASE d # c
      <4>1. <<0, d>> # p /\ <<d, 0>> # p  BY <1>2, <3>1 DEF p
      <4>2. SameRequests(w, v, d)  BY <1>0, <2>3, <2>4, <2>6, <4>1, RequestsKept
      <4> QED BY <3>0, <3>1, <4>2, CoreKept DEF Same
    <3>2. CASE d = c
      <4>1. /\ <<0, c>> \in Pairs /\ <<0, c>> # p /\ <<c, 0>> = p
            /\ w.service[c] \in Instances
        BY <1>0, <1>2, CoreNumbers DEF p
      <4>2. Lent(v, c) = Lent(w, c)
        <5>1. <<w.loan.at, w.loan.of>> \in Pairs  BY <1>0 DEF Pairs, Loans
        <5> QED BY <2>3, <2>4, <2>6, <5>1 DEF Lent
      <4>3. RefsExact(v, c, spare)
        BY <2>3, <3>0, <3>2, <4>2 DEF CoreSound, RefsExact, Own, Inside
      <4>4. Phase(v, c)  BY <2>3, <2>5, <3>0, <3>2, InstanceKept DEF CoreSound
      <4>5. Turn(v, c, rest)
        <5>1. Turn(w, c, owes)  BY <3>0, <3>2 DEF CoreSound
        <5>2. /\ In(v, <<0, c>>, CreateAsk) = In(w, <<0, c>>, CreateAsk)
              /\ In(v, <<0, c>>, StopAsk) = In(w, <<0, c>>, StopAsk)
          BY <2>4, <4>1
        <5>3. /\ In(v, <<c, 0>>, Fine) + In(v, <<c, 0>>, Broken)
                   = In(w, <<c, 0>>, Fine) + In(w, <<c, 0>>, Broken) + 1
              /\ failed => In(v, <<c, 0>>, Broken) > 0
          <6>1. In(w, p, Fine) \in Nat /\ In(w, p, Broken) \in Nat
            BY <1>0, <2>2, InType
          <6>2. CASE r = Fine
            <7>1. In(v, p, Fine) = In(w, p, Fine) + 1 /\ In(v, p, Broken) = In(w, p, Broken) /\ ~failed
              BY <2>2, <2>4, <2>a, <6>2, RequestFacts
            <7> QED BY <4>1, <6>1, <7>1
          <6>3. CASE r = Broken
            <7>1. In(v, p, Broken) = In(w, p, Broken) + 1 /\ In(v, p, Fine) = In(w, p, Fine)
              BY <2>2, <2>4, <6>3, RequestFacts
            <7> QED BY <4>1, <6>1, <7>1
          <6> QED BY <2>1, <6>2, <6>3
        <5>4. Tokens(v, c) + Indicator(c \in rest) = Indicator(c \in v.control.left)
          <6> DEFINE i == Indicator(w.service[c].state \in {"stopping", "freeing", "lost"})
          <6>1. Indicator(c \in rest) = 0 /\ Indicator(c \in owes) = 1 /\ i \in Nat
            BY DEF Indicator
          <6>2. /\ In(w, <<0, c>>, CreateAsk) \in Nat /\ In(w, <<0, c>>, StopAsk) \in Nat
                /\ In(w, <<c, 0>>, Fine) \in Nat /\ In(w, <<c, 0>>, Broken) \in Nat
            BY <1>0, CoreNumbers
          <6>3. In(v, <<c, 0>>, Fine) \in Nat /\ In(v, <<c, 0>>, Broken) \in Nat
            BY <2>3, CoreNumbers
          <6>4. Tokens(w, c) = In(w, <<0, c>>, CreateAsk) + In(w, <<0, c>>, StopAsk) + i
                                  + In(w, <<c, 0>>, Fine) + In(w, <<c, 0>>, Broken)
            BY DEF Tokens
          <6>5. Tokens(v, c) = In(w, <<0, c>>, CreateAsk) + In(w, <<0, c>>, StopAsk) + i
                                  + In(v, <<c, 0>>, Fine) + In(v, <<c, 0>>, Broken)
            BY <2>3, <5>2 DEF Tokens
          <6> HIDE DEF i
          <6>6. Tokens(v, c) = Tokens(w, c) + 1 /\ Tokens(v, c) \in Nat
            BY ONLY <5>3, <6>1, <6>2, <6>3, <6>4, <6>5
          <6>7. Tokens(w, c) + Indicator(c \in owes) = Indicator(c \in w.control.left)
            BY <5>1 DEF Turn
          <6> QED BY <2>3, <6>1, <6>6, <6>7
        <5>5. /\ v.service = w.service /\ v.control = w.control
              /\ w.control.op = "stop" => w.service[c].state # "alive"
              /\ w.control.op = "stop" /\ w.service[c].state = "failed" => failed \/ w.control.failed
          BY <2>3
        <5> QED BY ONLY <5>1, <5>2, <5>3, <5>4, <5>5 DEF Turn
      <4> QED BY <3>2, <4>3, <4>4, <4>5 DEF CoreSound
    <3> QED BY <3>1, <3>2
  <2>10. ASSUME NEW k \in Callers PROVE CallSound(v, k, loose)
    <3>1. CallSound(w, k, loose)  BY DEF Sound
    <3>2. v.call[k] = w.call[k] /\ \A d \in Cores : k \in v.service[d].calls <=> k \in w.service[d].calls
      BY <2>3
    <3>3. \A q \in Pairs : /\ In(v, q, CallAsk(k)) = In(w, q, CallAsk(k))
                           /\ In(v, q, ReturnAsk(k)) = In(w, q, ReturnAsk(k))
      BY <2>4, <2>6
    <3> QED BY <3>1, <3>2, <3>3, CallKept
  <2>11. v.shared.crashed = "no"  BY <2>3 DEF Sound
  <2> QED BY ONLY <2>3, <2>7, <2>8, <2>9, <2>10, <2>11 DEF Sound
<1> QED BY <1>1, <1>2
(* A step that concerns only calls.                                        *)
LEMMA OnlyCalls ==
    ASSUME NEW w, NEW owes, NEW spare, NEW loose, Sound(w, owes, spare, loose),
           NEW v, v.shared = w.shared, v.service = w.service, v.control = w.control,
           v.loan = w.loan,
           \A q \in Pairs : /\ \A x \in {CreateAsk, StopAsk, Fine, Broken, ReleaseAsk} :
                                   In(v, q, x) = In(w, q, x)
                            /\ q[1] = q[2] => v.msg[q] = w.msg[q]
    PROVE  /\ v.shared.crashed = "no" /\ ControlSound(v) /\ Placed(v)
           /\ \A d \in Cores : CoreSound(v, d, owes, spare)
<1>0. w \in Worlds /\ w.loan \in Loans  BY DEF Sound, Worlds
<1>1. v.shared.crashed = "no" /\ ControlSound(v)  BY DEF Sound, ControlSound
<1>2. Placed(v)
  <2>1. Placed(w)  BY DEF Sound
  <2> QED BY <2>1 DEF Placed
<1>3. Bare(w) => Bare(v)  BY DEF Bare
<1>4. ASSUME NEW d \in Cores PROVE CoreSound(v, d, owes, spare)
  <2>1. CoreSound(w, d, owes, spare)  BY DEF Sound
  <2>2. SameInstance(w, v, d)  BY <1>3, InstanceKept
  <2>3. SameTurn(w, v, d)  BY DEF SameTurn
  <2>4. SameRequests(w, v, d)  BY <1>0, RequestsKept
  <2> QED BY <2>1, <2>2, <2>3, <2>4, CoreKept DEF Same
<1> QED BY <1>1, <1>2, <1>4

(* A call returns that had no place.                                       *)
LEMMA ReturnedSound ==
    ASSUME NEW w, NEW owes, NEW spare, NEW k \in Callers, Sound(w, owes, spare, {k}),
           NEW c \in Cores, w.call[k].to = c \/ w.call[k].from = c, NEW v, v = Returned(w, c, k)
    PROVE  Sound(v, owes, spare, {})
<1>0. w \in Worlds /\ w.call \in [Callers -> CallStates] /\ w.call[k] \in CallStates
  BY DEF Sound, Worlds
<1>1. /\ \A d \in Cores : k \notin w.service[d].calls
      /\ \A q \in Pairs : In(w, q, CallAsk(k)) = 0 /\ In(w, q, ReturnAsk(k)) = 0
  BY DEF Sound, CallSound, Indicator
<1>2. ASSUME NEW j \in Callers, j # k PROVE CallSound(w, j, {k}) /\ j \notin {k}
  BY <1>2 DEF Sound
<1>3. CASE w.call[k].from = c
  <2>1. /\ v = [w EXCEPT !.call = [w.call EXCEPT ![k] = NoCall]]
        /\ NoCall \in CallStates /\ NoCall.state = "idle"
    BY <1>0, <1>3, CoreFacts DEF Returned, Worlds, NoCall, CallStates
  <2>2. [w.call EXCEPT ![k] = NoCall] \in [Callers -> CallStates]  BY <1>0, <2>1
  <2>3. /\ v \in Worlds /\ v.shared = w.shared /\ v.service = w.service /\ v.control = w.control
        /\ v.loan = w.loan /\ v.msg = w.msg /\ v.call = [w.call EXCEPT ![k] = NoCall]
    BY <1>0, <2>1, <2>2 DEF Worlds
  <2>4. \A p, x : In(v, p, x) = In(w, p, x)  BY <2>3, SameMessages
  <2>5. /\ v.shared.crashed = "no" /\ ControlSound(v) /\ Placed(v)
        /\ \A d \in Cores : CoreSound(v, d, owes, spare)
    BY <2>3, <2>4, OnlyCalls
  <2>6. CallSound(v, k, {})
    BY <1>0, <1>1, <2>1, <2>3, <2>4 DEF CallSound, Indicator
  <2>7. ASSUME NEW j \in Callers, j # k PROVE CallSound(v, j, {})
    <3>1. v.call[j] = w.call[j]  BY <1>0, <2>3, <2>7
    <3> QED BY <1>2, <2>3, <2>4, <2>7, <3>1, CallKept
  <2> QED BY ONLY <2>3, <2>5, <2>6, <2>7 DEF Sound
<1>4. CASE w.call[k].from # c
  <2> DEFINE u == [w EXCEPT !.call = [w.call EXCEPT ![k] = [w.call[k] EXCEPT !.state = "returning"]]]
             r == ReturnAsk(k)
             to == w.call[k].from
             p == <<c, to>>
  <2>1. v = Sent(u, c, to, r)
    BY <1>0, <1>4 DEF Returned, Worlds, CallStates, ReturnAsk
  <2>2. [w.call[k] EXCEPT !.state = "returning"] \in CallStates
    BY <1>0 DEF CallStates
  <2>3. [w.call EXCEPT ![k] = [w.call[k] EXCEPT !.state = "returning"]] \in [Callers -> CallStates]
    BY <1>0, <2>2
  <2>4. /\ u \in Worlds /\ u.shared = w.shared /\ u.service = w.service /\ u.control = w.control
        /\ u.loan = w.loan /\ u.msg = w.msg
        /\ u.call = [w.call EXCEPT ![k] = [w.call[k] EXCEPT !.state = "returning"]]
    BY <1>0, <2>3 DEF Worlds
  <2>5. \A q, x : In(u, q, x) = In(w, q, x)  BY <2>4 DEF In
  <2>6. to \in Cores /\ r \in Requests /\ p \in Pairs /\ p[1] = c /\ p[2] = to /\ to # c
    BY <1>0, <1>4, RequestFacts DEF CallStates, Pairs
  <2> HIDE DEF u, r
  <2>7. /\ v \in Worlds /\ v.shared = u.shared /\ v.service = u.service
        /\ v.control = u.control /\ v.call = u.call /\ v.loan = u.loan
        /\ \A q \in Pairs : q # p => v.msg[q] = u.msg[q]
        /\ More(u, v, p, r)
    BY <2>1, <2>4, <2>6, SentWorld DEF More
  <2> HIDE DEF p, to
  <2>8. /\ In(v, p, r) = In(w, p, r) + 1
        /\ \A q \in Pairs : \A x : q # p \/ x # r => In(v, q, x) = In(w, q, x)
    BY <2>4, <2>5, <2>6, <2>7, MoreThere
  <2>9. /\ r \notin {CreateAsk, StopAsk, Fine, Broken, ReleaseAsk}
        /\ \A j : r # CallAsk(j) /\ (j # k => r # ReturnAsk(j))
    BY RequestFacts DEF r
  <2>10. /\ v.shared.crashed = "no" /\ ControlSound(v) /\ Placed(v)
         /\ \A d \in Cores : CoreSound(v, d, owes, spare)
    <3>1. \A q \in Pairs : /\ \A x \in {CreateAsk, StopAsk, Fine, Broken, ReleaseAsk} :
                                  In(v, q, x) = In(w, q, x)
                           /\ q[1] = q[2] => v.msg[q] = w.msg[q]
      BY <2>4, <2>6, <2>7, <2>8, <2>9
    <3>2. v.shared = w.shared /\ v.service = w.service /\ v.control = w.control /\ v.loan = w.loan
      BY <2>4, <2>7
    <3> QED BY ONLY <3>1, <3>2, Sound(w, owes, spare, {k}), OnlyCalls
  <2>11. CallSound(v, k, {})
    <3>0. w.call[k].to = c  BY <1>4
    <3>1. v.call[k].state = "returning" /\ v.call[k].to = c /\ v.call[k].from = to
      BY <1>0, <2>4, <2>7, <3>0 DEF CallStates, to
    <3>2. ASSUME NEW q \in Pairs
          PROVE  /\ In(v, q, CallAsk(k)) = 0
                 /\ In(v, q, ReturnAsk(k)) = Indicator(q = p)
      <4>1. In(v, q, CallAsk(k)) = 0  BY <1>1, <2>8, <2>9
      <4>2. CASE q = p  BY <1>1, <2>8, <4>1, <4>2 DEF Indicator, r
      <4>3. CASE q # p  BY <1>1, <2>8, <4>1, <4>3 DEF Indicator, r
      <4> QED BY <4>2, <4>3
    <3>3. \A d \in Cores : k \notin v.service[d].calls  BY <1>1, <2>4, <2>7
    <3> QED BY <3>1, <3>2, <3>3 DEF CallSound, Indicator, p
  <2>12. ASSUME NEW j \in Callers, j # k PROVE CallSound(v, j, {})
    <3>1. v.call[j] = w.call[j]  BY <1>0, <2>4, <2>7, <2>12
    <3>2. \A q \in Pairs : /\ In(v, q, CallAsk(j)) = In(w, q, CallAsk(j))
                           /\ In(v, q, ReturnAsk(j)) = In(w, q, ReturnAsk(j))
      BY <2>8, <2>9, <2>12
    <3> QED BY <1>2, <2>4, <2>7, <2>12, <3>1, <3>2, CallKept
  <2> QED BY ONLY <2>7, <2>10, <2>11, <2>12 DEF Sound
<1> QED BY <1>3, <1>4
-----------------------------------------------------------------------------
(* A step that concerns the instance of core c only.                       *)
AllBut(w, v, c) ==
    /\ v \in Worlds /\ v.shared.crashed = "no"
    /\ v.msg = w.msg /\ v.loan = w.loan /\ v.control = w.control
    /\ v.shared.kind = w.shared.kind /\ v.shared.size = w.shared.size
    /\ \A d \in Cores : d # c =>
           /\ v.service[d] = w.service[d] /\ v.shared.slot[d] = w.shared.slot[d]
           /\ v.shared.freed[d] = w.shared.freed[d] \/ (Bare(v) /\ v.shared.kind = "tracked")

SameDebts(owes, owes2, c) == \A d \in Cores : d # c => (d \in owes2 <=> d \in owes)

CallsSound(w, loose) == \A k \in Callers : CallSound(w, k, loose)

LEMMA OneCore ==
    ASSUME NEW w, NEW owes, NEW spare, NEW loose, Sound(w, owes, spare, loose),
           NEW c \in Cores, NEW owes2, NEW spare2, NEW loose2,
           NEW v, AllBut(w, v, c), SameDebts(owes, owes2, c), SameDebts(spare, spare2, c),
           CoreSound(v, c, owes2, spare2), CallsSound(v, loose2)
    PROVE  Sound(v, owes2, spare2, loose2)
<1> USE DEF AllBut, SameDebts
<1>1. /\ \A p, x : In(v, p, x) = In(w, p, x)
      /\ Bare(v) <=> Bare(w)
      /\ \A d : Lent(v, d) = Lent(w, d)
      /\ Placed(v)
  BY SameMessages DEF Sound
<1>2. ControlSound(v)  BY DEF Sound, ControlSound
<1>3. ASSUME NEW d \in Cores, d # c PROVE CoreSound(v, d, owes2, spare2)
  <2>1. CoreSound(w, d, owes, spare)  BY DEF Sound
  <2>2. SameInstance(w, v, d)  BY <1>1, <1>3 DEF SameInstance
  <2>3. SameTurn(w, v, d)  BY DEF SameTurn
  <2>4. SameRequests(w, v, d)  BY <1>1 DEF SameRequests
  <2> QED BY <1>3, <2>1, <2>2, <2>3, <2>4, CoreKept DEF Same
<1>4. v \in Worlds /\ v.shared.crashed = "no" /\ CoreSound(v, c, owes2, spare2)  OBVIOUS
<1>5. \A k \in Callers : CallSound(v, k, loose2)  BY DEF CallsSound
<1> QED BY ONLY <1>1, <1>2, <1>3, <1>4, <1>5 DEF Sound

LEMMA CallsKept ==
    ASSUME NEW w, NEW v, NEW loose, CallsSound(w, loose),
           v.call = w.call, v.msg = w.msg, v.loan = w.loan,
           \A d \in Cores : v.service[d].calls = w.service[d].calls
    PROVE  CallsSound(v, loose)
<1>1. \A p, x : In(v, p, x) = In(w, p, x)  BY SameMessages
<1> QED BY <1>1, CallKept DEF CallsSound

(* The last reference to an instance of core c goes.                       *)
LEMMA LastReleased ==
    ASSUME NEW w, NEW owes, NEW loose, NEW c \in Cores, Sound(w, owes, {c}, loose),
           w.service[c].refs = 1
    PROVE  /\ w.service[c].state \in {"failed", "stopped", "freeing"}
           /\ w.control.op # "start"
           /\ w.control.op = "none" => w.control.result \notin {"none", "started"}
           /\ w.control.op = "none" => w.service[c].state # "freeing"
           /\ w.service[c].state = "freeing" => c \notin owes
           /\ Inside(w, c) = 0 /\ Lent(w, c) = 0
<1>0. w \in Worlds  BY DEF Sound
<1>1. /\ Own(w, c) \in Nat /\ Inside(w, c) \in Nat /\ Lent(w, c) \in Nat
      /\ w.service[c] \in Instances
  BY <1>0, CoreNumbers
<1>2. RefsExact(w, c, {c}) /\ Phase(w, c) /\ Turn(w, c, owes) /\ ControlSound(w)
  BY DEF Sound, CoreSound
<1>3. Own(w, c) = 0 /\ Inside(w, c) = 0 /\ Lent(w, c) = 0
  BY <1>1, <1>2 DEF RefsExact, Indicator
<1>4. w.service[c].state \in {"failed", "stopped", "freeing"}
  BY <1>1, <1>2, <1>3 DEF Own, Phase, Instances, States, Indicator
<1>5. w.control.op # "start" /\ (w.control.op = "none" => w.control.result \notin {"none", "started"})
  BY <1>2, <1>4 DEF Turn
<1>6. w.service[c].state = "freeing" => c \notin owes /\ c \in w.control.left
  <2> SUFFICES ASSUME w.service[c].state = "freeing" PROVE c \notin owes /\ c \in w.control.left
    OBVIOUS
  <2>1. /\ In(w, <<0, c>>, CreateAsk) \in Nat /\ In(w, <<0, c>>, StopAsk) \in Nat
        /\ In(w, <<c, 0>>, Fine) \in Nat /\ In(w, <<c, 0>>, Broken) \in Nat
    BY <1>0, CoreNumbers
  <2>2. Tokens(w, c) \in Nat /\ Tokens(w, c) > 0  BY <2>1 DEF Tokens, Indicator
  <2>3. Tokens(w, c) + Indicator(c \in owes) = Indicator(c \in w.control.left)
    BY <1>2 DEF Turn
  <2> QED BY ONLY <2>2, <2>3 DEF Indicator
<1>7. w.control.op = "none" => w.service[c].state # "freeing"
  BY <1>2, <1>6 DEF ControlSound
<1> QED BY <1>3, <1>4, <1>5, <1>6, <1>7

(* ... so that it is dead, or lost where its deletion is not noticed.      *)
GoneStep(w, v, c, s) ==
    /\ v \in Worlds /\ v.msg = w.msg /\ v.loan = w.loan /\ v.control = w.control
    /\ v.call = w.call
    /\ v.shared.crashed = "no" /\ v.shared.kind = w.shared.kind /\ v.shared.size = w.shared.size
    /\ v.shared.slot = w.shared.slot
    /\ \A d \in Cores : d # c => v.shared.freed[d] = w.shared.freed[d]
    /\ v.service[c].state = s /\ v.service[c].refs = 0
    /\ v.service[c].calls = w.service[c].calls /\ v.service[c].stops = w.service[c].stops
    /\ \A d \in Cores : d # c => v.service[d] = w.service[d]

GoneDebts(w, c, s, owes, owes2) ==
    /\ s \in {"dead", "lost"}
    /\ s = "lost" => w.shared.kind = "tracked" /\ Bare(w) /\ w.service[c].state = "freeing"
    /\ \A d \in Cores : d \in owes2 <=>
           d \in owes \/ (d = c /\ s = "dead" /\ w.service[c].state = "freeing")

LEMMA GoneSound ==
    ASSUME NEW w, NEW owes, NEW loose, NEW c \in Cores, Sound(w, owes, {c}, loose),
           w.service[c].refs = 1,
           NEW s, NEW owes2, GoneDebts(w, c, s, owes, owes2),
           NEW v, GoneStep(w, v, c, s)
    PROVE  Sound(v, owes2, {}, loose)
<1> USE DEF GoneStep, GoneDebts
<1>0. w \in Worlds /\ w.service \in [Cores -> Instances] /\ w.service[c] \in Instances
  BY DEF Sound, Worlds
<1>1. /\ v.service[c].state = s /\ v.service[c].refs = 0
      /\ v.service[c].calls = w.service[c].calls /\ v.service[c].stops = w.service[c].stops
      /\ \A d \in Cores : d # c => v.service[d] = w.service[d]
  OBVIOUS
<1>2. /\ w.service[c].state \in {"failed", "stopped", "freeing"}
      /\ w.control.op # "start"
      /\ w.control.op = "none" => w.control.result \notin {"none", "started"}
      /\ w.control.op = "none" => w.service[c].state # "freeing"
      /\ w.service[c].state = "freeing" => c \notin owes
      /\ Inside(w, c) = 0 /\ Lent(w, c) = 0
  BY LastReleased
<1>3. RefsExact(w, c, {c}) /\ Phase(w, c) /\ Turn(w, c, owes)
  BY DEF Sound, CoreSound
<1>4. /\ \A p, x : In(v, p, x) = In(w, p, x)
      /\ Bare(v) <=> Bare(w)
      /\ \A d : Lent(v, d) = Lent(w, d)
  BY SameMessages
<1>5. RefsExact(v, c, {})
  <2>1. Own(v, c) = 0 /\ Inside(v, c) = Inside(w, c)
    BY <1>1 DEF Own, Inside, Indicator
  <2> QED BY <1>1, <1>2, <1>4, <2>1 DEF RefsExact, Indicator
<1>6. Phase(v, c)  BY <1>1, <1>2, <1>3, <1>4 DEF Phase
<1>7. Turn(v, c, owes2)
  <2>1. Tokens(v, c) + Indicator(c \in owes2) = Tokens(w, c) + Indicator(c \in owes)
    <3> DEFINE a == In(w, <<0, c>>, CreateAsk) + In(w, <<0, c>>, StopAsk)
               b == In(w, <<c, 0>>, Fine)
               e == In(w, <<c, 0>>, Broken)
               i == Indicator(w.service[c].state \in {"stopping", "freeing", "lost"})
               j == Indicator(s \in {"stopping", "freeing", "lost"})
    <3>1. a \in Nat /\ b \in Nat /\ e \in Nat  BY <1>0, CoreNumbers DEF Sound
    <3>2. Tokens(w, c) = a + i + b + e  BY DEF Tokens
    <3>3. Tokens(v, c) = a + j + b + e  BY <1>1, <1>4 DEF Tokens
    <3>4. j + Indicator(c \in owes2) = i + Indicator(c \in owes)
      BY <1>2 DEF Indicator
    <3>5. i \in Nat /\ j \in Nat /\ Indicator(c \in owes2) \in Nat /\ Indicator(c \in owes) \in Nat
      BY DEF Indicator
    <3> HIDE DEF a, b, e, i, j
    <3> QED BY ONLY <3>1, <3>2, <3>3, <3>4, <3>5
  <2>2. v.service[c].state \in {"dead", "lost"}  BY <1>1
  <2>3. s = "lost" => w.control.op # "none"  BY <1>2
  <2>4. v.control = w.control  OBVIOUS
  <2> QED BY ONLY <1>1, <1>2, <1>3, <1>4, <2>1, <2>2, <2>3, <2>4 DEF Turn
<1>8. CallsSound(v, loose)
  <2>1. CallsSound(w, loose)  BY DEF Sound, CallsSound
  <2>2. \A d \in Cores : v.service[d].calls = w.service[d].calls  BY <1>1
  <2>3. v.call = w.call /\ v.msg = w.msg /\ v.loan = w.loan  OBVIOUS
  <2> QED BY ONLY <2>1, <2>2, <2>3, CallsKept
<1>9. CoreSound(v, c, owes2, {})  BY <1>5, <1>6, <1>7 DEF CoreSound
<1>10. AllBut(w, v, c) /\ SameDebts(owes, owes2, c) /\ SameDebts({c}, {}, c)
  BY <1>1 DEF AllBut, SameDebts
<1> QED BY <1>8, <1>9, <1>10, OneCore
-----------------------------------------------------------------------------
(* What a world satisfies when the program has failed.                     *)
StoppedRight(w) ==
    \A c \in Cores :
        /\ w.service[c].stops <= 1
        /\ w.service[c].state \in {"dead", "lost"} => w.service[c].stops = 1 /\ w.service[c].refs = 0
        /\ w.shared.slot[c] => w.service[c].state = "alive"

AtRest(w) == w.control.op = "none" /\ w.control.result \in {"stopped", "not started"}

CompleteAt(w, c) ==
    /\ ~w.shared.slot[c]
    /\ ~Bare(w) => w.service[c].state = "dead" \/ (w.loan.state # "none" /\ w.loan.of = c)
    /\ w.shared.kind = "tracked" /\ ~Bare(w) => w.service[c].state = "dead"

Settled(w) ==
    /\ StoppedRight(w)
    /\ AtRest(w) => /\ w.shared.size = 0
                    /\ \A c \in Cores : w.service[c].state # "none" => CompleteAt(w, c)

CrashesRight(w) ==
    /\ w.shared.crashed # "no"
    /\ w.shared.crashed = "dangling" => w.shared.kind = "bare"
    /\ w.shared.crashed \in {"freed twice", "deleted late"} => Bare(w)

CrashOK(w) == Settled(w) /\ CrashesRight(w)

LEMMA SoundSettled ==
    ASSUME NEW w, NEW owes, NEW spare, NEW loose, Sound(w, owes, spare, loose),
           \A c \in Cores : c \notin spare \/ w.shared.kind = "tracked"
    PROVE  Settled(w)
<1>0. w \in Worlds  BY DEF Sound
<1>1. \A c \in Cores : RefsExact(w, c, spare) /\ Phase(w, c) /\ Turn(w, c, owes)
  BY DEF Sound, CoreSound
<1>2. StoppedRight(w)  BY <1>1 DEF StoppedRight, Phase
<1>3. AtRest(w) => w.shared.size = 0  BY DEF AtRest, Sound, ControlSound
<1>4. ASSUME NEW c \in Cores, AtRest(w), w.service[c].state # "none" PROVE CompleteAt(w, c)
  <2>1. w.service[c].state \in {"dead", "stopped"}  BY <1>1, <1>4 DEF AtRest, Turn
  <2>2. ~w.shared.slot[c] /\ (w.service[c].state = "stopped" => w.service[c].refs > 0)
    BY <1>1, <2>1 DEF Phase
  <2>3. w.shared.kind = "tracked" /\ w.service[c].state = "stopped" => Bare(w)
    BY <1>1 DEF Phase
  <2>4. ASSUME w.shared.kind # "tracked", w.service[c].state = "stopped"
        PROVE  w.loan.state # "none" /\ w.loan.of = c
    <3>1. w.service[c].refs = Lent(w, c)
      <4>1. Own(w, c) = 0 /\ Inside(w, c) = 0 /\ Indicator(c \in spare) = 0
        BY <2>4 DEF Own, Inside, Indicator
      <4>2. Lent(w, c) \in Nat  BY <1>0, CoreNumbers
      <4> QED BY <1>1, <4>1, <4>2 DEF RefsExact
    <3>2. w.loan.of = c  BY <2>2, <2>4, <3>1 DEF Lent
    <3>3. CASE w.loan.state = "none"
      <4>1. <<w.loan.at, w.loan.of>> \in Pairs  BY <1>0 DEF Worlds, Loans, Pairs
      <4>2. In(w, <<w.loan.at, w.loan.of>>, ReleaseAsk) > 0
        <5>1. Lent(w, c) = Indicator(w.loan.state = "lent") + In(w, <<w.loan.at, w.loan.of>>, ReleaseAsk)
          BY <3>2 DEF Lent
        <5>2. Indicator(w.loan.state = "lent") = 0 /\ In(w, <<w.loan.at, w.loan.of>>, ReleaseAsk) \in Nat
          BY <1>0, <3>3, <4>1, InType DEF Indicator
        <5>3. w.service[c].refs > 0  BY <2>2, <2>4
        <5> QED BY ONLY <3>1, <5>1, <5>2, <5>3
      <4> QED BY <3>3, <4>1, <4>2 DEF Sound, Placed
    <3> QED BY <3>2, <3>3
  <2> QED BY <2>1, <2>2, <2>3, <2>4 DEF CompleteAt
<1> QED BY <1>2, <1>3, <1>4 DEF Settled

(* What a crash looks at.                                                  *)
LEMMA SettledKept ==
    ASSUME NEW w, NEW v, Settled(w), v.shared = w.shared \/ v.shared.crashed # "no",
           v.shared.kind = w.shared.kind, v.shared.size = w.shared.size,
           v.shared.slot = w.shared.slot,
           v.service = w.service, v.loan = w.loan, v.control.op = w.control.op,
           v.control.result = w.control.result
    PROVE  Settled(v)
<1>1. Bare(v) <=> Bare(w)  BY DEF Bare
<1>2. StoppedRight(v)  BY DEF Settled, StoppedRight
<1>3. ASSUME NEW c \in Cores, CompleteAt(w, c) PROVE CompleteAt(v, c)
  BY <1>1, <1>3 DEF CompleteAt
<1> QED BY <1>2, <1>3 DEF Settled, AtRest

LEMMA CrashKept ==
    ASSUME NEW w, NEW v, CrashOK(w), v.shared = w.shared,
           v.service = w.service, v.loan = w.loan, v.control.op = w.control.op,
           v.control.result = w.control.result
    PROVE  CrashOK(v)
<1>1. Settled(v)  BY SettledKept DEF CrashOK
<1>2. Bare(v) <=> Bare(w)  BY DEF Bare
<1> QED BY <1>1, <1>2 DEF CrashOK, CrashesRight
-----------------------------------------------------------------------------
WithService(w, c, x) == [w EXCEPT !.service = [w.service EXCEPT ![c] = x]]
WithFreed(w, c) == [w EXCEPT !.shared.freed[c] = TRUE]

LEMMA ServiceWorld ==
    ASSUME NEW w \in Worlds, NEW c \in Cores, NEW x \in Instances,
           NEW v, v = WithService(w, c, x)
    PROVE  /\ v \in Worlds /\ v.shared = w.shared /\ v.control = w.control /\ v.call = w.call
           /\ v.loan = w.loan /\ v.msg = w.msg
           /\ v.service[c] = x
           /\ \A d \in Cores : d # c => v.service[d] = w.service[d]
<1>1. w.service \in [Cores -> Instances] /\ [w.service EXCEPT ![c] = x] \in [Cores -> Instances]
  BY DEF Worlds
<1> DEFINE s == [w.service EXCEPT ![c] = x]
<1>2. s[c] = x /\ \A d \in Cores : d # c => s[d] = w.service[d]  BY <1>1
<1>3. s \in [Cores -> Instances] /\ v = [w EXCEPT !.service = s]
  BY <1>1 DEF WithService
<1> HIDE DEF s
<1>4. /\ v \in Worlds /\ v.shared = w.shared /\ v.control = w.control /\ v.call = w.call
      /\ v.loan = w.loan /\ v.msg = w.msg /\ v.service = s
  BY <1>3 DEF Worlds
<1> QED BY <1>2, <1>4

LEMMA FreedWorld ==
    ASSUME NEW w \in Worlds, NEW c \in Cores, NEW v, v = WithFreed(w, c)
    PROVE  /\ v \in Worlds /\ v.service = w.service /\ v.control = w.control /\ v.call = w.call
           /\ v.loan = w.loan /\ v.msg = w.msg
           /\ v.shared.kind = w.shared.kind /\ v.shared.size = w.shared.size
           /\ v.shared.slot = w.shared.slot /\ v.shared.crashed = w.shared.crashed
           /\ v.shared.freed[c] /\ \A d \in Cores : d # c => v.shared.freed[d] = w.shared.freed[d]
<1> DEFINE f == [w.shared.freed EXCEPT ![c] = TRUE]
           s == [w.shared EXCEPT !.freed = f]
<1>1. w.shared \in SharedStates /\ w.shared.freed \in [Cores -> BOOLEAN]
  BY DEF Worlds, SharedStates
<1>2. f \in [Cores -> BOOLEAN] /\ f[c] /\ \A d \in Cores : d # c => f[d] = w.shared.freed[d]
  BY <1>1
<1>3. v = [w EXCEPT !.shared = s]  BY <1>1 DEF Worlds, SharedStates, WithFreed
<1> HIDE DEF f
<1>4. /\ s \in SharedStates /\ s.freed = f /\ s.kind = w.shared.kind /\ s.size = w.shared.size
      /\ s.slot = w.shared.slot /\ s.crashed = w.shared.crashed
  BY <1>1, <1>2 DEF SharedStates
<1> HIDE DEF s
<1>5. /\ v \in Worlds /\ v.service = w.service /\ v.control = w.control /\ v.call = w.call
      /\ v.loan = w.loan /\ v.msg = w.msg /\ v.shared = s
  BY <1>3, <1>4 DEF Worlds
<1> QED BY <1>2, <1>4, <1>5

Crashes == {"range", "dangling", "freed twice", "deleted late"}

LEMMA CrashWorld ==
    ASSUME NEW w \in Worlds, NEW why \in Crashes,
           NEW v, v = Crash(w, why)
    PROVE  /\ v \in Worlds /\ v.service = w.service /\ v.control = w.control /\ v.call = w.call
           /\ v.loan = w.loan /\ v.msg = w.msg
           /\ v.shared.kind = w.shared.kind /\ v.shared.size = w.shared.size
           /\ v.shared.slot = w.shared.slot
           /\ v.shared.crashed = why
<1> DEFINE s == [w.shared EXCEPT !.crashed = why]
<1>1. w.shared \in SharedStates  BY DEF Worlds
<1>2. v = [w EXCEPT !.shared = s]  BY DEF Worlds, Crash
<1>3. /\ s.kind = w.shared.kind /\ s.size = w.shared.size /\ s.slot = w.shared.slot
      /\ s.crashed = why /\ s \in SharedStates
  BY <1>1 DEF SharedStates, Crashes
<1> HIDE DEF s
<1>4. /\ v.service = w.service /\ v.control = w.control /\ v.call = w.call
      /\ v.loan = w.loan /\ v.msg = w.msg /\ v.shared = s /\ v \in Worlds
  BY <1>2, <1>3 DEF Worlds
<1> QED BY <1>3, <1>4

LEMMA AnsweredWorld ==
    ASSUME NEW w \in Worlds, NEW c \in Cores, NEW failed \in BOOLEAN, NEW v, v = Answered(w, c, failed)
    PROVE  /\ v \in Worlds /\ v.shared = w.shared /\ v.service = w.service
           /\ v.call = w.call /\ v.loan = w.loan
           /\ v.control.op = w.control.op /\ v.control.result = w.control.result
<1>1. CASE c = 0
  <2> DEFINE s == [w.control EXCEPT !.left = @ \ {0}, !.failed = @ \/ failed]
  <2>1. v = [w EXCEPT !.control = s]  BY <1>1 DEF Answered, Joined, Worlds
  <2>2. /\ w.control \in Controls /\ s.op = w.control.op /\ s.result = w.control.result
        /\ s \in Controls
    BY DEF Worlds, Controls
  <2> HIDE DEF s
  <2>3. /\ v.shared = w.shared /\ v.service = w.service /\ v.call = w.call /\ v.loan = w.loan
        /\ v.control = s /\ v \in Worlds
    BY <2>1, <2>2 DEF Worlds
  <2> QED BY ONLY <2>2, <2>3
<1>2. CASE c # 0
  <2>1. v = Sent(w, c, 0, IF failed THEN Broken ELSE Fine)
    BY <1>2 DEF Answered, Fine, Broken, Request
  <2>2. (IF failed THEN Broken ELSE Fine) \in Requests /\ 0 \in Cores
    BY RequestFacts, CoreFacts
  <2> HIDE DEF Broken, Fine
  <2> QED BY <2>1, <2>2, SentWorld
<1> QED BY <1>1, <1>2

LEMMA ReturnedWorld ==
    ASSUME NEW w \in Worlds, NEW c, NEW k, NEW v, v = Returned(w, c, k)
    PROVE  /\ v.shared = w.shared /\ v.service = w.service /\ v.loan = w.loan
           /\ v.control = w.control
BY DEF Worlds, Returned, Sent

(* One of several references goes.                                         *)
LEMMA OneOfSeveral ==
    ASSUME NEW w, NEW owes, NEW loose, NEW c \in Cores, Sound(w, owes, {c}, loose),
           w.service[c].refs # 1,
           NEW v, v = [w EXCEPT !.service[c].refs = @ - 1]
    PROVE  Sound(v, owes, {}, loose)
<1> DEFINE x == [w.service[c] EXCEPT !.refs = @ - 1]
<1>0. w \in Worlds /\ w.service[c] \in Instances  BY DEF Sound, Worlds
<1>1. /\ x \in Instances /\ x.state = w.service[c].state /\ x.stops = w.service[c].stops
      /\ x.calls = w.service[c].calls /\ x.refs = w.service[c].refs - 1
  BY <1>0 DEF Instances
<1>2. v = WithService(w, c, x)  BY <1>0 DEF Worlds, WithService
<1> HIDE DEF x
<1>3. /\ v \in Worlds /\ v.shared = w.shared /\ v.control = w.control /\ v.call = w.call
      /\ v.loan = w.loan /\ v.msg = w.msg /\ v.service[c] = x
      /\ \A d \in Cores : d # c => v.service[d] = w.service[d]
  BY ONLY <1>0, <1>1, <1>2, c \in Cores, ServiceWorld
<1>4. /\ \A p, r : In(v, p, r) = In(w, p, r)
      /\ Bare(v) <=> Bare(w)
      /\ \A d : Lent(v, d) = Lent(w, d)
  BY ONLY <1>3, SameMessages
<1>5. RefsExact(w, c, {c}) /\ Phase(w, c) /\ Turn(w, c, owes)
  BY DEF Sound, CoreSound
<1>6. /\ Own(v, c) = Own(w, c) /\ Inside(v, c) = Inside(w, c) /\ Lent(v, c) = Lent(w, c)
      /\ Own(w, c) \in Nat /\ Inside(w, c) \in Nat /\ Lent(w, c) \in Nat
      /\ w.service[c].refs \in Int
  <2>1. Own(v, c) = Own(w, c) /\ Inside(v, c) = Inside(w, c)
    BY ONLY <1>1, <1>3 DEF Own, Inside
  <2> QED BY ONLY <1>0, <1>4, <2>1, c \in Cores, CoreNumbers DEF Instances
<1>7. w.service[c].refs = Own(w, c) + Inside(w, c) + Lent(w, c) + 1
  BY <1>5 DEF RefsExact, Indicator
<1>8. RefsExact(v, c, {})  BY <1>1, <1>3, <1>6, <1>7 DEF RefsExact, Indicator
<1>9. w.service[c].refs > 1 /\ x.refs > 0
  BY ONLY <1>1, <1>6, <1>7, w.service[c].refs # 1
<1>10. Phase(v, c)  BY <1>1, <1>3, <1>4, <1>5, <1>9 DEF Phase
<1>11. Turn(v, c, owes)
  <2>1. Tokens(v, c) = Tokens(w, c)  BY <1>1, <1>3, <1>4 DEF Tokens
  <2> QED BY ONLY <1>1, <1>3, <1>4, <1>5, <2>1 DEF Turn
<1>12. CallsSound(v, loose)
  <2>1. CallsSound(w, loose)  BY DEF Sound, CallsSound
  <2>2. \A d \in Cores : v.service[d].calls = w.service[d].calls  BY <1>1, <1>3
  <2> QED BY ONLY <1>3, <2>1, <2>2, CallsKept
<1>13. AllBut(w, v, c) /\ SameDebts(owes, owes, c) /\ SameDebts({c}, {}, c)
  BY <1>3 DEF AllBut, SameDebts, Sound
<1> QED BY <1>8, <1>10, <1>11, <1>12, <1>13, OneCore DEF CoreSound
(* Who stops or is deleted has not answered.                               *)
LEMMA WorkedAt ==
    ASSUME NEW w, NEW owes, NEW spare, NEW loose, NEW c \in Cores, Sound(w, owes, spare, loose),
           w.service[c].state \in {"stopping", "freeing", "lost"}
    PROVE  c \notin owes /\ c \in w.control.left /\ w.control.op = "stop"
<1>0. w \in Worlds /\ w.control \in Controls  BY DEF Sound, Worlds
<1>1. Turn(w, c, owes) /\ ControlSound(w)  BY DEF Sound, CoreSound
<1>2. /\ In(w, <<0, c>>, CreateAsk) \in Nat /\ In(w, <<0, c>>, StopAsk) \in Nat
      /\ In(w, <<c, 0>>, Fine) \in Nat /\ In(w, <<c, 0>>, Broken) \in Nat
  BY <1>0, CoreNumbers
<1>3. Tokens(w, c) \in Nat /\ Tokens(w, c) > 0  BY <1>2 DEF Tokens, Indicator
<1>4. Tokens(w, c) + Indicator(c \in owes) = Indicator(c \in w.control.left)
  BY <1>1 DEF Turn
<1>5. c \notin owes /\ c \in w.control.left  BY ONLY <1>3, <1>4 DEF Indicator
<1>6. w.control.op # "start" /\ w.control.op # "none"
  BY <1>1, <1>5 DEF Turn, ControlSound
<1> QED BY <1>0, <1>5, <1>6 DEF Controls

(* What is known of v after a reference of core c went.                    *)
Released(w, v, c) ==
    /\ v \in Worlds /\ v.call = w.call /\ v.control.op = w.control.op
    /\ v.service[c].state \in {w.service[c].state, "dead", "lost", "stopped"}

LEMMA DeletedIs ==
    ASSUME NEW w, w.shared.size \in Int, NEW at \in Int, w.shared.freed[at] \in BOOLEAN
    PROVE  /\ at >= w.shared.size => ServiceDeleted(w, at) = Crash(w, "deleted late")
           /\ at < w.shared.size /\ w.shared.freed[at]
                  => ServiceDeleted(w, at) = Crash(w, "freed twice")
           /\ at < w.shared.size /\ ~w.shared.freed[at]
                  => ServiceDeleted(w, at) =
                        IF w.service[at].state = "freeing"
                        THEN Answered([WithFreed(w, at) EXCEPT
                                          !.service[at].state = IF w.service[at].refs = 0
                                                                THEN "dead" ELSE "stopped"], at, FALSE)
                        ELSE WithFreed(w, at)
<1>1. ASSUME at >= w.shared.size PROVE ServiceDeleted(w, at) = Crash(w, "deleted late")
  <2>1. ~(at < w.shared.size)  BY <1>1
  <2> QED BY <1>1, <2>1 DEF ServiceDeleted
<1>2. ASSUME at < w.shared.size, w.shared.freed[at]
      PROVE  ServiceDeleted(w, at) = Crash(w, "freed twice")
  <2>1. ~(at >= w.shared.size)  BY <1>2
  <2> QED BY <1>2, <2>1 DEF ServiceDeleted
<1>3. ASSUME at < w.shared.size, ~w.shared.freed[at]
      PROVE  ServiceDeleted(w, at) =
                IF w.service[at].state = "freeing"
                THEN Answered([WithFreed(w, at) EXCEPT
                                  !.service[at].state = IF w.service[at].refs = 0
                                                        THEN "dead" ELSE "stopped"], at, FALSE)
                ELSE WithFreed(w, at)
  <2>1. ~(at >= w.shared.size)  BY <1>3
  <2> QED BY Zenon, <1>3, <2>1 DEF ServiceDeleted, WithFreed
<1> QED BY <1>1, <1>2, <1>3

(* The destructor of a tracked service runs on core at.                    *)
LEMMA DeletedSound ==
    ASSUME NEW w, NEW owes, NEW loose, Sound(w, owes, {}, loose), NEW at \in Cores, NEW c \in Cores,
           w.shared.kind = "tracked",
           \/ Bare(w)
           \/ at < w.shared.size /\ ~w.shared.freed[at] /\ w.service[at].state = "dead",
           NEW v, v = ServiceDeleted(w, at)
    PROVE  Released(w, v, c) /\ (Sound(v, owes, {}, loose) \/ CrashOK(v))
<1>b. w \in Worlds /\ w.shared \in SharedStates /\ w.shared.crashed = "no"
  BY DEF Sound, Worlds
<1>c. w.shared.size \in Int /\ at \in Int /\ w.shared.freed[at] \in BOOLEAN
  <2>1. w.shared.size \in 0 .. Cardinality(Cores) /\ w.shared.freed[at] \in BOOLEAN
    BY <1>b DEF SharedStates
  <2>2. at \in Nat /\ Cardinality(Cores) \in Nat  BY CoreFacts
  <2> QED BY <2>1, <2>2
<1>d. Settled(w)  BY SoundSettled
<1>0. w \in Worlds /\ Settled(w) /\ w.shared.crashed = "no"  BY <1>b, <1>d
<1>a. /\ RefsExact(w, at, {}) /\ Phase(w, at) /\ Turn(w, at, owes)
      /\ w.service[at] \in Instances
  BY <1>0 DEF Sound, CoreSound, Worlds
<1>1. ASSUME Bare(w), NEW why, why \in {"freed twice", "deleted late"}, v = Crash(w, why)
      PROVE  Released(w, v, c) /\ CrashOK(v)
  <2>1. /\ v \in Worlds /\ v.service = w.service /\ v.control = w.control /\ v.call = w.call
        /\ v.loan = w.loan /\ v.msg = w.msg
        /\ v.shared.kind = w.shared.kind /\ v.shared.size = w.shared.size
        /\ v.shared.slot = w.shared.slot /\ v.shared.crashed = why
    <3>1. why \in Crashes  BY <1>1 DEF Crashes
    <3>2. w \in Worlds /\ v = Crash(w, why)  BY <1>0, <1>1
    <3> QED BY ONLY <3>1, <3>2, CrashWorld
  <2>2. Settled(v)
    <3>1. v.shared.crashed # "no"  BY <1>1, <2>1
    <3> QED BY ONLY <1>0, <2>1, <3>1, SettledKept
  <2>3. Bare(v)  BY <1>1, <2>1 DEF Bare
  <2>4. v.shared.crashed \in {"freed twice", "deleted late"}  BY <1>1, <2>1
  <2> QED BY ONLY <2>1, <2>2, <2>3, <2>4 DEF Released, CrashOK, CrashesRight
<1>2. CASE at >= w.shared.size
  <2>1. v = Crash(w, "deleted late")  BY <1>2, <1>c, DeletedIs
  <2>2. ~(at < w.shared.size)  BY <1>2, <1>c
  <2>3. Bare(w)  BY <2>2
  <2> QED BY <1>1, <2>1, <2>3
<1>3. CASE at < w.shared.size /\ w.shared.freed[at]
  <2>1. Bare(w) /\ v = Crash(w, "freed twice")  BY <1>3, <1>c, DeletedIs
  <2> QED BY <1>1, <2>1
<1>4. CASE at < w.shared.size /\ ~w.shared.freed[at]
  <2> DEFINE u == WithFreed(w, at)
  <2>1. v = IF w.service[at].state = "freeing"
            THEN Answered([u EXCEPT !.service[at].state = IF w.service[at].refs = 0
                                                          THEN "dead" ELSE "stopped"], at, FALSE)
            ELSE u
    BY <1>4, <1>c, DeletedIs
  <2> HIDE DEF u
  <2>2. /\ u \in Worlds /\ u.service = w.service /\ u.control = w.control /\ u.call = w.call
        /\ u.loan = w.loan /\ u.msg = w.msg
        /\ u.shared.kind = w.shared.kind /\ u.shared.size = w.shared.size
        /\ u.shared.slot = w.shared.slot /\ u.shared.crashed = w.shared.crashed
        /\ u.shared.freed[at] /\ \A d \in Cores : d # at => u.shared.freed[d] = w.shared.freed[d]
    BY <1>0, FreedWorld DEF u
  <2>3. CallsSound(w, loose)  BY DEF Sound, CallsSound
  <2>4. CASE w.service[at].state # "freeing"
    <3>1. v = u  BY <2>1, <2>4
    <3>2. /\ \A p, r : In(u, p, r) = In(w, p, r)
          /\ Bare(u) <=> Bare(w)
          /\ \A d : Lent(u, d) = Lent(w, d)
      BY ONLY <2>2, SameMessages
    <3>3. RefsExact(u, at, {})  BY ONLY <1>a, <2>2, <3>2 DEF RefsExact, Own, Inside
    <3>4. Phase(u, at)
      <4>1. Bare(w) \/ w.service[at].state = "dead"  OBVIOUS
      <4> QED BY ONLY <1>a, <2>2, <3>2, <4>1 DEF Phase
    <3>5. Turn(u, at, owes)
      <4>1. Tokens(u, at) = Tokens(w, at)  BY ONLY <2>2, <3>2 DEF Tokens
      <4>2. u.control = w.control /\ u.service = w.service  BY <2>2
      <4>3. Turn(w, at, owes)  BY <1>a
      <4> QED BY ONLY <3>2, <4>1, <4>2, <4>3 DEF Turn
    <3>6. CallsSound(u, loose)  BY ONLY <2>2, <2>3, CallsKept
    <3>7. AllBut(w, u, at) /\ SameDebts(owes, owes, at) /\ SameDebts({}, {}, at)
      BY ONLY <1>0, <2>2 DEF AllBut, SameDebts
    <3>8. Sound(u, owes, {}, loose)
      BY <3>3, <3>4, <3>5, <3>6, <3>7, OneCore DEF CoreSound
    <3> QED BY ONLY <2>2, <3>1, <3>8 DEF Released
  <2>5. CASE w.service[at].state = "freeing"
    <3> DEFINE x == [w.service[at] EXCEPT !.state = "stopped"]
               g == WithService(u, at, x)
               more == owes \union {at}
    <3>1. at \notin owes /\ at \in w.control.left /\ w.control.op = "stop"
      BY <2>5, WorkedAt
    <3>2. w.service[at].refs > 0 /\ Bare(w)  BY <1>a, <2>5 DEF Phase
    <3>3. v = Answered(g, at, FALSE)
      <4>1. w.service[at].refs # 0  BY ONLY <3>2, <1>a DEF Instances
      <4>2. v = Answered([u EXCEPT !.service[at].state = "stopped"], at, FALSE)
        BY <2>1, <2>5, <4>1
      <4>3. [u EXCEPT !.service[at].state = "stopped"] = g
        BY <2>2 DEF WithService, Worlds
      <4> QED BY <4>2, <4>3
    <3>4. /\ x \in Instances /\ x.state = "stopped" /\ x.refs = w.service[at].refs
          /\ x.calls = w.service[at].calls /\ x.stops = w.service[at].stops
      BY <1>a DEF Instances, States
    <3> HIDE DEF x
    <3>5. /\ g \in Worlds /\ g.shared = u.shared /\ g.control = w.control /\ g.call = w.call
          /\ g.loan = w.loan /\ g.msg = w.msg /\ g.service[at] = x
          /\ \A d \in Cores : d # at => g.service[d] = w.service[d]
      BY <2>2, <3>4, ServiceWorld
    <3> HIDE DEF g
    <3>6. /\ \A p, r : In(g, p, r) = In(w, p, r)
          /\ Bare(g) <=> Bare(w)
          /\ \A d : Lent(g, d) = Lent(w, d)
      BY ONLY <3>5, SameMessages
    <3>7. RefsExact(g, at, {})
      <4>1. Own(g, at) = Own(w, at) /\ Inside(g, at) = Inside(w, at) /\ Lent(g, at) = Lent(w, at)
        BY ONLY <2>2, <2>5, <3>4, <3>5, <3>6 DEF Own, Inside, Indicator
      <4> QED BY ONLY <1>a, <3>4, <3>5, <4>1 DEF RefsExact
    <3>8. Phase(g, at)  BY ONLY <1>a, <2>2, <2>5, <3>2, <3>4, <3>5, <3>6 DEF Phase
    <3>9. Turn(g, at, more)
      <4> DEFINE a == In(w, <<0, at>>, CreateAsk) + In(w, <<0, at>>, StopAsk)
                 b == In(w, <<at, 0>>, Fine)
                 e == In(w, <<at, 0>>, Broken)
      <4>1. a \in Nat /\ b \in Nat /\ e \in Nat  BY <1>0, CoreNumbers
      <4>2. Tokens(w, at) = a + 1 + b + e  BY <2>5 DEF Tokens, Indicator
      <4>3. Tokens(g, at) = a + 0 + b + e
        BY ONLY <3>4, <3>5, <3>6 DEF Tokens, Indicator
      <4>4. Indicator(at \in owes) = 0 /\ Indicator(at \in more) = 1
        BY <3>1 DEF Indicator
      <4> HIDE DEF a, b, e, more
      <4>5. Tokens(g, at) + Indicator(at \in more) = Tokens(w, at) + Indicator(at \in owes)
        BY ONLY <4>1, <4>2, <4>3, <4>4
      <4> QED BY ONLY <1>a, <3>1, <3>4, <3>5, <3>6, <4>5 DEF Turn
    <3>10. CallsSound(g, loose)
      <4>1. \A d \in Cores : g.service[d].calls = w.service[d].calls  BY <3>4, <3>5
      <4> QED BY ONLY <2>3, <3>5, <4>1, CallsKept
    <3>11. AllBut(w, g, at) /\ SameDebts(owes, more, at) /\ SameDebts({}, {}, at)
      BY ONLY <1>0, <2>2, <3>5 DEF AllBut, SameDebts
    <3>12. \A d \in Cores : d \in owes <=> d \in more /\ d # at  BY <3>1
    <3> HIDE DEF more
    <3>13. Sound(g, more, {}, loose)
      BY <3>7, <3>8, <3>9, <3>10, <3>11, OneCore DEF CoreSound
    <3>14. at \in more /\ g.service[at].state = "stopped"  BY <3>4, <3>5 DEF more
    <3>15. Sound(v, owes, {}, loose)
      BY ONLY <3>3, <3>12, <3>13, <3>14, at \in Cores, AnsweredSound
    <3>16. /\ v \in Worlds /\ v.service = g.service /\ v.call = g.call
           /\ v.control.op = g.control.op
      <4> DEFINE no == FALSE
      <4>1. v = Answered(g, at, no) /\ no \in BOOLEAN /\ g \in Worlds  BY <3>3, <3>5
      <4> HIDE DEF no
      <4> QED BY ONLY <4>1, at \in Cores, AnsweredWorld
    <3>17. v.service[c].state \in {w.service[c].state, "stopped"}
      BY <3>4, <3>5, <3>16
    <3> QED BY <3>5, <3>15, <3>16, <3>17 DEF Released
  <2> QED BY <2>4, <2>5
<1> QED BY <1>c, <1>2, <1>3, <1>4
Less(w, c) == [w EXCEPT !.service[c].refs = @ - 1]
WithState(w, c, s) == [w EXCEPT !.service[c].state = s]
Gone1(w, c, s) == WithState(Less(w, c), c, s)

LEMMA LessWorld ==
    ASSUME NEW w \in Worlds, NEW c \in Cores, NEW v, v = Less(w, c)
    PROVE  /\ v \in Worlds /\ v.shared = w.shared /\ v.control = w.control /\ v.call = w.call
           /\ v.loan = w.loan /\ v.msg = w.msg
           /\ v.service[c].state = w.service[c].state /\ v.service[c].refs = w.service[c].refs - 1
           /\ v.service[c].calls = w.service[c].calls /\ v.service[c].stops = w.service[c].stops
           /\ \A d \in Cores : d # c => v.service[d] = w.service[d]
<1> DEFINE x == [w.service[c] EXCEPT !.refs = @ - 1]
<1>0. w.service[c] \in Instances  BY DEF Worlds
<1>1. /\ x \in Instances /\ x.state = w.service[c].state /\ x.stops = w.service[c].stops
      /\ x.calls = w.service[c].calls /\ x.refs = w.service[c].refs - 1
  BY <1>0 DEF Instances
<1>2. v = WithService(w, c, x)  BY DEF Worlds, WithService, Less
<1> HIDE DEF x
<1>3. /\ v \in Worlds /\ v.shared = w.shared /\ v.control = w.control /\ v.call = w.call
      /\ v.loan = w.loan /\ v.msg = w.msg /\ v.service[c] = x
      /\ \A d \in Cores : d # c => v.service[d] = w.service[d]
  BY ONLY <1>1, <1>2, c \in Cores, w \in Worlds, ServiceWorld
<1> QED BY ONLY <1>1, <1>3

LEMMA StateWorld ==
    ASSUME NEW w \in Worlds, NEW c \in Cores, NEW s, s \in States,
           NEW v, v = WithState(w, c, s)
    PROVE  /\ v \in Worlds /\ v.shared = w.shared /\ v.control = w.control /\ v.call = w.call
           /\ v.loan = w.loan /\ v.msg = w.msg
           /\ v.service[c].state = s /\ v.service[c].refs = w.service[c].refs
           /\ v.service[c].calls = w.service[c].calls /\ v.service[c].stops = w.service[c].stops
           /\ \A d \in Cores : d # c => v.service[d] = w.service[d]
<1> DEFINE x == [w.service[c] EXCEPT !.state = s]
<1>0. w.service[c] \in Instances  BY DEF Worlds
<1>1. /\ x \in Instances /\ x.state = s /\ x.stops = w.service[c].stops
      /\ x.calls = w.service[c].calls /\ x.refs = w.service[c].refs
  BY <1>0 DEF Instances
<1>2. v = WithService(w, c, x)  BY DEF Worlds, WithService, WithState
<1> HIDE DEF x
<1>3. /\ v \in Worlds /\ v.shared = w.shared /\ v.control = w.control /\ v.call = w.call
      /\ v.loan = w.loan /\ v.msg = w.msg /\ v.service[c] = x
      /\ \A d \in Cores : d # c => v.service[d] = w.service[d]
  BY ONLY <1>1, <1>2, c \in Cores, w \in Worlds, ServiceWorld
<1> QED BY ONLY <1>1, <1>3

LEMMA GoneWorld ==
    ASSUME NEW w \in Worlds, NEW c \in Cores, w.service[c].refs = 1, NEW s, s \in States,
           NEW v, v = Gone1(w, c, s)
    PROVE  /\ v \in Worlds /\ v.shared = w.shared /\ v.control = w.control /\ v.call = w.call
           /\ v.loan = w.loan /\ v.msg = w.msg
           /\ v.service[c].state = s /\ v.service[c].refs = 0
           /\ v.service[c].calls = w.service[c].calls /\ v.service[c].stops = w.service[c].stops
           /\ \A d \in Cores : d # c => v.service[d] = w.service[d]
<1> DEFINE u == Less(w, c)
<1>1. /\ u \in Worlds /\ u.shared = w.shared /\ u.control = w.control /\ u.call = w.call
      /\ u.loan = w.loan /\ u.msg = w.msg
      /\ u.service[c].state = w.service[c].state /\ u.service[c].refs = w.service[c].refs - 1
      /\ u.service[c].calls = w.service[c].calls /\ u.service[c].stops = w.service[c].stops
      /\ \A d \in Cores : d # c => u.service[d] = w.service[d]
  BY LessWorld
<1>2. v = WithState(u, c, s)  BY DEF Gone1
<1> HIDE DEF u
<1>3. /\ v \in Worlds /\ v.shared = u.shared /\ v.control = u.control /\ v.call = u.call
      /\ v.loan = u.loan /\ v.msg = u.msg
      /\ v.service[c].state = s /\ v.service[c].refs = u.service[c].refs
      /\ v.service[c].calls = u.service[c].calls /\ v.service[c].stops = u.service[c].stops
      /\ \A d \in Cores : d # c => v.service[d] = u.service[d]
  BY ONLY <1>1, <1>2, c \in Cores, s \in States, StateWorld
<1> QED BY <1>1, <1>3
LEMMA ReleaseIs ==
    ASSUME NEW w, NEW c, NEW at
    PROVE  Release(w, c, at) =
              IF w.service[c].refs # 1 THEN Less(w, c)
              ELSE IF w.shared.kind # "tracked" THEN Gone1(w, c, "dead")
              ELSE ServiceDeleted(Gone1(w, c, IF w.service[c].state # "freeing" THEN "dead"
                                              ELSE IF at # c THEN "lost" ELSE "freeing"), at)
<1>1. CASE w.service[c].refs # 1  BY <1>1 DEF Release, Less
<1>2. CASE w.service[c].refs = 1 /\ w.shared.kind # "tracked"
  BY <1>2 DEF Release, Less, WithState, Gone1
<1>3. CASE w.service[c].refs = 1 /\ w.shared.kind = "tracked"
  <2> DEFINE s == CASE ~(w.service[c].state = "freeing") -> "dead"
                    [] w.service[c].state = "freeing" /\ at # c -> "lost"
                    [] OTHER -> "freeing"
  <2>0. Release(w, c, at) = ServiceDeleted(Gone1(w, c, s), at)
    BY <1>3 DEF Release, Less, WithState, Gone1
  <2>1. CASE w.service[c].state # "freeing"
    <3>1. s = "dead"  BY <2>1
    <3> HIDE DEF s
    <3> QED BY <1>3, <2>0, <2>1, <3>1
  <2>2. CASE w.service[c].state = "freeing" /\ at # c
    BY <1>3, <2>2 DEF Release, Less, WithState, Gone1
  <2>3. CASE w.service[c].state = "freeing" /\ at = c
    BY <1>3, <2>3 DEF Release, Less, WithState, Gone1
  <2> QED BY <2>1, <2>2, <2>3
<1> QED BY <1>1, <1>2, <1>3
(* A reference to the instance of core c goes, on core at: a core that     *)
(* has nothing left to do answers, or the program fails.                   *)
LEMMA ReleaseSound ==
    ASSUME NEW w, NEW owes, NEW loose, NEW c \in Cores, NEW at \in Cores,
           Sound(w, owes, {c}, loose), at = c \/ Bare(w),
           NEW v, v = Release(w, c, at)
    PROVE  Released(w, v, c) /\ (Sound(v, owes, {}, loose) \/ CrashOK(v))
<1>0. /\ w \in Worlds /\ w.service[c] \in Instances /\ w.shared \in SharedStates
      /\ w.shared.crashed = "no"
  BY DEF Sound, Worlds
<1>1. CASE w.service[c].refs # 1
  <2>1. v = Less(w, c)  BY <1>1, ReleaseIs
  <2>2. v = [w EXCEPT !.service[c].refs = @ - 1]  BY <2>1 DEF Less
  <2>3. Sound(v, owes, {}, loose)
    BY ONLY <1>1, <2>2, c \in Cores, Sound(w, owes, {c}, loose), OneOfSeveral
  <2>4. v \in Worlds /\ v.control = w.control /\ v.call = w.call /\ v.service[c].state = w.service[c].state
    BY ONLY <1>0, <2>1, c \in Cores, LessWorld
  <2> QED BY ONLY <2>3, <2>4 DEF Released
<1>2. CASE w.service[c].refs = 1
  <2>1. /\ w.service[c].state \in {"failed", "stopped", "freeing"}
        /\ w.service[c].state = "freeing" => c \notin owes
    BY <1>2, LastReleased
  <2>2. Phase(w, c)  BY DEF Sound, CoreSound
  <2>3. ASSUME NEW s, s \in States, NEW u, u = Gone1(w, c, s)
        PROVE  /\ u \in Worlds /\ u.shared = w.shared /\ u.control = w.control /\ u.call = w.call
               /\ u.loan = w.loan /\ u.msg = w.msg
               /\ u.service[c].state = s /\ u.service[c].refs = 0
               /\ u.service[c].calls = w.service[c].calls /\ u.service[c].stops = w.service[c].stops
               /\ \A d \in Cores : d # c => u.service[d] = w.service[d]
    BY ONLY <1>0, <1>2, <2>3, c \in Cores, GoneWorld
  <2>4. {"dead", "lost", "freeing"} \subseteq States  BY DEF States
  <2>5. ASSUME NEW s, s \in {"dead", "lost"}, NEW u, u = Gone1(w, c, s),
               w.service[c].state = "freeing" => s = "lost" /\ w.shared.kind = "tracked" /\ Bare(w),
               s = "lost" => w.service[c].state = "freeing"
        PROVE  Sound(u, owes, {}, loose)
    <3>1. \A d \in Cores : d \in owes <=>
               d \in owes \/ (d = c /\ s = "dead" /\ w.service[c].state = "freeing")
      BY <2>5
    <3>2. s = "lost" => w.shared.kind = "tracked" /\ Bare(w) /\ w.service[c].state = "freeing"
      BY <2>5
    <3>3. /\ u \in Worlds /\ u.shared = w.shared /\ u.control = w.control /\ u.call = w.call
          /\ u.loan = w.loan /\ u.msg = w.msg
          /\ u.service[c].state = s /\ u.service[c].refs = 0
          /\ u.service[c].calls = w.service[c].calls /\ u.service[c].stops = w.service[c].stops
          /\ \A d \in Cores : d # c => u.service[d] = w.service[d]
      BY <2>3, <2>4, <2>5
    <3>4. GoneStep(w, u, c, s) /\ GoneDebts(w, c, s, owes, owes)
      BY ONLY <1>0, <2>5, <3>1, <3>2, <3>3 DEF GoneStep, GoneDebts
    <3> QED BY ONLY <1>2, <3>4, c \in Cores, Sound(w, owes, {c}, loose), GoneSound
  <2>6. CASE w.shared.kind # "tracked"
    <3>1. v = Gone1(w, c, "dead")  BY <1>2, <2>6, ReleaseIs
    <3>2. w.service[c].state # "freeing"  BY <2>2, <2>6 DEF Phase
    <3>3. Sound(v, owes, {}, loose)  BY <2>5, <3>1, <3>2
    <3>4. v \in Worlds /\ v.control = w.control /\ v.call = w.call /\ v.service[c].state = "dead"
      BY <2>3, <2>4, <3>1
    <3> QED BY ONLY <3>3, <3>4 DEF Released
  <2>7. CASE w.shared.kind = "tracked" /\ (w.service[c].state # "freeing" \/ at # c)
    <3> DEFINE s == IF w.service[c].state # "freeing" THEN "dead" ELSE "lost"
               u == Gone1(w, c, s)
    <3>1. v = ServiceDeleted(u, at)  BY <1>2, <2>7, ReleaseIs
    <3>2. s \in {"dead", "lost"} /\ (s = "lost" <=> w.service[c].state = "freeing")
      OBVIOUS
    <3> HIDE DEF s
    <3>3. w.service[c].state = "freeing" => Bare(w)  BY <2>7
    <3>4. Sound(u, owes, {}, loose)  BY <2>5, <2>7, <3>2, <3>3
    <3>5. /\ u.shared = w.shared /\ u.control = w.control /\ u.call = w.call
          /\ u.loan = w.loan /\ u.service[c].state = s
      BY <2>3, <2>4, <3>2
    <3> HIDE DEF u
    <3>6. \/ Bare(u)
          \/ at < u.shared.size /\ ~u.shared.freed[at] /\ u.service[at].state = "dead"
      <4>1. Bare(u) <=> Bare(w)  BY <3>5 DEF Bare
      <4>2. CASE Bare(w)  BY <4>1, <4>2
      <4>3. CASE ~Bare(w)
        <5>1. at = c /\ s = "dead" /\ w.service[c].state \in {"failed", "stopped"}
          BY <2>1, <3>2, <3>3, <4>3
        <5>2. w.service[c].state = "failed" /\ ~w.shared.freed[c] /\ c < w.shared.size
          BY <2>2, <2>7, <4>3, <5>1 DEF Phase
        <5> QED BY <3>5, <5>1, <5>2
      <4> QED BY <4>2, <4>3
    <3>7. u.shared.kind = "tracked"  BY <2>7, <3>5
    <3>8. Released(u, v, c) /\ (Sound(v, owes, {}, loose) \/ CrashOK(v))
      BY ONLY <3>1, <3>4, <3>6, <3>7, c \in Cores, at \in Cores, DeletedSound
    <3> QED BY ONLY <3>2, <3>5, <3>8 DEF Released
  <2>8. CASE w.shared.kind = "tracked" /\ w.service[c].state = "freeing" /\ at = c
    <3> DEFINE u == Gone1(w, c, "freeing")
    <3>1. v = ServiceDeleted(u, c)  BY <1>2, <2>8, ReleaseIs
    <3>2. /\ u \in Worlds /\ u.shared = w.shared /\ u.control = w.control /\ u.call = w.call
          /\ u.loan = w.loan /\ u.msg = w.msg
          /\ u.service[c].state = "freeing" /\ u.service[c].refs = 0
          /\ u.service[c].calls = w.service[c].calls /\ u.service[c].stops = w.service[c].stops
          /\ \A d \in Cores : d # c => u.service[d] = w.service[d]
      BY <2>3, <2>4
    <3> HIDE DEF u
    <3>3. u.shared.size \in Int /\ c \in Int /\ u.shared.freed[c] \in BOOLEAN /\ c < w.shared.size
      <4>1. w.shared.size \in 0 .. Cardinality(Cores) /\ w.shared.freed[c] \in BOOLEAN
        BY <1>0 DEF SharedStates
      <4>2. c \in Nat /\ Cardinality(Cores) \in Nat  BY CoreFacts
      <4>3. c < w.shared.size  BY <2>2, <2>8 DEF Phase
      <4> QED BY <3>2, <4>1, <4>2, <4>3
    <3>4. CASE u.shared.freed[c]
      <4>1. v = Crash(u, "freed twice")  BY <3>1, <3>2, <3>3, <3>4, DeletedIs
      <4>2. /\ v \in Worlds /\ v.service = u.service /\ v.control = w.control /\ v.call = w.call
            /\ v.loan = w.loan
            /\ v.shared.kind = w.shared.kind /\ v.shared.size = w.shared.size
            /\ v.shared.slot = w.shared.slot /\ v.shared.crashed = "freed twice"
        <5> DEFINE why == "freed twice"
        <5>1. why \in Crashes /\ v = Crash(u, why)  BY <4>1 DEF Crashes
        <5> HIDE DEF why
        <5>2. /\ v \in Worlds /\ v.service = u.service /\ v.control = u.control /\ v.call = u.call
              /\ v.loan = u.loan /\ v.msg = u.msg
              /\ v.shared.kind = u.shared.kind /\ v.shared.size = u.shared.size
              /\ v.shared.slot = u.shared.slot /\ v.shared.crashed = why
          BY ONLY <3>2, <5>1, CrashWorld
        <5> QED BY <3>2, <5>2 DEF why
      <4>3. Settled(w)  BY <2>8, SoundSettled
      <4>4. StoppedRight(v)
        <5>1. StoppedRight(w)  BY <4>3 DEF Settled
        <5> SUFFICES ASSUME NEW d \in Cores
                     PROVE  /\ v.service[d].stops <= 1
                            /\ v.service[d].state \in {"dead", "lost"}
                                   => v.service[d].stops = 1 /\ v.service[d].refs = 0
                            /\ v.shared.slot[d] => v.service[d].state = "alive"
          BY DEF StoppedRight
        <5>2. v.shared.slot[d] = w.shared.slot[d] /\ v.service[d] = u.service[d]
          BY <4>2
        <5>3. /\ w.service[d].stops <= 1
              /\ w.service[d].state \in {"dead", "lost"}
                     => w.service[d].stops = 1 /\ w.service[d].refs = 0
              /\ w.shared.slot[d] => w.service[d].state = "alive"
          BY <5>1 DEF StoppedRight
        <5>4. CASE d # c  BY ONLY <3>2, <5>2, <5>3, <5>4, d \in Cores
        <5>5. CASE d = c  BY ONLY <2>8, <3>2, <5>2, <5>3, <5>5
        <5> QED BY ONLY <5>4, <5>5
      <4>5. Bare(w) /\ Bare(v)
        <5>1. Bare(w)  BY <2>2, <2>8, <3>2, <3>4 DEF Phase
        <5> QED BY <4>2, <5>1 DEF Bare
      <4>6. ASSUME AtRest(v) PROVE FALSE  BY <2>8, <4>2, <4>6, WorkedAt DEF AtRest
      <4> QED BY ONLY <2>8, <3>2, <4>2, <4>4, <4>5, <4>6 DEF Released, CrashOK, Settled, CrashesRight
    <3>5. CASE ~u.shared.freed[c]
      <4> DEFINE f == WithFreed(u, c)
                 t == WithState(f, c, "dead")
                 more == owes \union {c}
      <4>1. v = Answered(t, c, FALSE)
        <5>1. v = Answered([f EXCEPT !.service[c].state = IF u.service[c].refs = 0
                                                          THEN "dead" ELSE "stopped"], c, FALSE)
          BY <3>1, <3>2, <3>3, <3>5, DeletedIs
        <5> HIDE DEF f
        <5> QED BY <3>2, <5>1 DEF WithState
      <4>2. /\ f \in Worlds /\ f.service = u.service /\ f.control = w.control /\ f.call = w.call
            /\ f.loan = w.loan /\ f.msg = w.msg
            /\ f.shared.kind = w.shared.kind /\ f.shared.size = w.shared.size
            /\ f.shared.slot = w.shared.slot /\ f.shared.crashed = "no"
            /\ \A d \in Cores : d # c => f.shared.freed[d] = w.shared.freed[d]
        <5> HIDE DEF f
        <5>1. /\ f \in Worlds /\ f.service = u.service /\ f.control = u.control /\ f.call = u.call
              /\ f.loan = u.loan /\ f.msg = u.msg
              /\ f.shared.kind = u.shared.kind /\ f.shared.size = u.shared.size
              /\ f.shared.slot = u.shared.slot /\ f.shared.crashed = u.shared.crashed
              /\ f.shared.freed[c] /\ \A d \in Cores : d # c => f.shared.freed[d] = u.shared.freed[d]
          <6>1. f = WithFreed(u, c)  BY DEF f
          <6>2. u \in Worlds  BY <3>2
          <6> HIDE DEF u
          <6> QED BY ONLY <6>1, <6>2, c \in Cores, FreedWorld, SMTT(200)
        <5> QED BY ONLY <1>0, <3>2, <5>1
      <4> HIDE DEF f
      <4>3. /\ t \in Worlds /\ t.shared = f.shared /\ t.control = w.control /\ t.call = w.call
            /\ t.loan = w.loan /\ t.msg = w.msg
            /\ t.service[c].state = "dead" /\ t.service[c].refs = 0
            /\ t.service[c].calls = w.service[c].calls /\ t.service[c].stops = w.service[c].stops
            /\ \A d \in Cores : d # c => t.service[d] = w.service[d]
        <5>1. /\ t \in Worlds /\ t.shared = f.shared /\ t.control = f.control /\ t.call = f.call
              /\ t.loan = f.loan /\ t.msg = f.msg
              /\ t.service[c].state = "dead" /\ t.service[c].refs = f.service[c].refs
              /\ t.service[c].calls = f.service[c].calls /\ t.service[c].stops = f.service[c].stops
              /\ \A d \in Cores : d # c => t.service[d] = f.service[d]
          <6> DEFINE s == "dead"
          <6>1. s \in States /\ t = WithState(f, c, s)  BY <2>4
          <6> HIDE DEF t, s
          <6>2. /\ t \in Worlds /\ t.shared = f.shared /\ t.control = f.control /\ t.call = f.call
                /\ t.loan = f.loan /\ t.msg = f.msg
                /\ t.service[c].state = s /\ t.service[c].refs = f.service[c].refs
                /\ t.service[c].calls = f.service[c].calls /\ t.service[c].stops = f.service[c].stops
                /\ \A d \in Cores : d # c => t.service[d] = f.service[d]
            BY ONLY <4>2, <6>1, c \in Cores, StateWorld, SMTT(200)
          <6> QED BY <6>2 DEF s
        <5> HIDE DEF t
        <5> QED BY ONLY <3>2, <4>2, <5>1
      <4> HIDE DEF t
      <4>4. \A d \in Cores : d \in more <=>
                d \in owes \/ (d = c /\ "dead" = "dead" /\ w.service[c].state = "freeing")
        BY <2>8
      <4>5. c \in more /\ \A d \in Cores : d \in owes <=> d \in more /\ d # c
        BY <2>1, <2>8
      <4> HIDE DEF more
      <4>6. /\ t.shared.crashed = "no" /\ t.shared.kind = w.shared.kind
            /\ t.shared.size = w.shared.size /\ t.shared.slot = w.shared.slot
            /\ \A d \in Cores : d # c => t.shared.freed[d] = w.shared.freed[d]
        BY <4>2, <4>3
      <4>7. Sound(t, more, {}, loose)
        <5>1. GoneStep(w, t, c, "dead") /\ GoneDebts(w, c, "dead", owes, more)
          BY ONLY <4>3, <4>4, <4>6 DEF GoneStep, GoneDebts
        <5> QED BY ONLY <1>2, <5>1, c \in Cores, Sound(w, owes, {c}, loose), GoneSound
      <4>8. Sound(v, owes, {}, loose)
        <5>1. t.service[c].state = "dead"  BY <4>3
        <5> QED BY ONLY <4>1, <4>5, <4>7, <5>1, c \in Cores, AnsweredSound
      <4>9. v \in Worlds /\ v.service = t.service /\ v.call = w.call /\ v.control.op = w.control.op
        <5> DEFINE no == FALSE
        <5>1. v = Answered(t, c, no) /\ no \in BOOLEAN /\ t \in Worlds
          BY <4>1, <4>3
        <5> HIDE DEF no
        <5>2. v \in Worlds /\ v.service = t.service /\ v.call = t.call /\ v.control.op = t.control.op
          BY ONLY <5>1, c \in Cores, AnsweredWorld
        <5> QED BY <4>3, <5>2
      <4> QED BY ONLY <4>3, <4>8, <4>9 DEF Released
    <3> QED BY <3>4, <3>5
  <2> QED BY <2>6, <2>7, <2>8
<1> QED BY <1>1, <1>2
-----------------------------------------------------------------------------
(* A core that owes its answer has no request for it on the way.           *)
LEMMA OwesIt ==
    ASSUME NEW w, NEW owes, NEW spare, NEW loose, NEW c \in Cores, Sound(w, owes, spare, loose),
           c \in owes
    PROVE  /\ c \in w.control.left
           /\ w.service[c].state \notin {"stopping", "freeing", "lost"}
           /\ In(w, <<0, c>>, CreateAsk) = 0 /\ In(w, <<0, c>>, StopAsk) = 0
           /\ In(w, <<c, 0>>, Fine) = 0 /\ In(w, <<c, 0>>, Broken) = 0
<1> DEFINE i == Indicator(w.service[c].state \in {"stopping", "freeing", "lost"})
<1>0. w \in Worlds  BY DEF Sound
<1>1. Tokens(w, c) + Indicator(c \in owes) = Indicator(c \in w.control.left)
  BY DEF Sound, CoreSound, Turn
<1>2. /\ In(w, <<0, c>>, CreateAsk) \in Nat /\ In(w, <<0, c>>, StopAsk) \in Nat
      /\ In(w, <<c, 0>>, Fine) \in Nat /\ In(w, <<c, 0>>, Broken) \in Nat
  BY <1>0, CoreNumbers
<1>3. Tokens(w, c) = In(w, <<0, c>>, CreateAsk) + In(w, <<0, c>>, StopAsk) + i
                        + In(w, <<c, 0>>, Fine) + In(w, <<c, 0>>, Broken)
  BY DEF Tokens
<1>4. i \in Nat /\ Indicator(c \in owes) = 1  BY DEF Indicator
<1>5. Indicator(c \in w.control.left) \in {0, 1}  BY DEF Indicator
<1>a. i = 0 /\ In(w, <<0, c>>, CreateAsk) = 0 /\ In(w, <<0, c>>, StopAsk) = 0
      /\ In(w, <<c, 0>>, Fine) = 0 /\ In(w, <<c, 0>>, Broken) = 0
      /\ Indicator(c \in w.control.left) = 1
  <2> DEFINE n1 == In(w, <<0, c>>, CreateAsk)
             n2 == In(w, <<0, c>>, StopAsk)
             n3 == In(w, <<c, 0>>, Fine)
             n4 == In(w, <<c, 0>>, Broken)
             l == Indicator(c \in w.control.left)
  <2>1. n1 \in Nat /\ n2 \in Nat /\ n3 \in Nat /\ n4 \in Nat /\ i \in Nat /\ l \in {0, 1}
    BY <1>2, <1>4, <1>5
  <2>2. n1 + n2 + i + n3 + n4 + 1 = l  BY <1>1, <1>3, <1>4
  <2> HIDE DEF n1, n2, n3, n4, i, l
  <2>3. i = 0 /\ n1 = 0 /\ n2 = 0 /\ n3 = 0 /\ n4 = 0 /\ l = 1  BY ONLY <2>1, <2>2
  <2> QED BY <2>3 DEF n1, n2, n3, n4, l
<1> HIDE DEF i
<1>6. /\ Indicator(c \in w.control.left) = 1 /\ i = 0
      /\ In(w, <<0, c>>, CreateAsk) = 0 /\ In(w, <<0, c>>, StopAsk) = 0
      /\ In(w, <<c, 0>>, Fine) = 0 /\ In(w, <<c, 0>>, Broken) = 0
  BY <1>a
<1> QED BY <1>6 DEF i, Indicator

(* The rest of the world when something was done on core c.                *)
Elsewhere(w, v, c) ==
    /\ v.control.op = w.control.op
    /\ \A d \in Cores : d # c => v.service[d] = w.service[d]

(* create_local_service(), of a core that has not answered.                *)
Made1(w, c) ==
    [w EXCEPT !.service[c] = [NoInstance EXCEPT !.state = "alive", !.refs = 1],
              !.shared.slot[c] = TRUE, !.shared.freed[c] = (w.shared.kind # "tracked")]

LEMMA MadeWorld ==
    ASSUME NEW w \in Worlds, NEW c \in Cores, NEW v, v = Made1(w, c)
    PROVE  /\ v \in Worlds /\ v.control = w.control /\ v.call = w.call
           /\ v.loan = w.loan /\ v.msg = w.msg
           /\ v.shared.kind = w.shared.kind /\ v.shared.size = w.shared.size
           /\ v.shared.crashed = w.shared.crashed
           /\ v.service[c].state = "alive" /\ v.service[c].stops = 0 /\ v.service[c].refs = 1
           /\ v.service[c].calls = {}
           /\ v.shared.slot[c] /\ (v.shared.freed[c] <=> w.shared.kind # "tracked")
           /\ \A d \in Cores : d # c => /\ v.service[d] = w.service[d]
                                        /\ v.shared.slot[d] = w.shared.slot[d]
                                        /\ v.shared.freed[d] = w.shared.freed[d]
<1> DEFINE x == [NoInstance EXCEPT !.state = "alive", !.refs = 1]
           f == [w.shared.freed EXCEPT ![c] = (w.shared.kind # "tracked")]
           l == [w.shared.slot EXCEPT ![c] = TRUE]
           s == [w.shared EXCEPT !.slot = l, !.freed = f]
           y == [w.service EXCEPT ![c] = x]
<1>1. /\ w.shared \in SharedStates /\ w.service \in [Cores -> Instances]
      /\ w.shared.freed \in [Cores -> BOOLEAN] /\ w.shared.slot \in [Cores -> BOOLEAN]
  BY DEF Worlds, SharedStates
<1>2. x \in Instances /\ x.state = "alive" /\ x.stops = 0 /\ x.refs = 1 /\ x.calls = {}
  <2>1. NoInstance \in Instances /\ NoInstance.stops = 0 /\ NoInstance.calls = {}
    BY DEF Instances, States, NoInstance
  <2>2. "alive" \in States  BY DEF States
  <2>3. x.state = "alive" /\ x.stops = 0 /\ x.refs = 1 /\ x.calls = {}
    BY <2>1 DEF Instances
  <2>4. x \in Instances
    <3> DEFINE a == [NoInstance EXCEPT !.state = "alive"]
    <3>1. a \in Instances  BY <2>1, <2>2 DEF Instances
    <3>2. x = [a EXCEPT !.refs = 1]  BY <2>1 DEF Instances
    <3> HIDE DEF a, x
    <3> QED BY <3>1, <3>2 DEF Instances
  <2> QED BY <2>3, <2>4
<1>3. v = [w EXCEPT !.service = y, !.shared = s]
  BY <1>1 DEF Made1, Worlds, SharedStates
<1> HIDE DEF x
<1>4. /\ f \in [Cores -> BOOLEAN] /\ l \in [Cores -> BOOLEAN] /\ y \in [Cores -> Instances]
      /\ l[c] /\ (f[c] <=> w.shared.kind # "tracked") /\ y[c] = x
      /\ \A d \in Cores : d # c => /\ y[d] = w.service[d] /\ l[d] = w.shared.slot[d]
                                   /\ f[d] = w.shared.freed[d]
  BY <1>1, <1>2
<1> HIDE DEF f, l, y
<1>5. /\ s \in SharedStates /\ s.freed = f /\ s.slot = l /\ s.kind = w.shared.kind
      /\ s.size = w.shared.size /\ s.crashed = w.shared.crashed
  BY <1>1, <1>4 DEF SharedStates
<1> HIDE DEF s
<1>6. /\ v \in Worlds /\ v.service = y /\ v.control = w.control /\ v.call = w.call
      /\ v.loan = w.loan /\ v.msg = w.msg /\ v.shared = s
  BY <1>3, <1>4, <1>5 DEF Worlds
<1> QED BY ONLY <1>2, <1>4, <1>5, <1>6

LEMMA CreateSound ==
    ASSUME NEW w, NEW owes, Sound(w, owes, {}, {}), NEW c \in Cores, c \in owes,
           w.control.op = "start", w.service[c].state = "none", c < w.shared.size,
           NEW rest, \A d \in Cores : d \in rest <=> d \in owes /\ d # c,
           NEW v, v \in Create(w, c)
    PROVE  Sound(v, rest, {}, {}) /\ Elsewhere(w, v, c)
<1>0. w \in Worlds /\ w.control \in Controls  BY DEF Sound, Worlds
<1> DEFINE u == Made1(w, c)
<1>1. CASE v = Answered(w, c, TRUE)
  <2>1. Sound(v, rest, {}, {})  BY <1>1, AnsweredSound
  <2> DEFINE yes == TRUE
  <2>2. v = Answered(w, c, yes) /\ yes \in BOOLEAN /\ w \in Worlds  BY <1>0, <1>1
  <2> HIDE DEF yes
  <2>3. v.service = w.service /\ v.control.op = w.control.op
    BY ONLY <2>2, c \in Cores, AnsweredWorld
  <2> QED BY <2>1, <2>3 DEF Elsewhere
<1>2. CASE v = Answered(u, c, FALSE)
  <2> HIDE DEF u
  <2>1. /\ u \in Worlds /\ u.control = w.control /\ u.call = w.call
        /\ u.loan = w.loan /\ u.msg = w.msg
        /\ u.shared.kind = w.shared.kind /\ u.shared.size = w.shared.size
        /\ u.shared.crashed = w.shared.crashed
        /\ u.service[c].state = "alive" /\ u.service[c].stops = 0 /\ u.service[c].refs = 1
        /\ u.service[c].calls = {}
        /\ u.shared.slot[c] /\ (u.shared.freed[c] <=> w.shared.kind # "tracked")
        /\ \A d \in Cores : d # c => /\ u.service[d] = w.service[d]
                                     /\ u.shared.slot[d] = w.shared.slot[d]
                                     /\ u.shared.freed[d] = w.shared.freed[d]
    <3>1. u = Made1(w, c)  BY DEF u
    <3> QED BY ONLY <1>0, <3>1, c \in Cores, MadeWorld
  <2>2. /\ \A p, r : In(u, p, r) = In(w, p, r)
        /\ Bare(u) <=> Bare(w)
        /\ \A d : Lent(u, d) = Lent(w, d)
    BY ONLY <2>1, SameMessages
  <2>3. RefsExact(w, c, {}) /\ Phase(w, c) /\ Turn(w, c, owes) /\ w.shared.crashed = "no"
    BY DEF Sound, CoreSound
  <2>4. /\ In(w, <<0, c>>, CreateAsk) = 0 /\ In(w, <<0, c>>, StopAsk) = 0  BY OwesIt
  <2>5. w.service[c].calls = {} /\ w.service[c].refs = 0  BY <2>3 DEF Phase
  <2>6. RefsExact(u, c, {})
    <3>1. Own(w, c) \in Nat /\ Inside(w, c) \in Nat /\ Lent(w, c) \in Nat
      BY <1>0, CoreNumbers
    <3>2. 0 = Own(w, c) + Inside(w, c) + Lent(w, c)
      <4>1. Indicator(c \in {}) = 0  BY DEF Indicator
      <4>2. w.service[c].refs = Own(w, c) + Inside(w, c) + Lent(w, c) + Indicator(c \in {})
        BY <2>3 DEF RefsExact
      <4> QED BY ONLY <2>5, <3>1, <4>1, <4>2
    <3>3. Lent(w, c) = 0  BY ONLY <3>1, <3>2
    <3>4. Own(u, c) = 1 /\ Inside(u, c) = 0
      BY <2>1, FS_EmptySet DEF Own, Inside, Indicator
    <3> QED BY <2>1, <2>2, <3>3, <3>4 DEF RefsExact, Indicator
  <2>7. Phase(u, c)  BY ONLY <2>1, c < w.shared.size DEF Phase
  <2>8. Turn(u, c, owes)
    <3>1. Tokens(u, c) = Tokens(w, c)
      <4>1. u.service[c].state = "alive" /\ w.service[c].state = "none"  BY <2>1
      <4> QED BY ONLY <2>2, <4>1 DEF Tokens, Indicator
    <3>2. w.control.op = "start"  OBVIOUS
    <3> QED BY ONLY <2>1, <2>2, <2>3, <2>4, <3>1, <3>2 DEF Turn
  <2>9. CallsSound(u, {})
    <3>1. CallsSound(w, {})  BY DEF Sound, CallsSound
    <3>2. \A d \in Cores : u.service[d].calls = w.service[d].calls  BY <2>1, <2>5
    <3> QED BY ONLY <2>1, <3>1, <3>2, CallsKept
  <2>10. AllBut(w, u, c) /\ SameDebts(owes, owes, c) /\ SameDebts({}, {}, c)
    BY ONLY <2>1, <2>3 DEF AllBut, SameDebts
  <2>11. Sound(u, owes, {}, {})
    BY <2>6, <2>7, <2>8, <2>9, <2>10, OneCore DEF CoreSound
  <2>12. u.control.op = "start"  BY <2>1
  <2>13. Sound(v, rest, {}, {})  BY <1>2, <2>11, <2>12, AnsweredSound
  <2> DEFINE no == FALSE
  <2>14. v = Answered(u, c, no) /\ no \in BOOLEAN /\ u \in Worlds  BY <1>2, <2>1
  <2> HIDE DEF no
  <2>15. v.service = u.service /\ v.control.op = u.control.op
    BY ONLY <2>14, c \in Cores, AnsweredWorld
  <2> QED BY <2>1, <2>13, <2>15 DEF Elsewhere
<1>3. Create(w, c) = {Answered(w, c, TRUE), Answered(u, c, FALSE)}
  BY DEF Create, Made1
<1> QED BY <1>1, <1>2, <1>3
(* stop() of sharded on a core that has not answered.                      *)
Emptied(w, c) ==
    [w EXCEPT !.shared.slot[c] = FALSE,
              !.service[c].state = "stopping", !.service[c].stops = @ + 1]

LEMMA EmptiedWorld ==
    ASSUME NEW w \in Worlds, NEW c \in Cores, NEW v, v = Emptied(w, c)
    PROVE  /\ v \in Worlds /\ v.control = w.control /\ v.call = w.call
           /\ v.loan = w.loan /\ v.msg = w.msg
           /\ v.shared.kind = w.shared.kind /\ v.shared.size = w.shared.size
           /\ v.shared.crashed = w.shared.crashed /\ v.shared.freed = w.shared.freed
           /\ v.service[c].state = "stopping" /\ v.service[c].stops = w.service[c].stops + 1
           /\ v.service[c].refs = w.service[c].refs /\ v.service[c].calls = w.service[c].calls
           /\ ~v.shared.slot[c]
           /\ \A d \in Cores : d # c => /\ v.service[d] = w.service[d]
                                        /\ v.shared.slot[d] = w.shared.slot[d]
<1> DEFINE x == [w.service[c] EXCEPT !.state = "stopping", !.stops = @ + 1]
           l == [w.shared.slot EXCEPT ![c] = FALSE]
           s == [w.shared EXCEPT !.slot = l]
           y == [w.service EXCEPT ![c] = x]
<1>1. /\ w.shared \in SharedStates /\ w.service \in [Cores -> Instances]
      /\ w.shared.slot \in [Cores -> BOOLEAN] /\ w.service[c] \in Instances
  BY DEF Worlds, SharedStates
<1>2. /\ x \in Instances /\ x.state = "stopping" /\ x.stops = w.service[c].stops + 1
      /\ x.refs = w.service[c].refs /\ x.calls = w.service[c].calls
  <2>1. /\ x.state = "stopping" /\ x.stops = w.service[c].stops + 1
        /\ x.refs = w.service[c].refs /\ x.calls = w.service[c].calls
    BY <1>1 DEF Instances
  <2>2. x \in Instances
    <3> DEFINE a == [w.service[c] EXCEPT !.state = "stopping"]
    <3>1. a \in Instances /\ a.stops = w.service[c].stops
      BY <1>1 DEF Instances, States
    <3>2. x = [a EXCEPT !.stops = @ + 1]  BY <1>1 DEF Instances
    <3> HIDE DEF a, x
    <3> QED BY <3>1, <3>2 DEF Instances
  <2> QED BY <2>1, <2>2
<1>3. v = [w EXCEPT !.service = y, !.shared = s]
  BY <1>1, ZenonT(30) DEF Emptied, Worlds, SharedStates, Instances
<1> HIDE DEF x
<1>4. /\ l \in [Cores -> BOOLEAN] /\ y \in [Cores -> Instances]
      /\ ~l[c] /\ y[c] = x
      /\ \A d \in Cores : d # c => y[d] = w.service[d] /\ l[d] = w.shared.slot[d]
  BY <1>1, <1>2
<1> HIDE DEF l, y
<1>5. /\ s \in SharedStates /\ s.freed = w.shared.freed /\ s.slot = l /\ s.kind = w.shared.kind
      /\ s.size = w.shared.size /\ s.crashed = w.shared.crashed
  BY <1>1, <1>4 DEF SharedStates
<1> HIDE DEF s
<1>6. /\ v \in Worlds /\ v.service = y /\ v.control = w.control /\ v.call = w.call
      /\ v.loan = w.loan /\ v.msg = w.msg /\ v.shared = s
  BY <1>3, <1>4, <1>5 DEF Worlds
<1> QED BY ONLY <1>2, <1>4, <1>5, <1>6

LEMMA StopSound ==
    ASSUME NEW w, NEW owes, Sound(w, owes, {}, {}), NEW c \in Cores, c \in owes,
           w.control.op = "stop", w.service[c].state = "failed" => w.control.failed,
           NEW rest, \A d \in Cores : d \in rest <=> d \in owes /\ d # c,
           NEW v, v \in Stop(w, c)
    PROVE  Sound(v, rest, {}, {}) /\ Elsewhere(w, v, c)
<1>0. w \in Worlds /\ w.shared \in SharedStates /\ w.shared.slot[c] \in BOOLEAN
  BY DEF Sound, Worlds, SharedStates
<1>1. RefsExact(w, c, {}) /\ Phase(w, c) /\ Turn(w, c, owes) /\ w.shared.crashed = "no"
  BY DEF Sound, CoreSound
<1>2. CASE ~w.shared.slot[c]
  <2>1. v = Answered(w, c, FALSE)  BY <1>2 DEF Stop
  <2>2. w.service[c].state # "alive"  BY <1>1, <1>2 DEF Phase
  <2>3. Sound(v, rest, {}, {})  BY <2>1, <2>2, AnsweredSound
  <2> DEFINE no == FALSE
  <2>4. v = Answered(w, c, no) /\ no \in BOOLEAN /\ w \in Worlds  BY <1>0, <2>1
  <2> HIDE DEF no
  <2>5. v.service = w.service /\ v.control.op = w.control.op
    BY ONLY <2>4, c \in Cores, AnsweredWorld
  <2> QED BY <2>3, <2>5 DEF Elsewhere
<1>3. CASE w.shared.slot[c]
  <2>1. v = Emptied(w, c)  BY <1>3 DEF Stop, Emptied
  <2>2. /\ v \in Worlds /\ v.control = w.control /\ v.call = w.call
        /\ v.loan = w.loan /\ v.msg = w.msg
        /\ v.shared.kind = w.shared.kind /\ v.shared.size = w.shared.size
        /\ v.shared.crashed = w.shared.crashed /\ v.shared.freed = w.shared.freed
        /\ v.service[c].state = "stopping" /\ v.service[c].stops = w.service[c].stops + 1
        /\ v.service[c].refs = w.service[c].refs /\ v.service[c].calls = w.service[c].calls
        /\ ~v.shared.slot[c]
        /\ \A d \in Cores : d # c => /\ v.service[d] = w.service[d]
                                     /\ v.shared.slot[d] = w.shared.slot[d]
    BY ONLY <1>0, <2>1, c \in Cores, EmptiedWorld
  <2>3. /\ \A p, r : In(v, p, r) = In(w, p, r)
        /\ Bare(v) <=> Bare(w)
        /\ \A d : Lent(v, d) = Lent(w, d)
    BY ONLY <2>2, SameMessages
  <2>4. /\ w.service[c].state = "alive" /\ w.service[c].stops = 0 /\ c < w.shared.size
    BY <1>1, <1>3 DEF Phase
  <2>5. RefsExact(v, c, {})
    <3>1. Own(v, c) = Own(w, c) /\ Inside(v, c) = Inside(w, c)
      BY ONLY <2>2, <2>4 DEF Own, Inside, Indicator
    <3> QED BY ONLY <1>1, <2>2, <2>3, <3>1 DEF RefsExact
  <2>6. Phase(v, c)  BY ONLY <1>1, <2>2, <2>3, <2>4 DEF Phase
  <2>7. Turn(v, c, rest)
    <3> DEFINE a == In(w, <<0, c>>, CreateAsk) + In(w, <<0, c>>, StopAsk)
               b == In(w, <<c, 0>>, Fine)
               e == In(w, <<c, 0>>, Broken)
    <3>1. a \in Nat /\ b \in Nat /\ e \in Nat  BY <1>0, CoreNumbers
    <3>2. Tokens(w, c) = a + 0 + b + e  BY ONLY <2>4 DEF Tokens, Indicator
    <3>3. Tokens(v, c) = a + 1 + b + e  BY ONLY <2>2, <2>3 DEF Tokens, Indicator
    <3>4. Indicator(c \in owes) = 1 /\ Indicator(c \in rest) = 0  BY DEF Indicator
    <3> HIDE DEF a, b, e
    <3>5. Tokens(v, c) + Indicator(c \in rest) = Tokens(w, c) + Indicator(c \in owes)
      BY ONLY <3>1, <3>2, <3>3, <3>4
    <3>6. In(w, <<0, c>>, CreateAsk) = 0 /\ w.control.op = "stop"  BY OwesIt
    <3> QED BY ONLY <1>1, <2>2, <2>3, <3>5, <3>6 DEF Turn
  <2>8. CallsSound(v, {})
    <3>1. CallsSound(w, {})  BY DEF Sound, CallsSound
    <3>2. \A d \in Cores : v.service[d].calls = w.service[d].calls  BY <2>2
    <3> QED BY ONLY <2>2, <3>1, <3>2, CallsKept
  <2>9. AllBut(w, v, c) /\ SameDebts(owes, rest, c) /\ SameDebts({}, {}, c)
    BY <1>1, <2>2 DEF AllBut, SameDebts
  <2>10. Sound(v, rest, {}, {})
    BY <2>5, <2>6, <2>7, <2>8, <2>9, OneCore DEF CoreSound
  <2> QED BY <2>2, <2>10 DEF Elsewhere
<1> QED BY <1>0, <1>2, <1>3

(* A call of k on core c: it returns, or stays inside, or fails.           *)
Entered(w, c, k) ==
    [w EXCEPT !.call[k].state = "inside", !.service[c].calls = @ \union {k},
              !.service[c].refs = IF w.shared.kind = "tracked" THEN @ + 1 ELSE @]

LEMMA EnteredWorld ==
    ASSUME NEW w \in Worlds, NEW c \in Cores, NEW k \in Callers, NEW v, v = Entered(w, c, k)
    PROVE  /\ v \in Worlds /\ v.control = w.control /\ v.loan = w.loan /\ v.msg = w.msg
           /\ v.shared = w.shared
           /\ v.service[c].state = w.service[c].state /\ v.service[c].stops = w.service[c].stops
           /\ v.service[c].refs = (IF w.shared.kind = "tracked" THEN w.service[c].refs + 1
                                   ELSE w.service[c].refs)
           /\ v.service[c].calls = w.service[c].calls \union {k}
           /\ v.call[k].state = "inside" /\ v.call[k].from = w.call[k].from
           /\ v.call[k].to = w.call[k].to
           /\ \A j \in Callers : j # k => v.call[j] = w.call[j]
           /\ \A d \in Cores : d # c => v.service[d] = w.service[d]
<1> DEFINE n == IF w.shared.kind = "tracked" THEN w.service[c].refs + 1 ELSE w.service[c].refs
           x == [w.service[c] EXCEPT !.calls = @ \union {k}, !.refs = n]
           z == [w.call[k] EXCEPT !.state = "inside"]
           y == [w.service EXCEPT ![c] = x]
           g == [w.call EXCEPT ![k] = z]
<1>1. /\ w.service \in [Cores -> Instances] /\ w.service[c] \in Instances
      /\ w.call \in [Callers -> CallStates] /\ w.call[k] \in CallStates
  BY DEF Worlds
<1>2. v = [w EXCEPT !.call = g, !.service = y]
  BY ZenonT(60), <1>1 DEF Entered, Worlds, Instances, CallStates
<1>3. n \in Int  BY <1>1 DEF Instances
<1> HIDE DEF n
<1>4. /\ x \in Instances /\ x.state = w.service[c].state /\ x.stops = w.service[c].stops
      /\ x.refs = n /\ x.calls = w.service[c].calls \union {k}
  BY <1>1, <1>3 DEF Instances
<1>5. z \in CallStates /\ z.state = "inside" /\ z.from = w.call[k].from /\ z.to = w.call[k].to
  BY <1>1 DEF CallStates
<1> HIDE DEF x, z
<1>6. /\ y \in [Cores -> Instances] /\ g \in [Callers -> CallStates] /\ y[c] = x /\ g[k] = z
      /\ \A j \in Callers : j # k => g[j] = w.call[j]
      /\ \A d \in Cores : d # c => y[d] = w.service[d]
  BY <1>1, <1>4, <1>5
<1> HIDE DEF y, g
<1>7. /\ v \in Worlds /\ v.service = y /\ v.control = w.control /\ v.call = g
      /\ v.loan = w.loan /\ v.msg = w.msg /\ v.shared = w.shared
  BY <1>2, <1>6 DEF Worlds
<1> QED BY ONLY <1>4, <1>5, <1>6, <1>7 DEF n
LEMMA InvokeSound ==
    ASSUME NEW w, NEW owes, NEW c \in Cores, NEW k \in Callers, Sound(w, owes, {}, {k}),
           w.call[k].to = c, NEW v, v \in Invoke(w, c, k)
    PROVE  Sound(v, owes, {}, {}) \/ CrashOK(v)
<1>0. /\ w \in Worlds /\ w.shared \in SharedStates /\ w.shared.slot[c] \in BOOLEAN
      /\ w.shared.crashed = "no"
  BY DEF Sound, Worlds, SharedStates
<1>1. w.shared.size \in Int /\ c \in Int
  <2>1. w.shared.size \in 0 .. Cardinality(Cores)  BY <1>0 DEF SharedStates
  <2> QED BY <2>1, CoreFacts
<1>2. CASE v = Crash(w, "range")
  <2> DEFINE why == "range"
  <2>1. why \in Crashes /\ v = Crash(w, why) /\ w \in Worlds
    BY <1>0, <1>2 DEF Crashes
  <2> HIDE DEF why
  <2>2. /\ v.service = w.service /\ v.control = w.control /\ v.loan = w.loan
        /\ v.shared.kind = w.shared.kind /\ v.shared.size = w.shared.size
        /\ v.shared.slot = w.shared.slot /\ v.shared.crashed = why
    BY ONLY <2>1, CrashWorld
  <2>3. v.shared.crashed = "range"  BY <2>2 DEF why
  <2>4. Settled(w)  BY SoundSettled
  <2>5. Settled(v)  BY ONLY <2>2, <2>3, <2>4, SettledKept
  <2> QED BY <2>3, <2>5 DEF CrashOK, CrashesRight
<1>3. CASE v = Returned(w, c, k)  BY <1>3, ReturnedSound
<1>4. CASE v = Entered(w, c, k) /\ w.shared.slot[c]
  <2>1. /\ v \in Worlds /\ v.control = w.control /\ v.loan = w.loan /\ v.msg = w.msg
        /\ v.shared = w.shared
        /\ v.service[c].state = w.service[c].state /\ v.service[c].stops = w.service[c].stops
        /\ v.service[c].refs = (IF w.shared.kind = "tracked" THEN w.service[c].refs + 1
                                ELSE w.service[c].refs)
        /\ v.service[c].calls = w.service[c].calls \union {k}
        /\ v.call[k].state = "inside" /\ v.call[k].from = w.call[k].from
        /\ v.call[k].to = w.call[k].to
        /\ \A j \in Callers : j # k => v.call[j] = w.call[j]
        /\ \A d \in Cores : d # c => v.service[d] = w.service[d]
    BY ONLY <1>0, <1>4, c \in Cores, k \in Callers, EnteredWorld
  <2>2. /\ \A p, r : In(v, p, r) = In(w, p, r)
        /\ Bare(v) <=> Bare(w)
        /\ \A d : Lent(v, d) = Lent(w, d)
    BY ONLY <2>1, SameMessages
  <2>3. RefsExact(w, c, {}) /\ Phase(w, c) /\ Turn(w, c, owes)
    BY DEF Sound, CoreSound
  <2>4. w.service[c].state = "alive"  BY <1>4, <2>3 DEF Phase
  <2>5. CallSound(w, k, {k}) /\ \A d \in Cores : k \notin w.service[d].calls
    BY DEF Sound, CallSound
  <2>6. RefsExact(v, c, {})
    <3>1. /\ Cardinality(v.service[c].calls) = Cardinality(w.service[c].calls) + 1
          /\ Cardinality(w.service[c].calls) \in Nat
      <4>1. IsFiniteSet(w.service[c].calls) /\ Cardinality(w.service[c].calls) \in Nat
        BY <1>0, CoreNumbers
      <4>2. v.service[c].calls = w.service[c].calls \union {k} /\ k \notin w.service[c].calls
        BY <2>1, <2>5
      <4> DEFINE S == w.service[c].calls
      <4>3. IsFiniteSet(S) /\ k \notin S  BY <4>1, <4>2
      <4> HIDE DEF S
      <4>4. Cardinality(S \union {k}) = Cardinality(S) + 1
        BY ONLY <4>3, FS_AddElement
      <4> QED BY <4>1, <4>2, <4>4 DEF S
    <3>2. Own(v, c) = Own(w, c)  BY ONLY <2>1 DEF Own
    <3>3. w.service[c].refs \in Int /\ Own(w, c) \in Nat /\ Lent(w, c) \in Nat
      BY <1>0, CoreNumbers DEF Instances
    <3>4. w.service[c].refs = Own(w, c) + Inside(w, c) + Lent(w, c) + Indicator(c \in {})
      BY <2>3 DEF RefsExact
    <3>5. Indicator(c \in {}) = 0  BY DEF Indicator
    <3>6. CASE w.shared.kind = "tracked"
      <4>1. /\ Inside(v, c) = Cardinality(v.service[c].calls)
            /\ Inside(w, c) = Cardinality(w.service[c].calls)
            /\ v.service[c].refs = w.service[c].refs + 1
        BY <2>1, <3>6 DEF Inside
      <4>2. v.service[c].refs = Own(v, c) + Inside(v, c) + Lent(v, c) + Indicator(c \in {})
        BY ONLY <2>2, <3>1, <3>2, <3>3, <3>4, <3>5, <4>1
      <4> QED BY <4>2 DEF RefsExact
    <3>7. CASE w.shared.kind # "tracked"
      <4>1. Inside(v, c) = Inside(w, c) /\ v.service[c].refs = w.service[c].refs
        BY <2>1, <3>7 DEF Inside
      <4> QED BY <2>2, <3>2, <3>4, <4>1 DEF RefsExact
    <3> QED BY <3>6, <3>7
  <2>7. Phase(v, c)  BY ONLY <2>1, <2>2, <2>3, <2>4 DEF Phase
  <2>8. Turn(v, c, owes)
    <3>1. Tokens(v, c) = Tokens(w, c)  BY ONLY <2>1, <2>2 DEF Tokens
    <3>2. v.control = w.control /\ v.service[c].state = w.service[c].state /\ Turn(w, c, owes)
      BY <2>1, <2>3
    <3> QED BY ONLY <2>2, <3>1, <3>2 DEF Turn
  <2>9. CallSound(v, k, {})
    <3>1. \A d \in Cores : k \in v.service[d].calls <=> d = c  BY <2>1, <2>5
    <3>2. \A p \in Pairs : In(v, p, CallAsk(k)) = 0 /\ In(v, p, ReturnAsk(k)) = 0
      BY <2>2, <2>5 DEF CallSound, Indicator
    <3>3. v.call[k].state = "inside" /\ v.call[k].to = c  BY <2>1
    <3> QED BY ONLY <3>1, <3>2, <3>3 DEF CallSound, Indicator
  <2>10. ASSUME NEW j \in Callers, j # k PROVE CallSound(v, j, {})
    <3>1. CallSound(w, j, {k}) /\ v.call[j] = w.call[j]  BY <2>1, <2>10 DEF Sound
    <3>2. \A d \in Cores : j \in v.service[d].calls <=> j \in w.service[d].calls
      BY <2>1, <2>10
    <3>3. j \in {} <=> j \in {k}  BY <2>10
    <3> QED BY ONLY <2>2, <3>1, <3>2, <3>3, CallKept
  <2>11. CallsSound(v, {})  BY <2>9, <2>10 DEF CallsSound
  <2>12. AllBut(w, v, c) /\ SameDebts(owes, owes, c) /\ SameDebts({}, {}, c)
    BY <1>0, <2>1 DEF AllBut, SameDebts
  <2>13. Sound(v, owes, {}, {})
    BY <2>6, <2>7, <2>8, <2>11, <2>12, OneCore DEF CoreSound
  <2> QED BY <2>13
<1>5. \/ v = Crash(w, "range") \/ v = Returned(w, c, k)
      \/ v = Entered(w, c, k) /\ w.shared.slot[c]
  <2>1. CASE c >= w.shared.size  BY <1>1, <2>1 DEF Invoke
  <2>2. CASE c < w.shared.size /\ ~w.shared.slot[c]
    <3>1. ~(c >= w.shared.size)  BY <1>1, <2>2
    <3> QED BY <2>2, <3>1 DEF Invoke
  <2>3. CASE c < w.shared.size /\ w.shared.slot[c]
    <3>1. ~(c >= w.shared.size)  BY <1>1, <2>3
    <3>2. Invoke(w, c, k) = {Returned(w, c, k), Entered(w, c, k)}
      BY <2>3, <3>1, Zenon DEF Invoke, Entered
    <3> QED BY <2>3, <3>2
  <2> QED BY <1>0, <1>1, <2>1, <2>2, <2>3
<1> QED BY <1>2, <1>3, <1>4, <1>5
-----------------------------------------------------------------------------
(* A request goes to the cores from 1 to n - 1, that owe an answer.        *)
Asked(w, n, r) ==
    [w EXCEPT !.msg = [p \in DOMAIN w.msg |->
                           IF p[1] = 0 /\ p[2] \in 1 .. n - 1 THEN Append(w.msg[p], r)
                           ELSE w.msg[p]]]

LEMMA AskedWorld ==
    ASSUME NEW w \in Worlds, NEW n, NEW r \in Requests, NEW v, v = Asked(w, n, r)
    PROVE  /\ v \in Worlds /\ v.shared = w.shared /\ v.service = w.service
           /\ v.control = w.control /\ v.call = w.call /\ v.loan = w.loan
           /\ \A q \in Pairs : q[1] # 0 \/ q[2] \notin 1 .. n - 1 => v.msg[q] = w.msg[q]
           /\ \A q \in Pairs : \A x :
                  In(v, q, x) = In(w, q, x) + Indicator(q[1] = 0 /\ q[2] \in 1 .. n - 1 /\ x = r)
<1> DEFINE m == [p \in DOMAIN w.msg |->
                     IF p[1] = 0 /\ p[2] \in 1 .. n - 1 THEN Append(w.msg[p], r) ELSE w.msg[p]]
<1>1. w.msg \in [Pairs -> Seq(Requests)] /\ DOMAIN w.msg = Pairs  BY DEF Worlds
<1>2. \A s \in Seq(Requests) : Append(s, r) \in Seq(Requests)  BY CountAppend
<1>3. \A q \in Pairs : m[q] = IF q[1] = 0 /\ q[2] \in 1 .. n - 1 THEN Append(w.msg[q], r)
                              ELSE w.msg[q]
  BY <1>1
<1>4. m \in [Pairs -> Seq(Requests)]  BY <1>1, <1>2, <1>3
<1>5. v = [w EXCEPT !.msg = m]  BY DEF Asked
<1> HIDE DEF m
<1>6. /\ v \in Worlds /\ v.shared = w.shared /\ v.service = w.service
      /\ v.control = w.control /\ v.call = w.call /\ v.loan = w.loan /\ v.msg = m
  BY <1>4, <1>5 DEF Worlds
<1>7. ASSUME NEW q \in Pairs, NEW x
      PROVE  In(v, q, x) = In(w, q, x) + Indicator(q[1] = 0 /\ q[2] \in 1 .. n - 1 /\ x = r)
  <2>0. In(w, q, x) \in Nat  BY InType
  <2>1. CASE q[1] = 0 /\ q[2] \in 1 .. n - 1
    <3>1. v.msg[q] = Append(w.msg[q], r) /\ w.msg[q] \in Seq(Requests)
      BY <1>1, <1>3, <1>6, <2>1
    <3>2. Count(Append(w.msg[q], r), {x}) = Count(w.msg[q], {x}) + Indicator(r \in {x})
      BY <3>1, CountAppend
    <3>3. Indicator(r \in {x}) = Indicator(q[1] = 0 /\ q[2] \in 1 .. n - 1 /\ x = r)
      BY <2>1 DEF Indicator
    <3> QED BY <3>1, <3>2, <3>3 DEF In
  <2>2. CASE q[1] # 0 \/ q[2] \notin 1 .. n - 1
    <3>1. v.msg[q] = w.msg[q]  BY <1>3, <1>6, <2>2
    <3>2. Indicator(q[1] = 0 /\ q[2] \in 1 .. n - 1 /\ x = r) = 0
      BY <2>2 DEF Indicator
    <3>3. In(v, q, x) = In(w, q, x)  BY <3>1 DEF In
    <3> QED BY ONLY <2>0, <3>2, <3>3
  <2> QED BY <2>1, <2>2
<1>8. \A q \in Pairs : q[1] # 0 \/ q[2] \notin 1 .. n - 1 => v.msg[q] = w.msg[q]
  BY <1>3, <1>6
<1> QED BY ONLY <1>6, <1>7, <1>8

LEMMA AskedSound ==
    ASSUME NEW w, NEW owes, Sound(w, owes, {}, {}), NEW n \in Nat,
           \A d \in Cores : d \in owes <=> d \in 1 .. n - 1,
           NEW r,
           \/ r = CreateAsk /\ w.control.op = "start" /\ \A d \in owes : w.service[d].state = "none"
           \/ r = StopAsk /\ w.control.op = "stop"
              /\ \A d \in owes : w.service[d].state \in {"none", "alive"},
           NEW v, v = Asked(w, n, r)
    PROVE  Sound(v, {}, {}, {})
<1>0. w \in Worlds /\ w.loan \in Loans /\ r \in Requests
  BY RequestFacts DEF Sound, Worlds
<1>1. /\ v \in Worlds /\ v.shared = w.shared /\ v.service = w.service
      /\ v.control = w.control /\ v.call = w.call /\ v.loan = w.loan
      /\ \A q \in Pairs : q[1] # 0 \/ q[2] \notin 1 .. n - 1 => v.msg[q] = w.msg[q]
      /\ \A q \in Pairs : \A x :
             In(v, q, x) = In(w, q, x) + Indicator(q[1] = 0 /\ q[2] \in 1 .. n - 1 /\ x = r)
  BY ONLY <1>0, v = Asked(w, n, r), AskedWorld
<1>2. /\ r \notin {Fine, Broken, ReleaseAsk}
      /\ \A k : r # CallAsk(k) /\ r # ReturnAsk(k)
      /\ r = CreateAsk => r # StopAsk
  BY RequestFacts
<1>3. ASSUME NEW q \in Pairs, NEW x, q[1] # 0 \/ q[2] \notin 1 .. n - 1 \/ x # r
      PROVE  In(v, q, x) = In(w, q, x)
  <2>1. In(w, q, x) \in Nat  BY <1>0, InType
  <2>2. Indicator(q[1] = 0 /\ q[2] \in 1 .. n - 1 /\ x = r) = 0
    BY <1>3 DEF Indicator
  <2>3. In(v, q, x) = In(w, q, x) + Indicator(q[1] = 0 /\ q[2] \in 1 .. n - 1 /\ x = r)
    BY <1>1
  <2> QED BY ONLY <2>1, <2>2, <2>3
<1>4. ASSUME NEW d \in Cores, d \in 1 .. n - 1
      PROVE  In(v, <<0, d>>, r) = In(w, <<0, d>>, r) + 1
  <2>1. <<0, d>> \in Pairs /\ <<0, d>>[1] = 0 /\ <<0, d>>[2] = d
    BY CoreFacts DEF Pairs
  <2>2. Indicator(<<0, d>>[1] = 0 /\ <<0, d>>[2] \in 1 .. n - 1 /\ r = r) = 1
    BY <1>4, <2>1 DEF Indicator
  <2> QED BY <1>1, <2>1, <2>2
<1>5. Bare(v) <=> Bare(w)  BY <1>1 DEF Bare
<1>6. Placed(v)
  <2>1. Placed(w)  BY DEF Sound
  <2> SUFFICES ASSUME NEW q \in Pairs
               PROVE  /\ q[1] = q[2] => v.msg[q] = <<>>
                      /\ q[1] # 0 => In(v, q, CreateAsk) = 0 /\ In(v, q, StopAsk) = 0
                      /\ q[2] # 0 => In(v, q, Fine) = 0 /\ In(v, q, Broken) = 0
                      /\ In(v, q, ReleaseAsk) > 0
                             => v.loan.state = "dropped" /\ q = <<v.loan.at, v.loan.of>>
    BY DEF Placed
  <2>2. /\ q[1] = q[2] => w.msg[q] = <<>>
        /\ q[1] # 0 => In(w, q, CreateAsk) = 0 /\ In(w, q, StopAsk) = 0
        /\ q[2] # 0 => In(w, q, Fine) = 0 /\ In(w, q, Broken) = 0
        /\ In(w, q, ReleaseAsk) > 0
               => w.loan.state = "dropped" /\ q = <<w.loan.at, w.loan.of>>
    BY <2>1 DEF Placed
  <2>3. /\ In(v, q, Fine) = In(w, q, Fine) /\ In(v, q, Broken) = In(w, q, Broken)
        /\ In(v, q, ReleaseAsk) = In(w, q, ReleaseAsk)
    BY <1>2, <1>3
  <2>4. q[1] # 0 => In(v, q, CreateAsk) = In(w, q, CreateAsk) /\ In(v, q, StopAsk) = In(w, q, StopAsk)
    BY <1>3
  <2>5. q[1] = q[2] => v.msg[q] = w.msg[q]
    <3>1. 0 \notin 1 .. n - 1  OBVIOUS
    <3> QED BY <1>1, <3>1
  <2> QED BY ONLY <1>1, <2>2, <2>3, <2>4, <2>5
<1>7. ControlSound(v)  BY <1>1 DEF Sound, ControlSound
<1>8. ASSUME NEW d \in Cores PROVE CoreSound(v, d, {}, {})
  <2>0. CoreSound(w, d, owes, {}) /\ SameInstance(w, v, d) /\ SameTurn(w, v, d)
    BY <1>1, <1>5, InstanceKept DEF Sound, SameTurn
  <2>1. /\ <<0, d>> \in Pairs /\ <<0, d>>[1] = 0 /\ <<0, d>>[2] = d
        /\ <<d, 0>> \in Pairs /\ <<d, 0>>[1] = d /\ <<d, 0>>[2] = 0 /\ 0 \notin 1 .. n - 1
    BY CoreFacts DEF Pairs
  <2>2. /\ In(v, <<d, 0>>, Fine) = In(w, <<d, 0>>, Fine)
        /\ In(v, <<d, 0>>, Broken) = In(w, <<d, 0>>, Broken)
    BY <1>3, <2>1
  <2>3. Lent(v, d) = Lent(w, d)
    <3>1. <<w.loan.at, w.loan.of>> \in Pairs  BY <1>0 DEF Pairs, Loans
    <3>2. In(v, <<w.loan.at, w.loan.of>>, ReleaseAsk) = In(w, <<w.loan.at, w.loan.of>>, ReleaseAsk)
      BY <1>2, <1>3, <3>1
    <3> QED BY ONLY <1>1, <3>2 DEF Lent
  <2>4. CASE d \notin 1 .. n - 1
    <3>1. /\ In(v, <<0, d>>, CreateAsk) = In(w, <<0, d>>, CreateAsk)
          /\ In(v, <<0, d>>, StopAsk) = In(w, <<0, d>>, StopAsk)
      BY <1>3, <2>1, <2>4
    <3>2. SameRequests(w, v, d) /\ d \notin owes
      BY <2>2, <2>3, <2>4, <3>1 DEF SameRequests
    <3> QED BY <2>0, <3>2, CoreKept DEF Same
  <2>5. CASE d \in 1 .. n - 1
    <3>1. RefsExact(w, d, {}) /\ Phase(w, d) /\ Turn(w, d, owes) /\ d \in owes
      BY <2>0, <2>5 DEF CoreSound
    <3>2. RefsExact(v, d, {})  BY ONLY <1>1, <2>3, <3>1 DEF RefsExact, Own, Inside
    <3>3. Phase(v, d)  BY ONLY <1>1, <1>5, <3>1, InstanceKept
    <3>4. /\ In(w, <<0, d>>, CreateAsk) = 0 /\ In(w, <<0, d>>, StopAsk) = 0
          /\ In(w, <<d, 0>>, Fine) = 0 /\ In(w, <<d, 0>>, Broken) = 0
          /\ d \in w.control.left /\ w.service[d].state \notin {"stopping", "freeing", "lost"}
      BY <3>1, OwesIt
    <3>5. In(v, <<0, d>>, CreateAsk) = (IF r = CreateAsk THEN 1 ELSE 0)
      <4>1. CASE r = CreateAsk  BY <1>4, <2>5, <3>4, <4>1
      <4>2. CASE r # CreateAsk  BY <1>3, <2>1, <3>4, <4>2
      <4> QED BY <4>1, <4>2
    <3>6. In(v, <<0, d>>, StopAsk) = (IF r = CreateAsk THEN 0 ELSE 1)
      <4>1. CASE r = CreateAsk  BY <1>2, <1>3, <2>1, <3>4, <4>1
      <4>2. CASE r # CreateAsk
        <5>1. r = StopAsk  BY <4>2
        <5> QED BY <1>4, <2>5, <3>4, <4>2, <5>1
      <4> QED BY <4>1, <4>2
    <3>7. Tokens(v, d) = 1
      <4>1. Indicator(w.service[d].state \in {"stopping", "freeing", "lost"}) = 0
        BY <3>4 DEF Indicator
      <4>2. Tokens(v, d) = In(v, <<0, d>>, CreateAsk) + In(v, <<0, d>>, StopAsk) + 0 + 0 + 0
        BY ONLY <1>1, <2>2, <3>4, <4>1 DEF Tokens
      <4> QED BY ONLY <3>5, <3>6, <4>2
    <3>8. Tokens(v, d) + Indicator(d \in {}) = Indicator(d \in v.control.left)
      BY <1>1, <3>4, <3>7 DEF Indicator
    <3>9. \/ r = CreateAsk /\ w.control.op = "start" /\ w.service[d].state = "none"
          \/ r # CreateAsk /\ w.control.op = "stop" /\ w.service[d].state \in {"none", "alive"}
      BY <1>2, <3>1
    <3>10. \/ r = CreateAsk /\ v.control.op = "start" /\ v.service[d].state = "none"
           \/ r # CreateAsk /\ v.control.op = "stop" /\ v.service[d].state \in {"none", "alive"}
      BY <1>1, <3>9
    <3>11. Turn(v, d, {})
      <4>1. CASE r = CreateAsk
        <5>1. /\ In(v, <<0, d>>, StopAsk) = 0 /\ v.control.op = "start"
              /\ v.service[d].state = "none"
          BY <3>6, <3>10, <4>1
        <5> QED BY ONLY <3>8, <5>1 DEF Turn
      <4>2. CASE r # CreateAsk
        <5>1. /\ In(v, <<0, d>>, CreateAsk) = 0 /\ In(v, <<0, d>>, StopAsk) = 1
              /\ v.control.op = "stop" /\ v.service[d].state \in {"none", "alive"}
          BY <3>5, <3>6, <3>10, <4>2
        <5> QED BY ONLY <3>8, <5>1 DEF Turn
      <4> QED BY <4>1, <4>2
    <3> QED BY <3>2, <3>3, <3>11 DEF CoreSound
  <2> QED BY <2>4, <2>5
<1>9. ASSUME NEW k \in Callers PROVE CallSound(v, k, {})
  <2>1. CallSound(w, k, {})  BY DEF Sound
  <2>2. v.call[k] = w.call[k] /\ \A d \in Cores : k \in v.service[d].calls <=> k \in w.service[d].calls
    BY <1>1
  <2>3. \A q \in Pairs : /\ In(v, q, CallAsk(k)) = In(w, q, CallAsk(k))
                         /\ In(v, q, ReturnAsk(k)) = In(w, q, ReturnAsk(k))
    BY <1>2, <1>3
  <2> QED BY ONLY <2>1, <2>2, <2>3, CallKept
<1>10. v \in Worlds /\ v.shared.crashed = "no"  BY <1>1 DEF Sound
<1> QED BY ONLY <1>6, <1>7, <1>8, <1>9, <1>10 DEF Sound
(* Nothing is on the way for a core that has answered.                     *)
LEMMA QuietCore ==
    ASSUME NEW w, NEW owes, NEW spare, NEW loose, NEW c \in Cores, Sound(w, owes, spare, loose),
           c \notin w.control.left
    PROVE  /\ w.service[c].state \notin {"stopping", "freeing", "lost"}
           /\ In(w, <<0, c>>, CreateAsk) = 0 /\ In(w, <<0, c>>, StopAsk) = 0
           /\ In(w, <<c, 0>>, Fine) = 0 /\ In(w, <<c, 0>>, Broken) = 0
<1> DEFINE i == Indicator(w.service[c].state \in {"stopping", "freeing", "lost"})
           n1 == In(w, <<0, c>>, CreateAsk)
           n2 == In(w, <<0, c>>, StopAsk)
           n3 == In(w, <<c, 0>>, Fine)
           n4 == In(w, <<c, 0>>, Broken)
           o == Indicator(c \in owes)
<1>0. w \in Worlds  BY DEF Sound
<1>1. Tokens(w, c) + o = Indicator(c \in w.control.left)
  BY DEF Sound, CoreSound, Turn
<1>2. n1 \in Nat /\ n2 \in Nat /\ n3 \in Nat /\ n4 \in Nat  BY <1>0, CoreNumbers
<1>3. Tokens(w, c) = n1 + n2 + i + n3 + n4  BY DEF Tokens
<1>4. i \in Nat /\ o \in Nat /\ Indicator(c \in w.control.left) = 0
  BY DEF Indicator
<1> HIDE DEF i, n1, n2, n3, n4, o
<1>5. n1 + n2 + i + n3 + n4 + o = 0  BY ONLY <1>1, <1>3, <1>4
<1>a. n1 \in Nat /\ n2 \in Nat /\ n3 \in Nat /\ n4 \in Nat /\ i \in Nat /\ o \in Nat
  BY ONLY <1>2, <1>4
<1>6. i = 0 /\ n1 = 0 /\ n2 = 0 /\ n3 = 0 /\ n4 = 0  BY ONLY <1>a, <1>5
<1> QED BY <1>6 DEF i, n1, n2, n3, n4, Indicator

(* One request is run on core 0, then the others go out.                   *)
LEMMA RoundSound ==
    ASSUME NEW w, NEW all, Sound(w, all, {}, {}), NEW n \in Nat, n > 0, w.shared.size = n,
           \A d \in Cores : d \in all <=> d \in 0 .. n - 1,
           NEW r,
           \/ r = CreateAsk /\ w.control.op = "start"
              /\ \A d \in Cores : d \in all => w.service[d].state = "none"
           \/ r = StopAsk /\ w.control.op = "stop"
              /\ \A d \in Cores : d \in all => w.service[d].state \in {"none", "alive"},
           NEW u, u \in Runs(w, 0, r), NEW v, v = Asked(u, n, r)
    PROVE  Sound(v, {}, {}, {})
<1> DEFINE rest == {d \in Cores : d \in 1 .. n - 1}
<1>1. 0 \in Cores /\ 0 \in all /\ \A d \in Cores : d \in Nat  BY CoreFacts
<1>2. \A d \in Cores : d \in rest <=> d \in all /\ d # 0  BY <1>1
<1>3. \A d \in Cores : d \in rest <=> d \in 1 .. n - 1  OBVIOUS
<1>4. rest \subseteq Cores  OBVIOUS
<1> HIDE DEF rest
<1>5. CASE r = CreateAsk
  <2>1. /\ w.control.op = "start"
        /\ \A d \in Cores : d \in all => w.service[d].state = "none"
    BY <1>5, RequestFacts
  <2>2. u \in Create(w, 0)  BY <1>5 DEF Runs, CreateAsk, Request
  <2>3. Sound(u, rest, {}, {}) /\ Elsewhere(w, u, 0)
    BY <1>1, <1>2, <2>1, <2>2, CreateSound
  <2>4. u.control.op = "start" /\ \A d \in rest : u.service[d].state = "none"
    BY <1>2, <1>4, <2>1, <2>3 DEF Elsewhere
  <2> QED BY <1>3, <1>5, <2>3, <2>4, AskedSound
<1>6. CASE r = StopAsk
  <2>1. /\ w.control.op = "stop"
        /\ \A d \in Cores : d \in all => w.service[d].state \in {"none", "alive"}
    BY <1>6, RequestFacts
  <2>2. u \in Stop(w, 0)  BY <1>6 DEF Runs, StopAsk, Request
  <2>3. w.service[0].state # "failed"  BY <1>1, <2>1
  <2>4. Sound(u, rest, {}, {}) /\ Elsewhere(w, u, 0)
    BY <1>1, <1>2, <2>1, <2>2, <2>3, StopSound
  <2>5. u.control.op = "stop" /\ \A d \in rest : u.service[d].state \in {"none", "alive"}
    BY <1>2, <1>4, <2>1, <2>4 DEF Elsewhere
  <2> QED BY <1>3, <1>6, <2>4, <2>5, AskedSound
<1> QED BY <1>5, <1>6

Armed(w, n) == [w EXCEPT !.control.left = 0 .. n - 1, !.control.failed = FALSE]

LEMMA SubmitAllIs ==
    ASSUME NEW w, NEW n, NEW kind, NEW v, v \in SubmitAll(w, n, kind)
    PROVE  \E u \in Runs(Armed(w, n), 0, Request(kind, 0)) : v = Asked(u, n, Request(kind, 0))
BY DEF SubmitAll, Asked, Armed

WithControl(w, x) == [w EXCEPT !.control = x]

LEMMA ControlWorld ==
    ASSUME NEW w \in Worlds, NEW x \in Controls, NEW v, v = WithControl(w, x)
    PROVE  /\ v \in Worlds /\ v.shared = w.shared /\ v.service = w.service /\ v.control = x
           /\ v.call = w.call /\ v.loan = w.loan /\ v.msg = w.msg
BY DEF Worlds, WithControl

LEMMA SizeFacts ==
    ASSUME NEW w \in Worlds
    PROVE  /\ w.shared.size \in Nat
           /\ 0 .. w.shared.size - 1 \subseteq Cores
<1>1. w.shared.size \in 0 .. Cardinality(Cores)  BY DEF Worlds, SharedStates
<1> QED BY <1>1, CoreFacts

(* The fiber on core 0 begins to stop what there is.                       *)
Stopping(w, b) ==
    [w.control EXCEPT !.starting = b, !.op = "stop", !.left = 0 .. w.shared.size - 1,
                      !.failed = FALSE]

LEMMA StoppingSound ==
    ASSUME NEW w, Sound(w, {}, {}, {}), w.control.left = {}, w.shared.size > 0,
           w.control.op = "start" \/ (w.control.op = "none" /\ w.control.result = "started"),
           NEW b \in BOOLEAN, NEW v, v = WithControl(w, Stopping(w, b))
    PROVE  /\ Sound(v, 0 .. w.shared.size - 1, {}, {})
           /\ v.control.op = "stop" /\ v.shared.size = w.shared.size
           /\ \A d \in Cores : v.service[d].state \in {"none", "alive"}
<1> DEFINE n == w.shared.size
           all == 0 .. n - 1
           x == Stopping(w, b)
<1>0. w \in Worlds /\ w.control \in Controls /\ n \in Nat /\ all \subseteq Cores
  BY SizeFacts DEF Sound, Worlds
<1>1. x \in Controls /\ x.op = "stop" /\ x.left = all
  BY <1>0 DEF Controls, Stopping
<1> HIDE DEF x
<1>2. /\ v \in Worlds /\ v.shared = w.shared /\ v.service = w.service /\ v.control = x
      /\ v.call = w.call /\ v.loan = w.loan /\ v.msg = w.msg
  <2>1. v = WithControl(w, x)  BY DEF x
  <2> QED BY ONLY <1>0, <1>1, <2>1, ControlWorld
<1>3. /\ \A p, r : In(v, p, r) = In(w, p, r)
      /\ Bare(v) <=> Bare(w)
      /\ \A d : Lent(v, d) = Lent(w, d)
      /\ Placed(v)
  <2>1. Placed(w)  BY DEF Sound
  <2> QED BY ONLY <1>2, <2>1, SameMessages
<1>4. ControlSound(v)  BY ONLY <1>1, <1>2, w.shared.size > 0 DEF ControlSound
<1>5. ASSUME NEW d \in Cores
      PROVE  CoreSound(v, d, all, {}) /\ v.service[d].state \in {"none", "alive"}
  <2>1. RefsExact(w, d, {}) /\ Phase(w, d) /\ Turn(w, d, {}) /\ d \in Nat
    BY CoreFacts DEF Sound, CoreSound
  <2>2. w.service[d].state \in {"none", "alive"}  BY <2>1 DEF Turn
  <2>3. /\ In(w, <<0, d>>, CreateAsk) = 0 /\ In(w, <<0, d>>, StopAsk) = 0
        /\ In(w, <<d, 0>>, Fine) = 0 /\ In(w, <<d, 0>>, Broken) = 0
        /\ w.service[d].state \notin {"stopping", "freeing", "lost"}
    BY QuietCore
  <2>4. RefsExact(v, d, {})  BY ONLY <1>2, <1>3, <2>1 DEF RefsExact, Own, Inside
  <2>5. Phase(v, d)  BY ONLY <1>2, <1>3, <2>1, InstanceKept
  <2>6. w.service[d].state = "alive" => d \in all  BY <1>0, <2>1 DEF Phase
  <2>7. Tokens(v, d) = 0  BY ONLY <1>2, <1>3, <2>3 DEF Tokens, Indicator
  <2>8. Tokens(v, d) + Indicator(d \in all) = Indicator(d \in v.control.left)
    <3>1. v.control.left = all  BY <1>1, <1>2
    <3> HIDE DEF all
    <3>2. Indicator(d \in all) \in Nat  BY DEF Indicator
    <3> QED BY ONLY <2>7, <3>1, <3>2
  <2>9. /\ v.control.op = "stop" /\ v.service[d].state \in {"none", "alive"}
        /\ v.service[d].state = "alive" => d \in all
        /\ In(v, <<0, d>>, CreateAsk) = 0
    BY <1>1, <1>2, <1>3, <2>2, <2>3, <2>6
  <2> HIDE DEF all
  <2>10. Turn(v, d, all)  BY ONLY <2>8, <2>9 DEF Turn
  <2> QED BY <2>4, <2>5, <2>9, <2>10 DEF CoreSound
<1>6. ASSUME NEW k \in Callers PROVE CallSound(v, k, {})
  <2>1. CallSound(w, k, {})  BY DEF Sound
  <2>2. v.call[k] = w.call[k] /\ \A d \in Cores : k \in v.service[d].calls <=> k \in w.service[d].calls
    BY <1>2
  <2> QED BY <1>3, <2>1, <2>2, CallKept
<1>7. v.shared.crashed = "no"  BY <1>2 DEF Sound
<1> HIDE DEF all
<1>8. Sound(v, all, {}, {})  BY ONLY <1>2, <1>3, <1>4, <1>5, <1>6, <1>7 DEF Sound
<1> QED BY <1>1, <1>2, <1>5, <1>8 DEF all
(* The fiber on core 0 begins to start an instance on n cores.             *)
Starting(w, n) ==
    [[w EXCEPT !.shared.size = n,
               !.service = [c \in Cores |-> NoInstance],
               !.control.op = "start", !.control.starts = @ + 1,
               !.control.result = "none"]
        EXCEPT !.control.left = 0 .. n - 1, !.control.failed = FALSE]

LEMMA StartingWorld ==
    ASSUME NEW w \in Worlds, NEW n \in 1 .. Cardinality(Cores), NEW v, v = Starting(w, n)
    PROVE  /\ v \in Worlds /\ v.call = w.call /\ v.loan = w.loan /\ v.msg = w.msg
           /\ v.shared.kind = w.shared.kind /\ v.shared.size = n
           /\ v.shared.slot = w.shared.slot /\ v.shared.crashed = w.shared.crashed
           /\ v.control.op = "start" /\ v.control.left = 0 .. n - 1
           /\ \A d \in Cores : /\ v.service[d].state = "none" /\ v.service[d].refs = 0
                               /\ v.service[d].stops = 0 /\ v.service[d].calls = {}
<1> DEFINE x == [[w.control EXCEPT !.op = "start", !.starts = @ + 1, !.result = "none"]
                     EXCEPT !.left = 0 .. n - 1, !.failed = FALSE]
           y == [c \in Cores |-> NoInstance]
           s == [w.shared EXCEPT !.size = n]
<1>1. w.shared \in SharedStates /\ w.control \in Controls  BY DEF Worlds
<1>2. 0 .. n - 1 \subseteq Cores /\ n \in 0 .. Cardinality(Cores)  BY CoreFacts
<1>3. v = [w EXCEPT !.shared = s, !.service = y, !.control = x]
  BY <1>1 DEF Starting, Worlds, Controls
<1>4. /\ NoInstance \in Instances /\ NoInstance.state = "none" /\ NoInstance.refs = 0
      /\ NoInstance.stops = 0 /\ NoInstance.calls = {}
  BY DEF Instances, States, NoInstance
<1>5. y \in [Cores -> Instances] /\ \A d \in Cores : y[d] = NoInstance  BY <1>4
<1> HIDE DEF y
<1>6. x \in Controls /\ x.op = "start" /\ x.left = 0 .. n - 1
  <2> DEFINE a == [w.control EXCEPT !.op = "start"]
             b == [a EXCEPT !.starts = @ + 1]
             d == [b EXCEPT !.result = "none"]
             e == [d EXCEPT !.left = 0 .. n - 1]
             f == [e EXCEPT !.failed = FALSE]
  <2>1. a \in Controls  BY <1>1 DEF Controls
  <2>2. x = f  BY <1>1 DEF Controls
  <2> HIDE DEF a, x
  <2>3. b \in Controls
    <3>1. a.starts \in Nat  BY ONLY <2>1 DEF Controls
    <3> DEFINE m == a.starts + 1
    <3>2. b = [a EXCEPT !.starts = m]  BY ONLY <2>1 DEF Controls
    <3>3. m \in Nat  BY ONLY <3>1
    <3> HIDE DEF m, b
    <3> QED BY ONLY <2>1, <3>2, <3>3 DEF Controls
  <2> HIDE DEF b
  <2>4. d \in Controls  BY <2>3 DEF Controls
  <2> HIDE DEF d
  <2>5. e \in Controls /\ e.left = 0 .. n - 1  BY <1>2, <2>4 DEF Controls
  <2> HIDE DEF e
  <2>6. f \in Controls /\ f.left = 0 .. n - 1  BY <2>5 DEF Controls
  <2>7. x.op = "start"  BY <1>1 DEF x, Controls
  <2> QED BY <2>2, <2>6, <2>7
<1> HIDE DEF x
<1>7. /\ s \in SharedStates /\ s.kind = w.shared.kind /\ s.size = n
      /\ s.slot = w.shared.slot /\ s.crashed = w.shared.crashed
  BY <1>1, <1>2 DEF SharedStates
<1> HIDE DEF s
<1>8. /\ v \in Worlds /\ v.call = w.call /\ v.loan = w.loan /\ v.msg = w.msg
      /\ v.shared = s /\ v.service = y /\ v.control = x
  BY <1>3, <1>5, <1>6, <1>7 DEF Worlds
<1> QED BY ONLY <1>4, <1>5, <1>6, <1>7, <1>8

LEMMA StartingSound ==
    ASSUME NEW w, Sound(w, {}, {}, {}), w.control.op = "none",
           \A d \in Cores : w.service[d].state \in {"none", "dead"} /\ w.service[d].calls = {},
           NEW n \in 1 .. Cardinality(Cores), NEW v, v = Starting(w, n)
    PROVE  /\ Sound(v, 0 .. n - 1, {}, {})
           /\ v.control.op = "start" /\ v.shared.size = n
           /\ \A d \in Cores : v.service[d].state = "none"
<1> DEFINE all == 0 .. n - 1
<1>0. w \in Worlds  BY DEF Sound
<1>1. /\ v \in Worlds /\ v.call = w.call /\ v.loan = w.loan /\ v.msg = w.msg
      /\ v.shared.kind = w.shared.kind /\ v.shared.size = n
      /\ v.shared.slot = w.shared.slot /\ v.shared.crashed = w.shared.crashed
      /\ v.control.op = "start" /\ v.control.left = all
      /\ \A d \in Cores : /\ v.service[d].state = "none" /\ v.service[d].refs = 0
                          /\ v.service[d].stops = 0 /\ v.service[d].calls = {}
  BY <1>0, StartingWorld
<1>2. /\ \A p, r : In(v, p, r) = In(w, p, r)
      /\ Bare(v) <=> Bare(w)
      /\ \A d : Lent(v, d) = Lent(w, d)
      /\ Placed(v)
  <2>1. Placed(w)  BY DEF Sound
  <2> QED BY ONLY <1>1, <2>1, SameMessages
<1>3. ControlSound(v)
  BY ONLY <1>1, n \in 1 .. Cardinality(Cores), CoreFacts DEF ControlSound
<1>4. ASSUME NEW d \in Cores
      PROVE  CoreSound(v, d, all, {}) /\ w.service[d].calls = {}
  <2>1. RefsExact(w, d, {}) /\ Phase(w, d) /\ d \notin w.control.left
    BY DEF Sound, CoreSound, ControlSound
  <2>2. w.service[d].state \in {"none", "dead"} /\ w.service[d].calls = {} /\ w.service[d].refs = 0
    BY <2>1 DEF Phase
  <2>3. /\ In(w, <<0, d>>, CreateAsk) = 0 /\ In(w, <<0, d>>, StopAsk) = 0
        /\ In(w, <<d, 0>>, Fine) = 0 /\ In(w, <<d, 0>>, Broken) = 0
    BY <2>1, QuietCore
  <2>4. Lent(w, d) = 0
    <3>1. Own(w, d) = 0 /\ Indicator(d \in {}) = 0  BY <2>2 DEF Own, Indicator
    <3>2. Inside(w, d) \in Nat /\ Lent(w, d) \in Nat  BY <1>0, CoreNumbers
    <3>3. 0 = Own(w, d) + Inside(w, d) + Lent(w, d) + Indicator(d \in {})
      BY <2>1, <2>2 DEF RefsExact
    <3> QED BY ONLY <3>1, <3>2, <3>3
  <2>5. RefsExact(v, d, {})
    <3>1. /\ Own(v, d) = 0 /\ Inside(v, d) = 0 /\ Indicator(d \in {}) = 0
          /\ v.service[d].refs = 0
      BY <1>1, FS_EmptySet DEF Own, Inside, Indicator
    <3>2. Lent(v, d) = 0  BY <1>2, <2>4
    <3>3. v.service[d].refs = Own(v, d) + Inside(v, d) + Lent(v, d) + Indicator(d \in {})
      BY ONLY <3>1, <3>2
    <3> QED BY <3>3 DEF RefsExact
  <2>6. Phase(v, d)
    <3>1. ~w.shared.slot[d]  BY <2>1, <2>2 DEF Phase
    <3>2. /\ v.service[d].state = "none" /\ v.service[d].refs = 0
          /\ v.service[d].stops = 0 /\ v.service[d].calls = {} /\ ~v.shared.slot[d]
      BY <1>1, <3>1
    <3> QED BY ONLY <3>2 DEF Phase
  <2>7. Tokens(v, d) = 0
    <3>1. v.service[d].state = "none"  BY <1>1
    <3> QED BY ONLY <1>2, <2>3, <3>1 DEF Tokens, Indicator
  <2>8. Tokens(v, d) + Indicator(d \in all) = Indicator(d \in v.control.left)
    <3>1. v.control.left = all  BY <1>1
    <3> HIDE DEF all
    <3>2. Indicator(d \in all) \in Nat  BY DEF Indicator
    <3> QED BY ONLY <2>7, <3>1, <3>2
  <2>9. /\ v.control.op = "start" /\ v.service[d].state = "none"
        /\ In(v, <<0, d>>, StopAsk) = 0
    BY <1>1, <1>2, <2>3
  <2> HIDE DEF all
  <2>10. Turn(v, d, all)  BY ONLY <2>8, <2>9 DEF Turn
  <2> QED BY <2>2, <2>5, <2>6, <2>10 DEF CoreSound
<1>5. ASSUME NEW k \in Callers PROVE CallSound(v, k, {})
  <2>1. CallSound(w, k, {})  BY DEF Sound
  <2>2. v.call[k] = w.call[k] /\ \A d \in Cores : k \in v.service[d].calls <=> k \in w.service[d].calls
    BY <1>1, <1>4
  <2> QED BY <1>2, <2>1, <2>2, CallKept
<1>6. v.shared.crashed = "no"  BY <1>1 DEF Sound
<1> HIDE DEF all
<1>7. Sound(v, all, {}, {})  BY ONLY <1>1, <1>2, <1>3, <1>4, <1>5, <1>6 DEF Sound
<1> QED BY <1>1, <1>7 DEF all
-----------------------------------------------------------------------------
(* A message arrives: what it stood for is a debt.                         *)
LEMMA HeadThere ==
    ASSUME NEW w, Sound(w, {}, {}, {}), NEW from \in Cores, NEW to \in Cores,
           w.msg[<<from, to>>] # <<>>, NEW r, r = Head(w.msg[<<from, to>>]),
           NEW v, v = Taken(w, from, to)
    PROVE  /\ r \in Requests /\ <<from, to>> \in Pairs /\ from # to
           /\ v \in Worlds /\ v.shared = w.shared /\ v.service = w.service
           /\ v.control = w.control /\ v.call = w.call /\ v.loan = w.loan
           /\ \A q \in Pairs : q # <<from, to>> => v.msg[q] = w.msg[q]
           /\ In(w, <<from, to>>, r) = In(v, <<from, to>>, r) + 1
           /\ In(w, <<from, to>>, r) > 0
           /\ \A q \in Pairs : \A x : q # <<from, to>> \/ x # r => In(v, q, x) = In(w, q, x)
<1> DEFINE p == <<from, to>>
<1>0. w \in Worlds /\ p \in Pairs /\ p[1] = from /\ p[2] = to  BY DEF Sound, Pairs
<1>1. /\ r \in Requests
      /\ v \in Worlds /\ v.shared = w.shared /\ v.service = w.service
      /\ v.control = w.control /\ v.call = w.call /\ v.loan = w.loan
      /\ \A q \in Pairs : q # p => v.msg[q] = w.msg[q]
      /\ \A q \in Pairs : \A x : In(w, q, x) = In(v, q, x) + Indicator(q = p /\ x = r)
  BY <1>0, TakenWorld
<1>2. from # to  BY <1>0 DEF Sound, Placed
<1> HIDE DEF p
<1>3. In(w, p, r) = In(v, p, r) + 1
  <2>1. Indicator(p = p /\ r = r) = 1  BY DEF Indicator
  <2> QED BY <1>0, <1>1, <2>1
<1>4. In(v, p, r) \in Nat  BY <1>0, <1>1, InType
<1>5. ASSUME NEW q \in Pairs, NEW x, q # p \/ x # r PROVE In(v, q, x) = In(w, q, x)
  <2>1. Indicator(q = p /\ x = r) = 0  BY <1>5 DEF Indicator
  <2>2. In(v, q, x) \in Nat /\ In(w, q, x) = In(v, q, x) + Indicator(q = p /\ x = r)
    BY <1>1, InType
  <2> QED BY ONLY <2>1, <2>2
<1>6. In(w, p, r) > 0  BY ONLY <1>3, <1>4
<1> QED BY <1>0, <1>1, <1>2, <1>3, <1>5, <1>6 DEF p

(* A request of, or an answer to, the fiber on core 0.                     *)
LEMMA ControlTaken ==
    ASSUME NEW w, Sound(w, {}, {}, {}), NEW from \in Cores, NEW to \in Cores,
           w.msg[<<from, to>>] # <<>>, NEW r, r = Head(w.msg[<<from, to>>]),
           r \in {CreateAsk, StopAsk, Fine, Broken},
           NEW c, c = IF r \in {CreateAsk, StopAsk} THEN to ELSE from,
           NEW v, v = Taken(w, from, to)
    PROVE  /\ Sound(v, {c}, {}, {}) /\ c \in Cores /\ c < w.shared.size
           /\ v.shared = w.shared /\ v.service = w.service /\ v.control = w.control
           /\ r = CreateAsk => w.control.op = "start" /\ w.service[c].state = "none"
           /\ r = StopAsk => w.control.op = "stop"
           /\ w.control.op = "stop" /\ r # StopAsk => w.service[c].state # "alive"
           /\ w.control.op = "stop" /\ w.service[c].state = "failed" /\ r # Broken
                  => w.control.failed
<1> DEFINE p == <<from, to>>
           n1 == In(w, <<0, c>>, CreateAsk)
           n2 == In(w, <<0, c>>, StopAsk)
           n3 == In(w, <<c, 0>>, Fine)
           n4 == In(w, <<c, 0>>, Broken)
           m1 == In(v, <<0, c>>, CreateAsk)
           m2 == In(v, <<0, c>>, StopAsk)
           m3 == In(v, <<c, 0>>, Fine)
           m4 == In(v, <<c, 0>>, Broken)
           i == Indicator(w.service[c].state \in {"stopping", "freeing", "lost"})
           l == Indicator(c \in w.control.left)
<1>0. w \in Worlds /\ w.loan \in Loans /\ w.control \in Controls /\ Placed(w) /\ ControlSound(w)
  BY DEF Sound, Worlds
<1>1. /\ r \in Requests /\ p \in Pairs /\ from # to /\ p[1] = from /\ p[2] = to
      /\ v \in Worlds /\ v.shared = w.shared /\ v.service = w.service
      /\ v.control = w.control /\ v.call = w.call /\ v.loan = w.loan
      /\ \A q \in Pairs : q # p => v.msg[q] = w.msg[q]
      /\ In(w, p, r) = In(v, p, r) + 1
      /\ In(w, p, r) > 0
      /\ \A q \in Pairs : \A x : q # p \/ x # r => In(v, q, x) = In(w, q, x)
  BY HeadThere
<1>2. /\ r # ReleaseAsk /\ \A k : r # CallAsk(k) /\ r # ReturnAsk(k)
      /\ CreateAsk # StopAsk /\ CreateAsk # Fine /\ CreateAsk # Broken
      /\ StopAsk # Fine /\ StopAsk # Broken /\ Fine # Broken
  BY RequestFacts
<1>3. /\ r \in {CreateAsk, StopAsk} => p = <<0, c>> /\ from = 0
      /\ r \in {Fine, Broken} => p = <<c, 0>> /\ to = 0
      /\ c \in Cores /\ c # 0
  <2>1. r \in {CreateAsk, StopAsk} => from = 0  BY <1>0, <1>1 DEF Placed
  <2>2. r \in {Fine, Broken} => to = 0  BY <1>0, <1>1 DEF Placed
  <2> QED BY <1>1, <1>2, <2>1, <2>2
<1>4. RefsExact(w, c, {}) /\ Phase(w, c) /\ Turn(w, c, {})
  BY <1>3 DEF Sound, CoreSound
<1>5. <<0, c>> # <<c, 0>> /\ <<0, c>> \in Pairs /\ <<c, 0>> \in Pairs
  BY <1>3, CoreFacts DEF Pairs
<1>6. /\ n1 = m1 + (IF r = CreateAsk THEN 1 ELSE 0)
      /\ n2 = m2 + (IF r = StopAsk THEN 1 ELSE 0)
      /\ n3 = m3 + (IF r = Fine THEN 1 ELSE 0)
      /\ n4 = m4 + (IF r = Broken THEN 1 ELSE 0)
  <2>0. m1 \in Nat /\ m2 \in Nat /\ m3 \in Nat /\ m4 \in Nat
    BY <1>1, <1>3, CoreNumbers
  <2>1. r # CreateAsk => m1 = n1  BY <1>1, <1>5
  <2>2. r # StopAsk => m2 = n2  BY <1>1, <1>5
  <2>3. r # Fine => m3 = n3  BY <1>1, <1>5
  <2>4. r # Broken => m4 = n4  BY <1>1, <1>5
  <2>5. r = CreateAsk => n1 = m1 + 1  BY <1>1, <1>3
  <2>6. r = StopAsk => n2 = m2 + 1  BY <1>1, <1>3
  <2>7. r = Fine => n3 = m3 + 1  BY <1>1, <1>3
  <2>8. r = Broken => n4 = m4 + 1  BY <1>1, <1>3
  <2> HIDE DEF n1, n2, n3, n4, m1, m2, m3, m4
  <2> QED BY ONLY <2>0, <2>1, <2>2, <2>3, <2>4, <2>5, <2>6, <2>7, <2>8
<1>7. /\ m1 \in Nat /\ m2 \in Nat /\ m3 \in Nat /\ m4 \in Nat
      /\ i \in Nat /\ l \in {0, 1}
  BY <1>1, <1>3, CoreNumbers DEF Indicator
<1>8. n1 + n2 + i + n3 + n4 = l
  <2>1. Tokens(w, c) + Indicator(c \in {}) = l  BY <1>4 DEF Turn
  <2>2. Tokens(w, c) = n1 + n2 + i + n3 + n4  BY DEF Tokens
  <2>3. Indicator(c \in {}) = 0  BY DEF Indicator
  <2> HIDE DEF n1, n2, n3, n4, i, l
  <2>4. n1 \in Nat /\ n2 \in Nat /\ n3 \in Nat /\ n4 \in Nat /\ i \in Nat
    BY ONLY <1>6, <1>7
  <2> QED BY ONLY <1>7, <2>1, <2>2, <2>3, <2>4
<1>9. l = 1 /\ i = 0 /\ m1 = 0 /\ m2 = 0 /\ m3 = 0 /\ m4 = 0
  <2> HIDE DEF n1, n2, n3, n4, m1, m2, m3, m4, i, l
  <2>1. r = CreateAsk \/ r = StopAsk \/ r = Fine \/ r = Broken  OBVIOUS
  <2> QED BY ONLY <1>2, <1>6, <1>7, <1>8, <2>1
<1>10. c \in w.control.left /\ c < w.shared.size /\ w.control.op \in {"start", "stop"}
  <2>1. c \in w.control.left  BY <1>9 DEF Indicator
  <2>2. c \in 0 .. w.shared.size - 1  BY <1>0, <2>1 DEF ControlSound
  <2>3. w.control.op \in {"start", "stop"}  BY <1>0, <2>1 DEF ControlSound, Controls
  <2>4. w.shared.size \in Nat  BY <1>0, SizeFacts
  <2> QED BY <2>1, <2>2, <2>3, <2>4
<1>11. /\ r = CreateAsk => w.control.op = "start" /\ w.service[c].state = "none"
       /\ r = StopAsk => w.control.op = "stop"
       /\ w.control.op = "stop" /\ r # StopAsk => w.service[c].state # "alive"
       /\ w.control.op = "stop" /\ w.service[c].state = "failed" /\ r # Broken
              => w.control.failed
  <2>1. /\ r = CreateAsk => n1 > 0
        /\ r = StopAsk => n2 > 0
        /\ r # StopAsk => n2 = 0
        /\ r # Broken => n4 = 0
    <3> HIDE DEF n1, n2, n3, n4, m1, m2, m3, m4
    <3> QED BY ONLY <1>6, <1>9
  <2>2. /\ n1 > 0 => w.control.op = "start" /\ w.service[c].state = "none"
        /\ w.control.op = "start" => n2 = 0
        /\ w.control.op = "stop" /\ w.service[c].state = "alive" => n2 > 0
        /\ w.control.op = "stop" /\ w.service[c].state = "failed" => w.control.failed \/ n4 > 0
    BY <1>4 DEF Turn
  <2> HIDE DEF n1, n2, n3, n4
  <2> QED BY <1>10, <2>1, <2>2
<1>12. Bare(v) <=> Bare(w)  BY <1>1 DEF Bare
<1>13. Placed(v)
  <2> SUFFICES ASSUME NEW q \in Pairs
               PROVE  /\ q[1] = q[2] => v.msg[q] = <<>>
                      /\ q[1] # 0 => In(v, q, CreateAsk) = 0 /\ In(v, q, StopAsk) = 0
                      /\ q[2] # 0 => In(v, q, Fine) = 0 /\ In(v, q, Broken) = 0
                      /\ In(v, q, ReleaseAsk) > 0
                             => v.loan.state = "dropped" /\ q = <<v.loan.at, v.loan.of>>
    BY DEF Placed
  <2>1. /\ q[1] = q[2] => w.msg[q] = <<>>
        /\ q[1] # 0 => In(w, q, CreateAsk) = 0 /\ In(w, q, StopAsk) = 0
        /\ q[2] # 0 => In(w, q, Fine) = 0 /\ In(w, q, Broken) = 0
        /\ In(w, q, ReleaseAsk) > 0
               => w.loan.state = "dropped" /\ q = <<w.loan.at, w.loan.of>>
    BY <1>0 DEF Placed
  <2>2. In(v, q, ReleaseAsk) = In(w, q, ReleaseAsk)  BY <1>1, <1>2
  <2>3. q[1] # 0 => In(v, q, CreateAsk) = In(w, q, CreateAsk) /\ In(v, q, StopAsk) = In(w, q, StopAsk)
    <3>1. CASE q # p  BY <1>1, <3>1
    <3>2. CASE q = p /\ q[1] # 0
      <4>1. r # CreateAsk /\ r # StopAsk  BY <1>1, <1>3, <3>2
      <4> QED BY <1>1, <4>1
    <3> QED BY <3>1, <3>2
  <2>4. q[2] # 0 => In(v, q, Fine) = In(w, q, Fine) /\ In(v, q, Broken) = In(w, q, Broken)
    <3>1. CASE q # p  BY <1>1, <3>1
    <3>2. CASE q = p /\ q[2] # 0
      <4>1. r # Fine /\ r # Broken  BY <1>1, <1>3, <3>2
      <4> QED BY <1>1, <4>1
    <3> QED BY <3>1, <3>2
  <2>5. q[1] = q[2] => v.msg[q] = w.msg[q]  BY <1>1
  <2> QED BY ONLY <1>1, <2>1, <2>2, <2>3, <2>4, <2>5
<1>14. ControlSound(v) /\ v.shared.crashed = "no"  BY <1>1 DEF Sound, ControlSound
<1>15. ASSUME NEW d \in Cores PROVE CoreSound(v, d, {c}, {})
  <2>0. CoreSound(w, d, {}, {}) /\ SameInstance(w, v, d) /\ SameTurn(w, v, d)
    BY <1>1, <1>12, InstanceKept DEF Sound, SameTurn
  <2>1. CASE d # c
    <3>1. <<0, d>> # p /\ <<d, 0>> # p  BY <1>3, <2>1
    <3>2. \A q \in Pairs : /\ In(v, q, ReleaseAsk) = In(w, q, ReleaseAsk)
                           /\ q \in {<<0, d>>, <<d, 0>>} =>
                                  \A x \in {CreateAsk, StopAsk, Fine, Broken} :
                                      In(v, q, x) = In(w, q, x)
      BY <1>1, <1>2, <3>1
    <3>3. SameRequests(w, v, d)  BY <1>0, <1>1, <3>2, RequestsKept
    <3>4. d \in {c} <=> d \in {}  BY <2>1
    <3> QED BY ONLY <2>0, <3>3, <3>4, CoreKept DEF Same
  <2>2. CASE d = c
    <3>1. Lent(v, c) = Lent(w, c)
      <4>1. <<w.loan.at, w.loan.of>> \in Pairs  BY <1>0 DEF Pairs, Loans
      <4> QED BY <1>1, <1>2, <4>1 DEF Lent
    <3>2. RefsExact(v, c, {})  BY ONLY <1>1, <1>4, <3>1 DEF RefsExact, Own, Inside
    <3>3. Phase(v, c)  BY ONLY <1>1, <1>4, <1>12, InstanceKept
    <3>4. Tokens(v, c) + Indicator(c \in {c}) = Indicator(c \in v.control.left)
      <4>1. Tokens(v, c) = m1 + m2 + i + m3 + m4  BY <1>1 DEF Tokens
      <4>2. Indicator(c \in {c}) = 1 /\ Indicator(c \in v.control.left) = l
        BY <1>1 DEF Indicator
      <4> HIDE DEF m1, m2, m3, m4, i, l
      <4> QED BY ONLY <1>9, <4>1, <4>2
    <3>5. /\ v.control = w.control /\ v.service = w.service /\ c \in {c}
          /\ In(v, <<0, c>>, CreateAsk) = 0 /\ In(v, <<0, c>>, StopAsk) = 0
      BY <1>1, <1>9
    <3>6. /\ w.control.op = "start" => w.service[c].state \in {"none", "alive"}
          /\ w.control.op # "none"
      BY <1>4, <1>10 DEF Turn
    <3>7. v.control.op = w.control.op /\ v.service[c].state = w.service[c].state
      BY ONLY <3>5
    <3>8. Turn(v, c, {c})
      <4> DEFINE all == {c}
      <4>1. /\ c \in all /\ In(v, <<0, c>>, CreateAsk) = 0 /\ In(v, <<0, c>>, StopAsk) = 0
            /\ Tokens(v, c) + Indicator(c \in all) = Indicator(c \in v.control.left)
        BY <3>4, <3>5
      <4> HIDE DEF all
      <4>2. Turn(v, c, all)
        <5>1. v.control.op = "start" => v.service[c].state \in {"none", "alive"}
          BY ONLY <3>6, <3>7
        <5>2. v.control.op # "none" /\ ~(In(v, <<0, c>>, CreateAsk) > 0)
          BY ONLY <3>6, <3>7, <4>1
        <5> QED BY ONLY <4>1, <5>1, <5>2 DEF Turn
      <4> QED BY <4>2 DEF all
    <3> QED BY <2>2, <3>2, <3>3, <3>8 DEF CoreSound
  <2> QED BY <2>1, <2>2
<1>16. ASSUME NEW k \in Callers PROVE CallSound(v, k, {})
  <2>1. CallSound(w, k, {})  BY DEF Sound
  <2>2. v.call[k] = w.call[k] /\ \A d \in Cores : k \in v.service[d].calls <=> k \in w.service[d].calls
    BY <1>1
  <2>3. \A q \in Pairs : /\ In(v, q, CallAsk(k)) = In(w, q, CallAsk(k))
                         /\ In(v, q, ReturnAsk(k)) = In(w, q, ReturnAsk(k))
    BY <1>1, <1>2
  <2> QED BY ONLY <2>1, <2>2, <2>3, CallKept
<1>17. Sound(v, {c}, {}, {})  BY ONLY <1>1, <1>13, <1>14, <1>15, <1>16 DEF Sound
<1> QED BY <1>1, <1>3, <1>10, <1>11, <1>17

(* A call, or its return.                                                  *)
LEMMA CallTaken ==
    ASSUME NEW w, Sound(w, {}, {}, {}), NEW from \in Cores, NEW to \in Cores,
           w.msg[<<from, to>>] # <<>>, NEW r, r = Head(w.msg[<<from, to>>]),
           NEW k \in Callers, OfCall(r, k),
           NEW v, v = Taken(w, from, to)
    PROVE  /\ Sound(v, {}, {}, {k})
           /\ ReachesCaller(v, r, k, to)
<1> USE DEF OfCall, ReachesCaller
<1> DEFINE p == <<from, to>>
<1>0. w \in Worlds /\ CallSound(w, k, {})  BY DEF Sound
<1>1. /\ r \in Requests /\ p \in Pairs /\ from # to /\ p[1] = from /\ p[2] = to
      /\ v \in Worlds /\ v.shared = w.shared /\ v.service = w.service
      /\ v.control = w.control /\ v.call = w.call /\ v.loan = w.loan
      /\ \A q \in Pairs : q # p => v.msg[q] = w.msg[q]
      /\ In(w, p, r) = In(v, p, r) + 1
      /\ In(w, p, r) > 0
      /\ \A q \in Pairs : \A x : q # p \/ x # r => In(v, q, x) = In(w, q, x)
  BY HeadThere
<1>2. /\ r \notin {CreateAsk, StopAsk, Fine, Broken, ReleaseAsk}
      /\ \A j : j # k => r # CallAsk(j) /\ r # ReturnAsk(j)
      /\ CallAsk(k) # ReturnAsk(k)
  BY RequestFacts
<1>3. /\ v.shared.crashed = "no" /\ ControlSound(v) /\ Placed(v)
      /\ \A d \in Cores : CoreSound(v, d, {}, {})
  <2>1. \A q \in Pairs : /\ \A x \in {CreateAsk, StopAsk, Fine, Broken, ReleaseAsk} :
                                In(v, q, x) = In(w, q, x)
                         /\ q[1] = q[2] => v.msg[q] = w.msg[q]
    BY <1>1, <1>2
  <2> QED BY ONLY <1>1, <2>1, Sound(w, {}, {}, {}), OnlyCalls
<1> DEFINE x == w.call[k]
<1>4. /\ \A c \in Cores : k \in w.service[c].calls <=> x.state = "inside" /\ x.to = c
      /\ \A q \in Pairs :
             /\ In(w, q, CallAsk(k)) = Indicator(x.state = "sent" /\ q = <<x.from, x.to>>)
             /\ In(w, q, ReturnAsk(k)) = Indicator(x.state = "returning" /\ q = <<x.to, x.from>>)
  BY <1>0 DEF CallSound, Indicator
<1>5. /\ r = CallAsk(k) => x.state = "sent" /\ p = <<x.from, x.to>> /\ In(w, p, r) = 1
      /\ r = ReturnAsk(k) => x.state = "returning" /\ p = <<x.to, x.from>> /\ In(w, p, r) = 1
  BY <1>1, <1>4 DEF Indicator
<1>6. \A q \in Pairs : In(v, q, CallAsk(k)) = 0 /\ In(v, q, ReturnAsk(k)) = 0
  <2>1. In(v, p, r) = 0
    <3>1. In(v, p, r) \in Nat  BY <1>1, InType
    <3> QED BY <1>1, <1>5, <3>1
  <2> SUFFICES ASSUME NEW q \in Pairs
               PROVE  In(v, q, CallAsk(k)) = 0 /\ In(v, q, ReturnAsk(k)) = 0
    OBVIOUS
  <2>2. CASE r = CallAsk(k)
    <3>1. In(v, q, ReturnAsk(k)) = 0  BY <1>1, <1>2, <1>4, <1>5, <2>2 DEF Indicator
    <3>2. CASE q = p  BY <2>1, <2>2, <3>1, <3>2
    <3>3. CASE q # p  BY <1>1, <1>4, <1>5, <2>2, <3>1, <3>3 DEF Indicator
    <3> QED BY <3>2, <3>3
  <2>3. CASE r = ReturnAsk(k)
    <3>1. In(v, q, CallAsk(k)) = 0  BY <1>1, <1>2, <1>4, <1>5, <2>3 DEF Indicator
    <3>2. CASE q = p  BY <2>1, <2>3, <3>1, <3>2
    <3>3. CASE q # p  BY <1>1, <1>4, <1>5, <2>3, <3>1, <3>3 DEF Indicator
    <3> QED BY <3>2, <3>3
  <2> QED BY <2>2, <2>3
<1>7. CallSound(v, k, {k})
  <2>1. \A c \in Cores : k \notin v.service[c].calls  BY <1>1, <1>4, <1>5
  <2> QED BY <1>6, <2>1 DEF CallSound, Indicator
<1>8. ASSUME NEW j \in Callers, j # k PROVE CallSound(v, j, {k})
  <2>1. CallSound(w, j, {}) /\ v.call[j] = w.call[j]  BY <1>1 DEF Sound
  <2>2. /\ \A d \in Cores : j \in v.service[d].calls <=> j \in w.service[d].calls
        /\ j \in {k} <=> j \in {}
    BY <1>1, <1>8
  <2>3. \A q \in Pairs : /\ In(v, q, CallAsk(j)) = In(w, q, CallAsk(j))
                         /\ In(v, q, ReturnAsk(j)) = In(w, q, ReturnAsk(j))
    BY <1>1, <1>2, <1>8
  <2> QED BY ONLY <2>1, <2>2, <2>3, CallKept
<1>9. Sound(v, {}, {}, {k})  BY ONLY <1>1, <1>3, <1>7, <1>8 DEF Sound
<1> QED BY <1>1, <1>5, <1>9

(* The request to destroy a pointer.                                       *)
LEMMA ReleaseTaken ==
    ASSUME NEW w, Sound(w, {}, {}, {}), NEW from \in Cores, NEW to \in Cores,
           w.msg[<<from, to>>] # <<>>, NEW r, r = Head(w.msg[<<from, to>>]),
           r = ReleaseAsk, NEW v, v = Taken(w, from, to)
    PROVE  Sound(v, {}, {to}, {})
<1> DEFINE p == <<from, to>>
<1>0. w \in Worlds /\ w.loan \in Loans /\ Placed(w)  BY DEF Sound, Worlds
<1>1. /\ r \in Requests /\ p \in Pairs /\ from # to /\ p[1] = from /\ p[2] = to
      /\ v \in Worlds /\ v.shared = w.shared /\ v.service = w.service
      /\ v.control = w.control /\ v.call = w.call /\ v.loan = w.loan
      /\ \A q \in Pairs : q # p => v.msg[q] = w.msg[q]
      /\ In(w, p, r) = In(v, p, r) + 1
      /\ In(w, p, r) > 0
      /\ \A q \in Pairs : \A x : q # p \/ x # r => In(v, q, x) = In(w, q, x)
  BY HeadThere
<1>2. /\ r \notin {CreateAsk, StopAsk, Fine, Broken}
      /\ \A j : r # CallAsk(j) /\ r # ReturnAsk(j)
  BY RequestFacts
<1>3. w.loan.state = "dropped" /\ p = <<w.loan.at, w.loan.of>> /\ w.loan.of = to
  BY <1>0, <1>1 DEF Placed
<1>4. Bare(v) <=> Bare(w)  BY <1>1 DEF Bare
<1>5. Placed(v)
  <2> SUFFICES ASSUME NEW q \in Pairs
               PROVE  /\ q[1] = q[2] => v.msg[q] = <<>>
                      /\ q[1] # 0 => In(v, q, CreateAsk) = 0 /\ In(v, q, StopAsk) = 0
                      /\ q[2] # 0 => In(v, q, Fine) = 0 /\ In(v, q, Broken) = 0
                      /\ In(v, q, ReleaseAsk) > 0
                             => v.loan.state = "dropped" /\ q = <<v.loan.at, v.loan.of>>
    BY DEF Placed
  <2>1. /\ q[1] = q[2] => w.msg[q] = <<>>
        /\ q[1] # 0 => In(w, q, CreateAsk) = 0 /\ In(w, q, StopAsk) = 0
        /\ q[2] # 0 => In(w, q, Fine) = 0 /\ In(w, q, Broken) = 0
        /\ In(w, q, ReleaseAsk) > 0 => q = p
    BY <1>0, <1>3 DEF Placed
  <2>2. /\ \A x \in {CreateAsk, StopAsk, Fine, Broken} : In(v, q, x) = In(w, q, x)
        /\ q # p => In(v, q, ReleaseAsk) = In(w, q, ReleaseAsk)
    BY <1>1, <1>2
  <2>3. q[1] = q[2] => v.msg[q] = w.msg[q]  BY <1>1
  <2>4. v.loan.state = "dropped" /\ p = <<v.loan.at, v.loan.of>>  BY <1>1, <1>3
  <2> HIDE DEF p
  <2> QED BY ONLY <2>1, <2>2, <2>3, <2>4
<1>6. ControlSound(v) /\ v.shared.crashed = "no"  BY <1>1 DEF Sound, ControlSound
<1>7. ASSUME NEW d \in Cores PROVE CoreSound(v, d, {}, {to})
  <2>1. CoreSound(w, d, {}, {}) /\ SameInstance(w, v, d) /\ SameTurn(w, v, d)
    BY <1>1, <1>4, InstanceKept DEF Sound, SameTurn
  <2>2. /\ In(v, <<0, d>>, CreateAsk) = In(w, <<0, d>>, CreateAsk)
        /\ In(v, <<0, d>>, StopAsk) = In(w, <<0, d>>, StopAsk)
        /\ In(v, <<d, 0>>, Fine) = In(w, <<d, 0>>, Fine)
        /\ In(v, <<d, 0>>, Broken) = In(w, <<d, 0>>, Broken)
    <3>1. <<0, d>> \in Pairs /\ <<d, 0>> \in Pairs  BY CoreFacts DEF Pairs
    <3> QED BY <1>1, <1>2, <3>1
  <2>3. CASE d # to
    <3>1. Lent(v, d) = Lent(w, d)  BY <1>1, <1>3, <2>3 DEF Lent
    <3>2. SameRequests(w, v, d) /\ (d \in {to} <=> d \in {})
      BY <2>2, <2>3, <3>1 DEF SameRequests
    <3> QED BY ONLY <2>1, <3>2, CoreKept DEF Same
  <2>4. CASE d = to
    <3>1. RefsExact(w, d, {}) /\ Phase(w, d) /\ Turn(w, d, {})
      BY <2>1 DEF CoreSound
    <3>2. Lent(w, d) = Lent(v, d) + 1
      <4>1. Lent(w, d) = Indicator(w.loan.state = "lent") + In(w, p, r)
        BY <1>3, <2>4 DEF Lent
      <4>2. Lent(v, d) = Indicator(w.loan.state = "lent") + In(v, p, r)
        BY <1>1, <1>3, <2>4 DEF Lent
      <4>3. Indicator(w.loan.state = "lent") = 0  BY <1>3 DEF Indicator
      <4>4. In(v, p, r) \in Nat  BY <1>1, InType
      <4> HIDE DEF p
      <4>5. In(w, p, r) = In(v, p, r) + 1  BY <1>1
      <4> QED BY ONLY <4>1, <4>2, <4>3, <4>4, <4>5
    <3>3. RefsExact(v, d, {to})
      <4> DEFINE o == Own(w, d)
                 n == Inside(w, d)
                 l == Lent(v, d)
      <4>1. w.service[d].refs = o + n + Lent(w, d) + Indicator(d \in {})
        BY <3>1 DEF RefsExact
      <4>2. Indicator(d \in {}) = 0 /\ Indicator(d \in {to}) = 1
        BY <2>4 DEF Indicator
      <4>3. o \in Nat /\ n \in Nat /\ l \in Nat  BY <1>0, <1>1, CoreNumbers
      <4>4. Own(v, d) = o /\ Inside(v, d) = n  BY <1>1 DEF Own, Inside
      <4> HIDE DEF o, n, l
      <4>5. w.service[d].refs = o + n + l + Indicator(d \in {to})
        BY ONLY <3>2, <4>1, <4>2, <4>3 DEF l
      <4>6. v.service[d].refs = Own(v, d) + Inside(v, d) + Lent(v, d) + Indicator(d \in {to})
        BY ONLY <1>1, <4>4, <4>5 DEF l
      <4> QED BY <4>6 DEF RefsExact
    <3>4. Phase(v, d)  BY ONLY <1>1, <1>4, <3>1, InstanceKept
    <3>5. Turn(v, d, {})  BY ONLY <1>1, <2>2, <3>1 DEF Turn, Tokens
    <3> QED BY <3>3, <3>4, <3>5 DEF CoreSound
  <2> QED BY <2>3, <2>4
<1>8. ASSUME NEW k \in Callers PROVE CallSound(v, k, {})
  <2>1. CallSound(w, k, {}) /\ v.call[k] = w.call[k]  BY <1>1 DEF Sound
  <2>2. \A d \in Cores : k \in v.service[d].calls <=> k \in w.service[d].calls
    BY <1>1
  <2>3. \A q \in Pairs : /\ In(v, q, CallAsk(k)) = In(w, q, CallAsk(k))
                         /\ In(v, q, ReturnAsk(k)) = In(w, q, ReturnAsk(k))
    BY <1>1, <1>2
  <2> QED BY ONLY <2>1, <2>2, <2>3, CallKept
<1> QED BY ONLY <1>1, <1>5, <1>6, <1>7, <1>8 DEF Sound

Comes(w, from, to) ==
    LET r == Head(w.msg[<<from, to>>])
        v == Taken(w, from, to)
    IN  CASE r.kind = "joined" -> {Joined(v, from, r.arg = 1)}
          [] r.kind = "returned" -> {[v EXCEPT !.call[r.arg] = NoCall]}
          [] OTHER -> Runs(v, to, r)

LEMMA ComesSound ==
    ASSUME NEW w, Sound(w, {}, {}, {}), NEW from \in Cores, NEW to \in Cores,
           w.msg[<<from, to>>] # <<>>, NEW u \in Comes(w, from, to)
    PROVE  Sound(u, {}, {}, {}) \/ CrashOK(u)
<1> DEFINE r == Head(w.msg[<<from, to>>])
           v == Taken(w, from, to)
<1>0. u \in CASE r.kind = "joined" -> {Joined(v, from, r.arg = 1)}
              [] r.kind = "returned" -> {[v EXCEPT !.call[r.arg] = NoCall]}
              [] OTHER -> Runs(v, to, r)
  BY DEF Comes
<1>1. r \in Requests /\ v \in Worlds /\ v.call = w.call  BY HeadThere
<1>2. \/ r \in {CreateAsk, StopAsk, Fine, Broken}
      \/ r = ReleaseAsk
      \/ \E k \in Callers : OfCall(r, k)
  BY <1>1 DEF Requests, OfCall
<1>3. ASSUME r \in {CreateAsk, StopAsk, Fine, Broken},
             NEW c, c = IF r \in {CreateAsk, StopAsk} THEN to ELSE from
      PROVE  /\ Sound(v, {c}, {}, {}) /\ c \in Cores /\ c < w.shared.size
             /\ v.shared = w.shared /\ v.service = w.service /\ v.control = w.control
             /\ r = CreateAsk => w.control.op = "start" /\ w.service[c].state = "none"
             /\ r = StopAsk => w.control.op = "stop"
             /\ w.control.op = "stop" /\ r # StopAsk => w.service[c].state # "alive"
             /\ w.control.op = "stop" /\ w.service[c].state = "failed" /\ r # Broken
                    => w.control.failed
  <2>1. v = Taken(w, from, to) /\ r = Head(w.msg[<<from, to>>])  OBVIOUS
  <2> HIDE DEF r, v
  <2> QED BY ONLY <1>3, <2>1, from \in Cores, to \in Cores, w.msg[<<from, to>>] # <<>>,
                  Sound(w, {}, {}, {}), ControlTaken
<1>4. ASSUME NEW k \in Callers, OfCall(r, k)
      PROVE  /\ Sound(v, {}, {}, {k})
             /\ ReachesCaller(v, r, k, to)
  <2>1. v = Taken(w, from, to) /\ r = Head(w.msg[<<from, to>>])  OBVIOUS
  <2> HIDE DEF r, v
  <2> QED BY ONLY <1>4, <2>1, from \in Cores, to \in Cores, w.msg[<<from, to>>] # <<>>,
                  Sound(w, {}, {}, {}), CallTaken
<1>5. r = ReleaseAsk => Sound(v, {}, {to}, {})  BY ReleaseTaken
<1> HIDE DEF r, v
<1>6. \A c : \A d \in Cores : d \in {} <=> d \in {c} /\ d # c  OBVIOUS
<1>7. CASE r = CreateAsk
  <2>1. u \in Create(v, to)  BY <1>0, <1>7 DEF Runs, CreateAsk, Request
  <2>2. /\ Sound(v, {to}, {}, {}) /\ to < v.shared.size
        /\ v.control.op = "start" /\ v.service[to].state = "none"
    BY <1>3, <1>7
  <2> QED BY <1>6, <2>1, <2>2, CreateSound
<1>8. CASE r = StopAsk
  <2>1. u \in Stop(v, to)  BY <1>0, <1>8 DEF Runs, StopAsk, Request
  <2>2. StopAsk # Broken  BY RequestFacts
  <2>3. /\ Sound(v, {to}, {}, {}) /\ v.control.op = "stop"
        /\ v.service[to].state = "failed" => v.control.failed
    BY <1>3, <1>8, <2>2
  <2> QED BY <1>6, <2>1, <2>3, StopSound
<1>9. CASE r \in {Fine, Broken}
  <2> DEFINE failed == r.arg = 1
             debts == {from}
             rest == {}
  <2>1. r.kind = "joined" /\ (failed <=> r = Broken)
    BY <1>9 DEF Fine, Broken, Request
  <2>2. u = Joined(v, from, failed) /\ failed \in BOOLEAN  BY <1>0, <2>1
  <2>3. r \notin {CreateAsk, StopAsk}  BY <1>9, RequestFacts
  <2>4. /\ Sound(v, debts, {}, {}) /\ (v.control.op = "stop" => v.service[from].state # "alive")
        /\ v.control.op = "stop" /\ v.service[from].state = "failed" => failed \/ v.control.failed
    <3>1. /\ Sound(v, {from}, {}, {})
          /\ v.service = w.service /\ v.control = w.control
          /\ w.control.op = "stop" /\ r # StopAsk => w.service[from].state # "alive"
          /\ w.control.op = "stop" /\ w.service[from].state = "failed" /\ r # Broken
                 => w.control.failed
      BY <1>3, <1>9, <2>3
    <3> QED BY <2>1, <2>3, <3>1
  <2>5. from \in debts /\ \A d \in Cores : d \in rest <=> d \in debts /\ d # from
    OBVIOUS
  <2> HIDE DEF failed, debts, rest
  <2>6. Sound(u, rest, {}, {})
    BY ONLY <2>2, <2>4, <2>5, from \in Cores, JoinedSound
  <2> QED BY <2>6 DEF rest
<1>11. CASE r = ReleaseAsk
  <2>1. u = Release(v, to, to)  BY <1>0, <1>11 DEF Runs, ReleaseAsk, Request
  <2> QED BY <1>5, <1>11, <2>1, ReleaseSound
<1>12. ASSUME NEW k \in Callers, r = CallAsk(k) PROVE Sound(u, {}, {}, {}) \/ CrashOK(u)
  <2>1. u \in Invoke(v, to, k)  BY <1>0, <1>12 DEF Runs, CallAsk, Request
  <2>2. Sound(v, {}, {}, {k}) /\ v.call[k].to = to
    BY <1>4, <1>12 DEF OfCall, ReachesCaller
  <2> QED BY <2>1, <2>2, InvokeSound
<1>13. ASSUME NEW k \in Callers, r = ReturnAsk(k) PROVE Sound(u, {}, {}, {}) \/ CrashOK(u)
  <2>1. Sound(v, {}, {}, {k}) /\ v.call[k].from = to
    BY <1>4, <1>13 DEF OfCall, ReachesCaller
  <2>2. u = Returned(v, to, k)
    BY <1>0, <1>13, <2>1 DEF Returned, ReturnAsk, Request
  <2> QED BY <2>1, <2>2, ReturnedSound
<1> QED BY <1>2, <1>7, <1>8, <1>9, <1>11, <1>12, <1>13 DEF OfCall
-----------------------------------------------------------------------------
(* stop() of the service resolves: sharded lets go of the instance.        *)
Ending(w, c, s, owes, spare) ==
    /\ w.service[c].state = "stopping"
    /\ w.shared.kind = "gated" => w.service[c].calls = {}
    /\ s \in {"failed", "stopped", "freeing"}
    /\ s = "stopped" => w.shared.freed[c]
    /\ s = "freeing" => ~w.shared.freed[c]
    /\ \A d \in Cores : d \in owes <=> d = c /\ s # "freeing"
    /\ \A d \in Cores : d \in spare <=> d = c

LEMMA EndedSound ==
    ASSUME NEW w, Sound(w, {}, {}, {}), NEW c \in Cores, NEW s, NEW owes, NEW spare,
           Ending(w, c, s, owes, spare), NEW v, v = WithState(w, c, s)
    PROVE  Sound(v, owes, spare, {}) /\ v.control = w.control /\ v.service[c].state = s
<1> USE DEF Ending
<1>0. /\ w \in Worlds /\ w.loan \in Loans /\ w.shared.freed[c] \in BOOLEAN
      /\ s \in States /\ w.shared.crashed = "no"
  BY DEF Sound, Worlds, SharedStates, States
<1>1. /\ v \in Worlds /\ v.shared = w.shared /\ v.control = w.control /\ v.call = w.call
      /\ v.loan = w.loan /\ v.msg = w.msg
      /\ v.service[c].state = s /\ v.service[c].refs = w.service[c].refs
      /\ v.service[c].calls = w.service[c].calls /\ v.service[c].stops = w.service[c].stops
      /\ \A d \in Cores : d # c => v.service[d] = w.service[d]
  BY <1>0, StateWorld
<1>2. /\ \A p, x : In(v, p, x) = In(w, p, x)
      /\ Bare(v) <=> Bare(w)
      /\ \A d : Lent(v, d) = Lent(w, d)
  BY <1>1, SameMessages
<1>3. RefsExact(w, c, {}) /\ Phase(w, c) /\ Turn(w, c, {})  BY DEF Sound, CoreSound
<1>4. c \in w.control.left /\ w.control.op = "stop"  BY WorkedAt
<1>5. RefsExact(v, c, spare) /\ v.service[c].refs > 0
  <2> DEFINE n == Inside(w, c)
             l == Lent(w, c)
  <2>1. n \in Nat /\ l \in Nat  BY <1>0, CoreNumbers
  <2>2. Own(w, c) = 1 /\ Own(v, c) = 0 /\ Indicator(c \in {}) = 0 /\ Indicator(c \in spare) = 1
    BY <1>1 DEF Own, Indicator
  <2>3. w.service[c].refs = Own(w, c) + n + l + Indicator(c \in {})
    BY <1>3 DEF RefsExact
  <2>4. Inside(v, c) = n /\ Lent(v, c) = l  BY <1>1, <1>2 DEF Inside
  <2>5. v.service[c].refs = w.service[c].refs  BY <1>1
  <2> HIDE DEF n, l
  <2>6. v.service[c].refs = Own(v, c) + Inside(v, c) + Lent(v, c) + Indicator(c \in spare)
    BY ONLY <2>1, <2>2, <2>3, <2>4, <2>5
  <2>7. v.service[c].refs > 0  BY ONLY <2>1, <2>2, <2>3, <2>5
  <2> QED BY <2>6, <2>7 DEF RefsExact
<1>6. Phase(v, c)
  <2> DEFINE x == v.service[c]
             tracked == v.shared.kind = "tracked"
             freed == v.shared.freed[c]
             bare == Bare(v)
  <2>1. /\ ~v.shared.slot[c] /\ x.stops = 1 /\ c < v.shared.size
        /\ tracked => ~freed \/ bare
        /\ ~tracked => freed
    BY <1>1, <1>2, <1>3 DEF Phase
  <2>2. /\ s = "stopped" => freed
        /\ s = "freeing" => ~freed
        /\ v.shared.kind = "gated" => x.calls = {}
        /\ x.state = s /\ x.refs > 0
    BY <1>1, <1>5
  <2> QED BY ONLY <2>1, <2>2, s \in {"failed", "stopped", "freeing"} DEF Phase
<1>7. Turn(v, c, owes)
  <2> DEFINE n1 == In(w, <<0, c>>, CreateAsk)
             n2 == In(w, <<0, c>>, StopAsk)
             n3 == In(w, <<c, 0>>, Fine)
             n4 == In(w, <<c, 0>>, Broken)
             i == Indicator(s \in {"stopping", "freeing", "lost"})
             o == Indicator(c \in owes)
             l == Indicator(c \in w.control.left)
  <2>1. n1 \in Nat /\ n2 \in Nat /\ n3 \in Nat /\ n4 \in Nat  BY <1>0, CoreNumbers
  <2>2. Tokens(w, c) = n1 + n2 + 1 + n3 + n4
    <3>1. Indicator(w.service[c].state \in {"stopping", "freeing", "lost"}) = 1
      BY DEF Indicator
    <3> QED BY <3>1 DEF Tokens
  <2>3. Tokens(v, c) = n1 + n2 + i + n3 + n4  BY <1>1, <1>2 DEF Tokens
  <2>4. i + o = 1 /\ i \in Nat /\ o \in Nat
    <3>1. CASE s = "freeing"  BY <3>1 DEF Indicator
    <3>2. CASE s # "freeing"  BY <3>2 DEF Indicator
    <3> QED BY <3>1, <3>2
  <2>5. Tokens(w, c) + Indicator(c \in {}) = l  BY <1>3 DEF Turn
  <2>6. Indicator(c \in {}) = 0 /\ l = 1  BY <1>4 DEF Indicator
  <2>7. Tokens(v, c) + o = l /\ n1 = 0
    <3> HIDE DEF n1, n2, n3, n4, i, o, l
    <3>1. n1 + n2 + n3 + n4 + 1 = 1  BY ONLY <2>1, <2>2, <2>5, <2>6
    <3>2. n1 + n2 + n3 + n4 + i + o = 1  BY ONLY <2>1, <2>4, <3>1
    <3> QED BY ONLY <2>1, <2>3, <2>4, <2>6, <3>1, <3>2
  <2>8. /\ Tokens(v, c) + Indicator(c \in owes) = Indicator(c \in v.control.left)
        /\ In(v, <<0, c>>, CreateAsk) = 0
        /\ v.control.op = "stop" /\ v.service[c].state \notin {"alive"}
        /\ v.service[c].state = "failed" => c \in owes
    BY <1>1, <1>2, <1>4, <2>7
  <2> QED BY ONLY <2>8 DEF Turn
<1>8. AllBut(w, v, c)  BY <1>0, <1>1 DEF AllBut
<1>9. CallsSound(v, {})
  <2>1. CallsSound(w, {})  BY DEF Sound, CallsSound
  <2>2. \A d \in Cores : v.service[d].calls = w.service[d].calls  BY <1>1
  <2> QED BY ONLY <1>1, <2>1, <2>2, CallsKept
<1>10. SameDebts({}, owes, c) /\ SameDebts({}, spare, c)  BY DEF SameDebts
<1>11. CoreSound(v, c, owes, spare)  BY <1>5, <1>6, <1>7 DEF CoreSound
<1>12. Sound(v, owes, spare, {})
  BY ONLY <1>8, <1>9, <1>10, <1>11, Sound(w, {}, {}, {}), c \in Cores, OneCore
<1> QED BY <1>1, <1>12

Ended(w, c, fails) ==
    IF fails THEN Answered(Release(WithState(w, c, "failed"), c, c), c, TRUE)
    ELSE IF w.shared.freed[c]
         THEN Answered(Release(WithState(w, c, "stopped"), c, c), c, FALSE)
         ELSE Release(WithState(w, c, "freeing"), c, c)

LEMMA ServiceStopsSound ==
    ASSUME NEW w, Sound(w, {}, {}, {}), NEW c \in Cores, w.service[c].state = "stopping",
           w.shared.kind = "gated" => w.service[c].calls = {},
           NEW fails \in BOOLEAN, NEW u, u = Ended(w, c, fails)
    PROVE  Sound(u, {}, {}, {}) \/ CrashOK(u)
<1> DEFINE spare == {c}
           nobody == {}
           s == IF fails THEN "failed" ELSE IF w.shared.freed[c] THEN "stopped" ELSE "freeing"
           owes == IF s = "freeing" THEN {} ELSE {c}
           v == WithState(w, c, s)
           x == Release(v, c, c)
<1>1. /\ \A d \in Cores : d \in spare <=> d = c
      /\ \A d \in Cores : d \in owes <=> d = c /\ s # "freeing"
      /\ \A d \in Cores : d \in nobody <=> d \in owes /\ d # c
      /\ s \in {"failed", "stopped", "freeing"}
      /\ s = "stopped" => w.shared.freed[c]
      /\ s = "freeing" => ~w.shared.freed[c]
      /\ s = "failed" <=> fails
  OBVIOUS
<1>2. u = IF s = "freeing" THEN x ELSE Answered(x, c, fails)  BY DEF Ended
<1>3. s = "freeing" => owes = nobody  OBVIOUS
<1> HIDE DEF spare, owes, s, nobody
<1>a. v = WithState(w, c, s) /\ x = Release(v, c, c)  OBVIOUS
<1> HIDE DEF v, x
<1>4. Sound(v, owes, spare, {}) /\ v.control = w.control /\ v.service[c].state = s
  <2>1. /\ c \in Cores /\ w.service[c].state = "stopping"
        /\ w.shared.kind = "gated" => w.service[c].calls = {}
    OBVIOUS
  <2>2. Ending(w, c, s, owes, spare)  BY ONLY <1>1, <2>1 DEF Ending
  <2> QED BY ONLY <1>a, <2>1, <2>2, Sound(w, {}, {}, {}), EndedSound
<1>5. w.control.op = "stop"  BY WorkedAt
<1>6. Sound(v, owes, {c}, {})  BY <1>4 DEF spare
<1>7. Released(v, x, c) /\ (Sound(x, owes, {}, {}) \/ CrashOK(x))
  BY <1>6, <1>a, ReleaseSound
<1>8. CASE s = "freeing"  BY <1>2, <1>3, <1>7, <1>8 DEF nobody
<1>9. CASE s # "freeing"
  <2>1. u = Answered(x, c, fails) /\ c \in owes  BY <1>1, <1>2, <1>9
  <2>2. /\ x \in Worlds /\ x.control.op = "stop"
        /\ x.service[c].state \in {s, "dead", "lost", "stopped"}
    BY <1>4, <1>5, <1>7 DEF Released
  <2>3. x.service[c].state # "alive" /\ (x.service[c].state = "failed" => fails)
    BY <1>1, <2>2
  <2>4. CASE Sound(x, owes, {}, {})
    <3>1. Sound(u, nobody, {}, {})
      BY ONLY <1>1, <2>1, <2>3, <2>4, fails \in BOOLEAN, c \in Cores, AnsweredSound
    <3> QED BY <3>1 DEF nobody
  <2>5. CASE CrashOK(x)  BY <2>1, <2>2, <2>5, AnsweredWorld, CrashKept
  <2> QED BY <1>7, <2>4, <2>5
<1> QED BY <1>8, <1>9
-----------------------------------------------------------------------------
(* A call begins: it has no place yet.                                     *)
WithCall(w, k, x) == [w EXCEPT !.call[k] = x]

LEMMA OpenedSound ==
    ASSUME NEW w, Sound(w, {}, {}, {}), NEW k \in Callers, w.call[k] = NoCall,
           NEW x \in CallStates, NEW v, v = WithCall(w, k, x)
    PROVE  Sound(v, {}, {}, {k}) /\ v.call[k] = x
<1> DEFINE g == [w.call EXCEPT ![k] = x]
<1>0. w \in Worlds /\ w.call \in [Callers -> CallStates] /\ CallSound(w, k, {})
  BY DEF Sound, Worlds
<1>1. g \in [Callers -> CallStates] /\ g[k] = x /\ \A j \in Callers : j # k => g[j] = w.call[j]
  BY <1>0
<1>2. v = [w EXCEPT !.call = g]  BY <1>0 DEF WithCall, Worlds
<1> HIDE DEF g
<1>3. /\ v \in Worlds /\ v.shared = w.shared /\ v.service = w.service /\ v.control = w.control
      /\ v.loan = w.loan /\ v.msg = w.msg /\ v.call = g
  BY <1>0, <1>1, <1>2 DEF Worlds
<1>4. \A p, r : In(v, p, r) = In(w, p, r)  BY <1>3, SameMessages
<1>5. /\ v.shared.crashed = "no" /\ ControlSound(v) /\ Placed(v)
      /\ \A d \in Cores : CoreSound(v, d, {}, {})
  BY ONLY <1>3, <1>4, Sound(w, {}, {}, {}), OnlyCalls
<1>6. CallSound(v, k, {k})
  <2>1. w.call[k].state = "idle"  BY DEF NoCall
  <2>2. /\ \A c \in Cores : k \notin w.service[c].calls
        /\ \A p \in Pairs : In(w, p, CallAsk(k)) = 0 /\ In(w, p, ReturnAsk(k)) = 0
    BY <1>0, <2>1 DEF CallSound, Indicator
  <2>3. /\ \A c \in Cores : k \notin v.service[c].calls
        /\ \A p \in Pairs : In(v, p, CallAsk(k)) = 0 /\ In(v, p, ReturnAsk(k)) = 0
    BY <1>3, <1>4, <2>2
  <2> QED BY <2>3 DEF CallSound, Indicator
<1>7. ASSUME NEW j \in Callers, j # k PROVE CallSound(v, j, {k})
  <2>1. CallSound(w, j, {}) /\ v.call[j] = w.call[j]  BY <1>1, <1>3, <1>7 DEF Sound
  <2>2. j \in {k} <=> j \in {}  BY <1>7
  <2> QED BY ONLY <1>3, <1>4, <2>1, <2>2, CallKept
<1> QED BY ONLY <1>1, <1>3, <1>5, <1>6, <1>7 DEF Sound

LEMMA CallSentSound ==
    ASSUME NEW w, NEW k \in Callers, Sound(w, {}, {}, {k}),
           NEW from \in Cores, NEW to \in Cores, from # to,
           w.call[k] = [state |-> "sent", from |-> from, to |-> to],
           NEW v, v = Sent(w, from, to, CallAsk(k))
    PROVE  Sound(v, {}, {}, {})
<1> DEFINE p == <<from, to>>
           r == CallAsk(k)
<1>0. w \in Worlds /\ p \in Pairs /\ p[1] = from /\ p[2] = to /\ r \in Requests
  BY RequestFacts DEF Sound, Pairs
<1>1. /\ \A d \in Cores : k \notin w.service[d].calls
      /\ \A q \in Pairs : In(w, q, CallAsk(k)) = 0 /\ In(w, q, ReturnAsk(k)) = 0
  BY DEF Sound, CallSound, Indicator
<1>2. /\ v \in Worlds /\ v.shared = w.shared /\ v.service = w.service
      /\ v.control = w.control /\ v.call = w.call /\ v.loan = w.loan
      /\ \A q \in Pairs : q # p => v.msg[q] = w.msg[q]
      /\ More(w, v, p, r)
  BY <1>0, SentWorld DEF More
<1>3. /\ In(v, p, r) = In(w, p, r) + 1
      /\ \A q \in Pairs : \A x : q # p \/ x # r => In(v, q, x) = In(w, q, x)
  <2> HIDE DEF p, r
  <2> QED BY ONLY <1>0, <1>2, MoreThere
<1>4. /\ r \notin {CreateAsk, StopAsk, Fine, Broken, ReleaseAsk}
      /\ \A j : r # ReturnAsk(j) /\ (j # k => r # CallAsk(j))
  BY RequestFacts
<1>5. /\ v.shared.crashed = "no" /\ ControlSound(v) /\ Placed(v)
      /\ \A d \in Cores : CoreSound(v, d, {}, {})
  <2>1. \A q \in Pairs : /\ \A x \in {CreateAsk, StopAsk, Fine, Broken, ReleaseAsk} :
                                In(v, q, x) = In(w, q, x)
                         /\ q[1] = q[2] => v.msg[q] = w.msg[q]
    BY <1>0, <1>2, <1>3, <1>4
  <2> QED BY ONLY <1>2, <2>1, Sound(w, {}, {}, {k}), OnlyCalls
<1>6. CallSound(v, k, {})
  <2>1. /\ v.call[k].state = "sent" /\ <<v.call[k].from, v.call[k].to>> = p  BY <1>2
  <2>2. ASSUME NEW q \in Pairs
        PROVE  In(v, q, CallAsk(k)) = Indicator(q = p) /\ In(v, q, ReturnAsk(k)) = 0
    <3>1. In(v, q, ReturnAsk(k)) = 0  BY <1>1, <1>3, <1>4
    <3>2. CASE q = p  BY <1>0, <1>1, <1>3, <3>1, <3>2 DEF Indicator
    <3>3. CASE q # p  BY <1>1, <1>3, <3>1, <3>3 DEF Indicator
    <3> QED BY <3>2, <3>3
  <2>3. \A d \in Cores : k \notin v.service[d].calls  BY <1>1, <1>2
  <2> HIDE DEF p
  <2> QED BY ONLY <2>1, <2>2, <2>3 DEF CallSound, Indicator
<1>7. ASSUME NEW j \in Callers, j # k PROVE CallSound(v, j, {})
  <2>1. CallSound(w, j, {k}) /\ v.call[j] = w.call[j]  BY <1>2 DEF Sound
  <2>2. \A q \in Pairs : /\ In(v, q, CallAsk(j)) = In(w, q, CallAsk(j))
                         /\ In(v, q, ReturnAsk(j)) = In(w, q, ReturnAsk(j))
    BY <1>3, <1>4, <1>7
  <2>3. /\ \A d \in Cores : j \in v.service[d].calls <=> j \in w.service[d].calls
        /\ j \in {} <=> j \in {k}
    BY <1>2, <1>7
  <2> QED BY ONLY <2>1, <2>2, <2>3, CallKept
<1> QED BY ONLY <1>2, <1>5, <1>6, <1>7 DEF Sound

LEMMA CallSubmitted ==
    ASSUME NEW w, Sound(w, {}, {}, {}), NEW k \in Callers, w.call[k] = NoCall,
           NEW from \in Cores, NEW to \in Cores,
           NEW v, v = WithCall(w, k, [state |-> "sent", from |-> from, to |-> to]),
           NEW u, u \in Submit(v, from, to, CallAsk(k))
    PROVE  Sound(u, {}, {}, {}) \/ CrashOK(u)
<1> DEFINE x == [state |-> "sent", from |-> from, to |-> to]
<1>1. x \in CallStates  BY DEF CallStates
<1>2. Sound(v, {}, {}, {k}) /\ v.call[k] = x
  <2>1. v = WithCall(w, k, x)  OBVIOUS
  <2> HIDE DEF x
  <2> QED BY ONLY <1>1, <2>1, Sound(w, {}, {}, {}), k \in Callers, w.call[k] = NoCall, OpenedSound
<1>3. CASE from = to
  <2>1. u \in Invoke(v, to, k)  BY <1>3 DEF Submit, Runs, CallAsk, Request
  <2>2. v.call[k].to = to  BY <1>2
  <2> QED BY ONLY <1>2, <2>1, <2>2, to \in Cores, k \in Callers, InvokeSound
<1>4. CASE from # to
  <2>1. u = Sent(v, from, to, CallAsk(k))  BY <1>4 DEF Submit
  <2> QED BY <1>2, <1>4, <2>1, CallSentSound
<1> QED BY <1>3, <1>4

(* A method ends.                                                          *)
Left1(w, c, k) == [w EXCEPT !.service[c].calls = @ \ {k}]

LEMMA LeftWorld ==
    ASSUME NEW w \in Worlds, NEW c \in Cores, NEW k, NEW v, v = Left1(w, c, k)
    PROVE  /\ v \in Worlds /\ v.shared = w.shared /\ v.control = w.control /\ v.call = w.call
           /\ v.loan = w.loan /\ v.msg = w.msg
           /\ v.service[c].state = w.service[c].state /\ v.service[c].refs = w.service[c].refs
           /\ v.service[c].calls = w.service[c].calls \ {k}
           /\ v.service[c].stops = w.service[c].stops
           /\ \A d \in Cores : d # c => v.service[d] = w.service[d]
<1> DEFINE x == [w.service[c] EXCEPT !.calls = @ \ {k}]
<1>1. w.service \in [Cores -> Instances] /\ w.service[c] \in Instances
  BY DEF Worlds
<1>2. /\ x \in Instances /\ x.state = w.service[c].state /\ x.refs = w.service[c].refs
      /\ x.calls = w.service[c].calls \ {k} /\ x.stops = w.service[c].stops
  BY <1>1 DEF Instances
<1>3. v = WithService(w, c, x)  BY <1>1 DEF Left1, WithService, Worlds
<1> HIDE DEF x
<1> QED BY ONLY <1>2, <1>3, c \in Cores, w \in Worlds, ServiceWorld

LEMMA InsideFacts ==
    ASSUME NEW w, Sound(w, {}, {}, {}), NEW k \in Callers, w.call[k].state = "inside",
           NEW c, c = w.call[k].to
    PROVE  /\ c \in Cores /\ k \in w.service[c].calls
           /\ w.service[c].state = "dead" => w.shared.kind = "bare"
<1>0. w \in Worlds /\ w.call[k] \in CallStates /\ w.shared \in SharedStates
  BY DEF Sound, Worlds
<1>1. c \in Cores  BY <1>0 DEF CallStates
<1>2. k \in w.service[c].calls  BY <1>1 DEF Sound, CallSound
<1>3. ASSUME w.service[c].state = "dead", w.shared.kind # "bare" PROVE FALSE
  <2>1. RefsExact(w, c, {}) /\ Phase(w, c)  BY <1>1 DEF Sound, CoreSound
  <2>2. w.shared.kind \in {"tracked", "gated"}
    BY <1>0, <1>3, ShardedAssumption DEF SharedStates
  <2>3. w.shared.kind = "tracked"  BY <1>2, <1>3, <2>1, <2>2 DEF Phase
  <2>4. w.service[c].refs = 0  BY <1>3, <2>1 DEF Phase
  <2>5. Inside(w, c) = Cardinality(w.service[c].calls)  BY <2>3 DEF Inside
  <2> DEFINE n == Inside(w, c)
             o == Own(w, c)
             l == Lent(w, c)
             z == Indicator(c \in {})
  <2>6. n \in Nat /\ o \in Nat /\ l \in Nat /\ z \in Nat
    BY <1>0, <1>1, CoreNumbers DEF Indicator
  <2>7. 0 = o + n + l + z  BY <2>1, <2>4 DEF RefsExact
  <2>8. n = 0
    <3> HIDE DEF n, o, l, z
    <3> QED BY ONLY <2>6, <2>7
  <2>9. IsFiniteSet(w.service[c].calls)  BY <1>0, <1>1, CoreNumbers
  <2> QED BY <1>2, <2>5, <2>8, <2>9, FS_EmptySet
<1> QED BY <1>1, <1>2, <1>3

LEMMA LeftSound ==
    ASSUME NEW w, Sound(w, {}, {}, {}), NEW k \in Callers, w.call[k].state = "inside",
           NEW c, c = w.call[k].to, NEW v, v = Left1(w, c, k),
           NEW spare, \A d \in Cores : d \in spare <=> d = c /\ w.shared.kind = "tracked"
    PROVE  Sound(v, {}, spare, {k}) /\ v.call = w.call
<1>0. w \in Worlds /\ w.shared.crashed = "no" /\ c \in Cores /\ k \in w.service[c].calls
  BY InsideFacts DEF Sound
<1>1. /\ v \in Worlds /\ v.shared = w.shared /\ v.control = w.control /\ v.call = w.call
      /\ v.loan = w.loan /\ v.msg = w.msg
      /\ v.service[c].state = w.service[c].state /\ v.service[c].refs = w.service[c].refs
      /\ v.service[c].calls = w.service[c].calls \ {k}
      /\ v.service[c].stops = w.service[c].stops
      /\ \A d \in Cores : d # c => v.service[d] = w.service[d]
  BY ONLY <1>0, v = Left1(w, c, k), LeftWorld
<1>2. /\ \A p, x : In(v, p, x) = In(w, p, x)
      /\ Bare(v) <=> Bare(w)
      /\ \A d : Lent(v, d) = Lent(w, d)
  BY ONLY <1>1, SameMessages
<1>3. RefsExact(w, c, {}) /\ Phase(w, c) /\ Turn(w, c, {})
  BY <1>0 DEF Sound, CoreSound
<1>4. RefsExact(v, c, spare)
  <2> DEFINE n == Inside(w, c)
             m == Inside(v, c)
             o == Own(w, c)
             l == Lent(w, c)
             z == Indicator(c \in spare)
  <2>1. n \in Nat /\ m \in Nat /\ o \in Nat /\ l \in Nat  BY <1>0, <1>1, CoreNumbers
  <2>2. n = m + z /\ z \in Nat
    <3>1. CASE w.shared.kind = "tracked"
      <4>1. IsFiniteSet(w.service[c].calls) /\ Cardinality(w.service[c].calls) \in Nat
        BY <1>0, CoreNumbers
      <4>2. Cardinality(v.service[c].calls) = Cardinality(w.service[c].calls) - 1
        BY ZenonT(60), <1>0, <1>1, <4>1, FS_RemoveElement
      <4>3. n = Cardinality(w.service[c].calls) /\ m = Cardinality(v.service[c].calls)
        BY <1>1, <3>1 DEF Inside
      <4>4. z = 1  BY <1>0, <3>1 DEF Indicator
      <4> HIDE DEF n, m, z
      <4> QED BY ONLY <4>1, <4>2, <4>3, <4>4
    <3>2. CASE w.shared.kind # "tracked"
      <4>1. n = 0 /\ m = 0  BY <1>1, <3>2 DEF Inside
      <4>2. z = 0  BY <1>0, <3>2 DEF Indicator
      <4> HIDE DEF n, m, z
      <4> QED BY ONLY <4>1, <4>2
    <3> QED BY <3>1, <3>2
  <2>3. w.service[c].refs = o + n + l + Indicator(c \in {}) /\ Indicator(c \in {}) = 0
    BY <1>3 DEF RefsExact, Indicator
  <2>4. Own(v, c) = o /\ Lent(v, c) = l  BY <1>1, <1>2 DEF Own
  <2> HIDE DEF n, m, o, l, z
  <2>5. w.service[c].refs = o + m + l + z  BY ONLY <2>1, <2>2, <2>3
  <2>6. v.service[c].refs = Own(v, c) + Inside(v, c) + Lent(v, c) + Indicator(c \in spare)
    BY ONLY <1>1, <2>4, <2>5 DEF m, z
  <2> QED BY <2>6 DEF RefsExact
<1>5. Phase(v, c)
  <2>1. w.service[c].calls = {} => v.service[c].calls = {}  BY <1>1
  <2> QED BY ONLY <1>1, <1>2, <1>3, <2>1 DEF Phase
<1>6. Turn(v, c, {})
  <2>1. Tokens(v, c) = Tokens(w, c)  BY ONLY <1>1, <1>2 DEF Tokens
  <2> QED BY ONLY <1>1, <1>2, <1>3, <2>1 DEF Turn
<1>7. AllBut(w, v, c)  BY <1>0, <1>1 DEF AllBut
<1>8. SameDebts({}, {}, c) /\ SameDebts({}, spare, c)  BY DEF SameDebts
<1>9. CallsSound(v, {k})
  <2> SUFFICES ASSUME NEW j \in Callers PROVE CallSound(v, j, {k})
    BY DEF CallsSound
  <2>1. CallSound(w, j, {})  BY DEF Sound
  <2>2. CASE j = k
    <3>1. /\ \A d \in Cores : k \notin v.service[d].calls
          /\ \A q \in Pairs : In(v, q, CallAsk(k)) = 0 /\ In(v, q, ReturnAsk(k)) = 0
      <4>1. /\ \A d \in Cores : k \in w.service[d].calls <=> d = c
            /\ \A q \in Pairs : In(w, q, CallAsk(k)) = 0 /\ In(w, q, ReturnAsk(k)) = 0
        BY <2>1, <2>2 DEF CallSound, Indicator
      <4>2. ASSUME NEW d \in Cores PROVE k \notin v.service[d].calls
        <5>1. CASE d = c  BY ONLY <1>1, <5>1
        <5>2. CASE d # c  BY ONLY <1>1, <4>1, <5>2, d \in Cores
        <5> QED BY <5>1, <5>2
      <4>3. \A q \in Pairs : In(v, q, CallAsk(k)) = 0 /\ In(v, q, ReturnAsk(k)) = 0
        BY ONLY <1>2, <4>1
      <4> QED BY <4>2, <4>3
    <3> QED BY <2>2, <3>1 DEF CallSound, Indicator
  <2>3. CASE j # k
    <3>1. \A d \in Cores : j \in v.service[d].calls <=> j \in w.service[d].calls
      BY <1>0, <1>1, <2>3
    <3>2. v.call[j] = w.call[j] /\ (j \in {k} <=> j \in {})  BY <1>1, <2>3
    <3> QED BY ONLY <1>2, <2>1, <3>1, <3>2, CallKept
  <2> QED BY <2>2, <2>3
<1>10. CoreSound(v, c, {}, spare)  BY <1>4, <1>5, <1>6 DEF CoreSound
<1>11. Sound(v, {}, spare, {k})
  BY ONLY <1>0, <1>7, <1>8, <1>9, <1>10, Sound(w, {}, {}, {}), OneCore
<1> QED BY <1>1, <1>11

CallEnded(w, k) ==
    LET c == w.call[k].to
        v == Left1(w, c, k)
    IN  CASE w.service[c].state = "dead" -> Crash(w, "dangling")
          [] w.service[c].state # "dead" /\ w.shared.kind = "tracked" ->
                Returned(Release(v, c, c), c, k)
          [] OTHER -> Returned(v, c, k)

LEMMA CallEndsSound ==
    ASSUME NEW w, Sound(w, {}, {}, {}), NEW k \in Callers, w.call[k].state = "inside",
           NEW u, u = CallEnded(w, k)
    PROVE  Sound(u, {}, {}, {}) \/ CrashOK(u)
<1> DEFINE c == w.call[k].to
           v == Left1(w, c, k)
           x == Release(v, c, c)
<1>0. w \in Worlds  BY DEF Sound
<1>1. /\ c \in Cores
      /\ w.service[c].state = "dead" => w.shared.kind = "bare"
  BY InsideFacts
<1>2. CASE w.service[c].state = "dead"
  <2>1. u = Crash(w, "dangling")  BY <1>2 DEF CallEnded
  <2>2. /\ u.service = w.service /\ u.control = w.control /\ u.loan = w.loan
        /\ u.shared.kind = w.shared.kind /\ u.shared.size = w.shared.size
        /\ u.shared.slot = w.shared.slot /\ u.shared.crashed = "dangling"
    <3>1. "dangling" \in Crashes  BY DEF Crashes
    <3> QED BY <1>0, <2>1, <3>1, CrashWorld
  <2>3. Settled(w)  BY SoundSettled
  <2>4. Settled(u)  BY ONLY <2>2, <2>3, SettledKept
  <2> QED BY <1>1, <1>2, <2>2, <2>4 DEF CrashOK, CrashesRight
<1>3. CASE w.service[c].state # "dead" /\ w.shared.kind = "tracked"
  <2>1. u = Returned(x, c, k)  BY <1>3 DEF CallEnded
  <2>2. Sound(v, {}, {c}, {k}) /\ v.call = w.call
    <3>1. \A d \in Cores : d \in {c} <=> d = c /\ w.shared.kind = "tracked"  BY <1>3
    <3> QED BY <3>1, LeftSound
  <2>a. x = Release(v, c, c) /\ c = w.call[k].to  OBVIOUS
  <2> HIDE DEF x, v, c
  <2>3. Released(v, x, c) /\ (Sound(x, {}, {}, {k}) \/ CrashOK(x))
    BY <1>1, <2>2, <2>a, ReleaseSound
  <2>4. x \in Worlds /\ x.call[k].to = c  BY <2>2, <2>3, <2>a DEF Released
  <2>5. CASE Sound(x, {}, {}, {k})  BY <1>1, <2>1, <2>4, <2>5, ReturnedSound
  <2>6. CASE CrashOK(x)
    <3>1. u.shared = x.shared /\ u.service = x.service /\ u.loan = x.loan /\ u.control = x.control
      BY <2>1, <2>4, ReturnedWorld
    <3> QED BY <2>6, <3>1, CrashKept
  <2> QED BY <2>3, <2>5, <2>6
<1>4. CASE w.service[c].state # "dead" /\ w.shared.kind # "tracked"
  <2>1. u = Returned(v, c, k)  BY <1>4 DEF CallEnded
  <2>2. Sound(v, {}, {}, {k}) /\ v.call = w.call
    <3>1. \A d \in Cores : d \in {} <=> d = c /\ w.shared.kind = "tracked"  BY <1>4
    <3> QED BY <3>1, LeftSound
  <2>3. v.call[k].to = c  BY <2>2
  <2> HIDE DEF v, c
  <2> QED BY <1>1, <2>1, <2>2, <2>3, ReturnedSound
<1> QED BY <1>2, <1>3, <1>4
-----------------------------------------------------------------------------
(* A pointer to an instance goes to another core, and is destroyed.        *)
LendTo(w, c, x) == [w EXCEPT !.loan = x, !.service[c].refs = @ + 1]

LEMMA LendWorld ==
    ASSUME NEW w \in Worlds, NEW c \in Cores, NEW x \in Loans, NEW v, v = LendTo(w, c, x)
    PROVE  /\ v \in Worlds /\ v.shared = w.shared /\ v.control = w.control /\ v.call = w.call
           /\ v.loan = x /\ v.msg = w.msg
           /\ v.service[c].state = w.service[c].state
           /\ v.service[c].refs = w.service[c].refs + 1
           /\ v.service[c].calls = w.service[c].calls
           /\ v.service[c].stops = w.service[c].stops
           /\ \A d \in Cores : d # c => v.service[d] = w.service[d]
<1> DEFINE m == w.service[c].refs + 1
           i == [w.service[c] EXCEPT !.refs = m]
           g == [w.service EXCEPT ![c] = i]
<1>1. w.service \in [Cores -> Instances] /\ w.service[c] \in Instances
  BY DEF Worlds
<1>2. m \in Int  BY <1>1 DEF Instances
<1>3. v = [w EXCEPT !.loan = x, !.service = g]
  BY <1>1 DEF LendTo, Worlds, Instances
<1> HIDE DEF m
<1>4. /\ i \in Instances /\ i.state = w.service[c].state /\ i.refs = m
      /\ i.calls = w.service[c].calls /\ i.stops = w.service[c].stops
  BY <1>1, <1>2 DEF Instances
<1> HIDE DEF i
<1>5. g \in [Cores -> Instances] /\ g[c] = i /\ \A d \in Cores : d # c => g[d] = w.service[d]
  BY <1>1, <1>4
<1> HIDE DEF g
<1>6. /\ v \in Worlds /\ v.shared = w.shared /\ v.control = w.control /\ v.call = w.call
      /\ v.loan = x /\ v.msg = w.msg /\ v.service = g
  BY <1>3, <1>5 DEF Worlds
<1> QED BY ONLY <1>4, <1>5, <1>6 DEF m

LEMMA LendSound ==
    ASSUME NEW w, Sound(w, {}, {}, {}), NEW c \in Cores, w.loan.state = "none", w.shared.slot[c],
           NEW x \in Loans, x.state = "lent", x.of = c, NEW v, v = LendTo(w, c, x)
    PROVE  Sound(v, {}, {}, {})
<1>0. w \in Worlds /\ Placed(w) /\ w.loan \in Loans  BY DEF Sound, Worlds
<1>1. /\ v \in Worlds /\ v.shared = w.shared /\ v.control = w.control /\ v.call = w.call
      /\ v.loan = x /\ v.msg = w.msg
      /\ v.service[c].state = w.service[c].state
      /\ v.service[c].refs = w.service[c].refs + 1
      /\ v.service[c].calls = w.service[c].calls
      /\ v.service[c].stops = w.service[c].stops
      /\ \A d \in Cores : d # c => v.service[d] = w.service[d]
  BY <1>0, LendWorld
<1>2. \A p, r : In(v, p, r) = In(w, p, r)  BY <1>1 DEF In
<1>3. \A q \in Pairs : In(w, q, ReleaseAsk) = 0
  <2>1. \A q \in Pairs : In(w, q, ReleaseAsk) \in Nat /\ ~(In(w, q, ReleaseAsk) > 0)
    BY <1>0, InType DEF Placed
  <2> QED BY <2>1
<1>4. ~Bare(w)  BY DEF Bare
<1>5. Placed(v)  BY <1>0, <1>1, <1>2, <1>3 DEF Placed
<1>6. ControlSound(v) /\ v.shared.crashed = "no"  BY <1>1 DEF Sound, ControlSound
<1>7. /\ \A d \in Cores : Lent(w, d) = 0
      /\ Lent(v, c) = 1
      /\ \A d \in Cores : d # c => Lent(v, d) = 0
  <2>1. <<w.loan.at, w.loan.of>> \in Pairs /\ <<x.at, x.of>> \in Pairs
    BY <1>0 DEF Pairs, Loans
  <2>2. \A d \in Cores : Lent(w, d) = 0  BY <1>3, <2>1 DEF Lent, Indicator
  <2>3. Lent(v, c) = 1
    <3>1. In(v, <<x.at, x.of>>, ReleaseAsk) = 0  BY <1>2, <1>3, <2>1
    <3> QED BY <1>1, <3>1 DEF Lent, Indicator
  <2>4. \A d \in Cores : d # c => Lent(v, d) = 0  BY <1>1 DEF Lent
  <2> QED BY <2>2, <2>3, <2>4
<1>8. ASSUME NEW d \in Cores PROVE CoreSound(v, d, {}, {})
  <2>1. RefsExact(w, d, {}) /\ Phase(w, d) /\ Turn(w, d, {})
    BY DEF Sound, CoreSound
  <2>2. Turn(v, d, {})
    <3>1. v.service[d].state = w.service[d].state  BY <1>1
    <3>2. Tokens(v, d) = Tokens(w, d)  BY ONLY <1>2, <3>1 DEF Tokens
    <3> QED BY ONLY <1>1, <1>2, <2>1, <3>1, <3>2 DEF Turn
  <2>3. CASE d # c
    <3>1. v.service[d] = w.service[d] /\ Lent(v, d) = Lent(w, d)
      BY <1>1, <1>7, <2>3
    <3>2. RefsExact(v, d, {})  BY ONLY <1>1, <2>1, <3>1 DEF RefsExact, Own, Inside
    <3>3. Phase(v, d)  BY ONLY <1>1, <1>4, <2>1, <3>1 DEF Phase
    <3> QED BY <2>2, <3>2, <3>3 DEF CoreSound
  <2>4. CASE d = c
    <3>1. RefsExact(v, d, {})
      <4> DEFINE o == Own(w, d)
                 n == Inside(w, d)
      <4>1. o \in Nat /\ n \in Nat  BY <1>0, CoreNumbers
      <4>2. w.service[d].refs = o + n + 0 + Indicator(d \in {})
        BY <1>7, <2>1 DEF RefsExact
      <4>3. Own(v, d) = o /\ Inside(v, d) = n /\ Lent(v, d) = 1 /\ Indicator(d \in {}) = 0
        BY <1>1, <1>7, <2>4 DEF Own, Inside, Indicator
      <4>4. v.service[d].refs = w.service[d].refs + 1  BY <1>1, <2>4
      <4> HIDE DEF o, n
      <4>5. v.service[d].refs = Own(v, d) + Inside(v, d) + Lent(v, d) + Indicator(d \in {})
        BY ONLY <4>1, <4>2, <4>3, <4>4
      <4> QED BY <4>5 DEF RefsExact
    <3>2. Phase(v, d)
      <4>1. w.service[d].state = "alive"  BY <2>1, <2>4 DEF Phase
      <4>2. /\ v.service[d].state = "alive" /\ v.service[d].stops = w.service[d].stops
            /\ v.shared = w.shared
        BY <1>1, <2>4, <4>1
      <4> QED BY ONLY <1>4, <2>1, <4>1, <4>2 DEF Phase
    <3> QED BY <2>2, <3>1, <3>2 DEF CoreSound
  <2> QED BY <2>3, <2>4
<1>9. ASSUME NEW k \in Callers PROVE CallSound(v, k, {})
  <2>1. CallSound(w, k, {}) /\ v.call[k] = w.call[k]  BY <1>1 DEF Sound
  <2>2. \A d \in Cores : k \in v.service[d].calls <=> k \in w.service[d].calls
    BY <1>1
  <2> QED BY ONLY <1>2, <2>1, <2>2, CallKept
<1> QED BY ONLY <1>1, <1>5, <1>6, <1>8, <1>9 DEF Sound

Dropped(w) == [w EXCEPT !.loan.state = "dropped"]

LEMMA DroppedSound ==
    ASSUME NEW w, Sound(w, {}, {}, {}), w.loan.state = "lent", NEW v, v = Dropped(w),
           NEW spare, \A d \in Cores : d \in spare <=> d = w.loan.of
    PROVE  /\ Sound(v, {}, spare, {}) /\ v.loan.of = w.loan.of /\ v.loan.at = w.loan.at
           /\ v.loan.state = "dropped" /\ (Bare(v) <=> Bare(w))
<1> DEFINE x == [w.loan EXCEPT !.state = "dropped"]
<1>0. w \in Worlds /\ Placed(w) /\ w.loan \in Loans  BY DEF Sound, Worlds
<1>1. /\ x \in Loans /\ x.state = "dropped" /\ x.of = w.loan.of /\ x.at = w.loan.at
      /\ x.wrapped = w.loan.wrapped
  BY <1>0 DEF Loans
<1>2. v = [w EXCEPT !.loan = x]  BY <1>0 DEF Dropped, Worlds
<1> HIDE DEF x
<1>3. /\ v \in Worlds /\ v.shared = w.shared /\ v.control = w.control /\ v.call = w.call
      /\ v.loan = x /\ v.msg = w.msg /\ v.service = w.service
  BY <1>0, <1>1, <1>2 DEF Worlds
<1>4. \A p, r : In(v, p, r) = In(w, p, r)  BY <1>3 DEF In
<1>5. Bare(v) <=> Bare(w)  BY <1>1, <1>3 DEF Bare
<1>6. \A q \in Pairs : In(w, q, ReleaseAsk) = 0
  <2>1. \A q \in Pairs : In(w, q, ReleaseAsk) \in Nat /\ ~(In(w, q, ReleaseAsk) > 0)
    BY <1>0, InType DEF Placed
  <2> QED BY <2>1
<1>7. Placed(v)  BY <1>0, <1>3, <1>4, <1>6 DEF Placed
<1>8. ControlSound(v) /\ v.shared.crashed = "no"  BY <1>3 DEF Sound, ControlSound
<1>9. ASSUME NEW d \in Cores PROVE CoreSound(v, d, {}, spare)
  <2>1. RefsExact(w, d, {}) /\ Phase(w, d) /\ Turn(w, d, {})
    BY DEF Sound, CoreSound
  <2>2. Lent(w, d) = Lent(v, d) + Indicator(d \in spare)
    <3>1. <<w.loan.at, w.loan.of>> \in Pairs  BY <1>0 DEF Pairs, Loans
    <3>2. In(w, <<w.loan.at, w.loan.of>>, ReleaseAsk) = 0  BY <1>6, <3>1
    <3>3. In(v, <<x.at, x.of>>, ReleaseAsk) = 0  BY <1>1, <1>4, <3>2
    <3> QED BY <1>1, <1>3, <3>2, <3>3 DEF Lent, Indicator
  <2>3. RefsExact(v, d, spare)
    <3> DEFINE o == Own(w, d)
               n == Inside(w, d)
               l == Lent(v, d)
               z == Indicator(d \in spare)
    <3>1. o \in Nat /\ n \in Nat /\ l \in Nat /\ z \in Nat
      BY <1>0, <1>3, CoreNumbers DEF Indicator
    <3>2. w.service[d].refs = o + n + Lent(w, d) + Indicator(d \in {}) /\ Indicator(d \in {}) = 0
      BY <2>1 DEF RefsExact, Indicator
    <3>3. Own(v, d) = o /\ Inside(v, d) = n /\ v.service[d].refs = w.service[d].refs
      BY <1>3 DEF Own, Inside
    <3>4. Lent(w, d) = l + z  BY <2>2
    <3> HIDE DEF o, n, l, z
    <3>5. v.service[d].refs = o + n + l + z  BY ONLY <3>1, <3>2, <3>3, <3>4
    <3>6. v.service[d].refs = Own(v, d) + Inside(v, d) + Lent(v, d) + Indicator(d \in spare)
      BY ONLY <3>3, <3>5 DEF l, z
    <3> QED BY <3>6 DEF RefsExact
  <2>4. Phase(v, d)  BY ONLY <1>3, <1>5, <2>1, InstanceKept
  <2>5. Turn(v, d, {})
    <3>1. Tokens(v, d) = Tokens(w, d)  BY ONLY <1>3, <1>4 DEF Tokens
    <3> QED BY ONLY <1>3, <1>4, <2>1, <3>1 DEF Turn
  <2> QED BY <2>3, <2>4, <2>5 DEF CoreSound
<1>10. ASSUME NEW k \in Callers PROVE CallSound(v, k, {})
  <2>1. CallSound(w, k, {}) /\ v.call[k] = w.call[k]  BY <1>3 DEF Sound
  <2>2. \A d \in Cores : k \in v.service[d].calls <=> k \in w.service[d].calls
    BY <1>3
  <2> QED BY ONLY <1>4, <2>1, <2>2, CallKept
<1>11. Sound(v, {}, spare, {})  BY ONLY <1>3, <1>7, <1>8, <1>9, <1>10 DEF Sound
<1> QED BY <1>1, <1>3, <1>5, <1>11

LEMMA ReleaseSentSound ==
    ASSUME NEW w, NEW c \in Cores, NEW spare, \A d \in Cores : d \in spare <=> d = c,
           Sound(w, {}, spare, {}),
           w.loan.state = "dropped", w.loan.of = c, w.loan.at # c,
           NEW v, v = Sent(w, w.loan.at, c, ReleaseAsk)
    PROVE  Sound(v, {}, {}, {})
<1> DEFINE p == <<w.loan.at, c>>
           r == ReleaseAsk
<1>0. /\ w \in Worlds /\ Placed(w) /\ w.loan \in Loans /\ w.loan.at \in Cores
      /\ p \in Pairs /\ p[1] = w.loan.at /\ p[2] = c /\ r \in Requests
      /\ p = <<w.loan.at, w.loan.of>>
  BY RequestFacts DEF Sound, Worlds, Loans, Pairs
<1>1. /\ v \in Worlds /\ v.shared = w.shared /\ v.service = w.service
      /\ v.control = w.control /\ v.call = w.call /\ v.loan = w.loan
      /\ \A q \in Pairs : q # p => v.msg[q] = w.msg[q]
      /\ More(w, v, p, r)
  BY <1>0, SentWorld DEF More
<1>2. /\ In(v, p, r) = In(w, p, r) + 1
      /\ \A q \in Pairs : \A x : q # p \/ x # r => In(v, q, x) = In(w, q, x)
  <2> HIDE DEF p, r
  <2> QED BY ONLY <1>0, <1>1, MoreThere
<1>3. /\ r \notin {CreateAsk, StopAsk, Fine, Broken}
      /\ \A j : r # ReturnAsk(j) /\ r # CallAsk(j)
  BY RequestFacts
<1>4. Bare(v) <=> Bare(w)  BY <1>1 DEF Bare
<1>5. Placed(v)
  <2> SUFFICES ASSUME NEW q \in Pairs
               PROVE  /\ q[1] = q[2] => v.msg[q] = <<>>
                      /\ q[1] # 0 => In(v, q, CreateAsk) = 0 /\ In(v, q, StopAsk) = 0
                      /\ q[2] # 0 => In(v, q, Fine) = 0 /\ In(v, q, Broken) = 0
                      /\ In(v, q, ReleaseAsk) > 0
                             => v.loan.state = "dropped" /\ q = <<v.loan.at, v.loan.of>>
    BY DEF Placed
  <2>1. /\ q[1] = q[2] => w.msg[q] = <<>>
        /\ q[1] # 0 => In(w, q, CreateAsk) = 0 /\ In(w, q, StopAsk) = 0
        /\ q[2] # 0 => In(w, q, Fine) = 0 /\ In(w, q, Broken) = 0
        /\ In(w, q, ReleaseAsk) > 0 => q = p
    BY <1>0 DEF Placed
  <2>2. /\ \A x \in {CreateAsk, StopAsk, Fine, Broken} : In(v, q, x) = In(w, q, x)
        /\ q # p => In(v, q, ReleaseAsk) = In(w, q, ReleaseAsk)
    BY <1>2, <1>3
  <2>3. q[1] = q[2] => v.msg[q] = w.msg[q]  BY <1>0, <1>1
  <2>4. v.loan.state = "dropped" /\ p = <<v.loan.at, v.loan.of>>  BY <1>0, <1>1
  <2> HIDE DEF p
  <2> QED BY ONLY <2>1, <2>2, <2>3, <2>4
<1>6. ControlSound(v) /\ v.shared.crashed = "no"  BY <1>1 DEF Sound, ControlSound
<1>7. ASSUME NEW d \in Cores PROVE CoreSound(v, d, {}, {})
  <2>1. /\ CoreSound(w, d, {}, spare) /\ SameInstance(w, v, d) /\ SameTurn(w, v, d)
    BY <1>1, <1>4, InstanceKept DEF Sound, SameTurn
  <2>2. RefsExact(w, d, spare) /\ Phase(w, d) /\ Turn(w, d, {})
    BY <2>1 DEF CoreSound
  <2>3. /\ In(v, <<0, d>>, CreateAsk) = In(w, <<0, d>>, CreateAsk)
        /\ In(v, <<0, d>>, StopAsk) = In(w, <<0, d>>, StopAsk)
        /\ In(v, <<d, 0>>, Fine) = In(w, <<d, 0>>, Fine)
        /\ In(v, <<d, 0>>, Broken) = In(w, <<d, 0>>, Broken)
    <3>1. <<0, d>> \in Pairs /\ <<d, 0>> \in Pairs  BY CoreFacts DEF Pairs
    <3> QED BY <1>2, <1>3, <3>1
  <2>4. Lent(v, d) = Lent(w, d) + Indicator(d \in spare)
    <3>1. CASE d = c
      <4> DEFINE i == Indicator(w.loan.state = "lent")
      <4>1. Lent(w, d) = i + In(w, p, r) /\ Lent(v, d) = i + In(v, p, r)
        BY <1>0, <1>1, <3>1 DEF Lent
      <4>2. i = 0 /\ Indicator(d \in spare) = 1 /\ In(w, p, r) \in Nat
        BY <1>0, <3>1, InType DEF Indicator
      <4>3. In(v, p, r) = In(w, p, r) + 1  BY <1>2
      <4> HIDE DEF p, i, r
      <4> QED BY ONLY <4>1, <4>2, <4>3
    <3>2. CASE d # c  BY <1>1, <3>2 DEF Lent, Indicator
    <3> QED BY <3>1, <3>2
  <2>5. RefsExact(v, d, {})
    <3> DEFINE o == Own(w, d)
               n == Inside(w, d)
               l == Lent(w, d)
               z == Indicator(d \in spare)
    <3>1. o \in Nat /\ n \in Nat /\ l \in Nat /\ z \in Nat
      BY <1>0, CoreNumbers DEF Indicator
    <3>2. w.service[d].refs = o + n + l + z  BY <2>2 DEF RefsExact
    <3>3. /\ Own(v, d) = o /\ Inside(v, d) = n /\ v.service[d].refs = w.service[d].refs
          /\ Indicator(d \in {}) = 0
      BY <1>1 DEF Own, Inside, Indicator
    <3>4. Lent(v, d) = l + z  BY <2>4
    <3> HIDE DEF o, n, l, z
    <3>5. v.service[d].refs = Own(v, d) + Inside(v, d) + Lent(v, d) + Indicator(d \in {})
      BY ONLY <3>1, <3>2, <3>3, <3>4
    <3> QED BY <3>5 DEF RefsExact
  <2>6. Phase(v, d)  BY ONLY <1>1, <1>4, <2>2, InstanceKept
  <2>7. Turn(v, d, {})  BY ONLY <1>1, <2>2, <2>3 DEF Turn, Tokens
  <2> QED BY <2>5, <2>6, <2>7 DEF CoreSound
<1>8. ASSUME NEW k \in Callers PROVE CallSound(v, k, {})
  <2>1. CallSound(w, k, {}) /\ v.call[k] = w.call[k]  BY <1>1 DEF Sound
  <2>2. \A d \in Cores : k \in v.service[d].calls <=> k \in w.service[d].calls
    BY <1>1
  <2>3. \A q \in Pairs : /\ In(v, q, CallAsk(k)) = In(w, q, CallAsk(k))
                         /\ In(v, q, ReturnAsk(k)) = In(w, q, ReturnAsk(k))
    BY <1>2, <1>3
  <2> QED BY ONLY <2>1, <2>2, <2>3, CallKept
<1> QED BY ONLY <1>1, <1>5, <1>6, <1>7, <1>8 DEF Sound

LoanDropped(w) ==
    LET v == Dropped(w)
    IN  IF w.loan.wrapped /\ w.loan.at # w.loan.of
        THEN Sent(v, w.loan.at, w.loan.of, Request("release", 0))
        ELSE Release(v, w.loan.of, w.loan.at)

LEMMA DropLoanSound ==
    ASSUME NEW w, Sound(w, {}, {}, {}), w.loan.state = "lent", NEW u, u = LoanDropped(w)
    PROVE  Sound(u, {}, {}, {}) \/ CrashOK(u)
<1> DEFINE v == Dropped(w)
           c == w.loan.of
           at == w.loan.at
           spare == {c}
<1>0. c \in Cores /\ at \in Cores  BY DEF Sound, Worlds, Loans
<1>1. /\ \A d \in Cores : d \in spare <=> d = w.loan.of
      /\ v = Dropped(w)
  OBVIOUS
<1> HIDE DEF spare, v
<1>2. /\ Sound(v, {}, spare, {}) /\ v.loan.of = c /\ v.loan.at = at
      /\ v.loan.state = "dropped" /\ (Bare(v) <=> Bare(w))
  BY ONLY <1>1, Sound(w, {}, {}, {}), w.loan.state = "lent", DroppedSound
<1>3. CASE w.loan.wrapped /\ at # c
  <2>1. u = Sent(v, at, c, ReleaseAsk)  BY <1>1, <1>3 DEF LoanDropped, ReleaseAsk
  <2>2. Sound(u, {}, {}, {})  BY <1>0, <1>1, <1>2, <1>3, <2>1, ReleaseSentSound
  <2> QED BY <2>2
<1>4. CASE ~(w.loan.wrapped /\ at # c)
  <2>1. u = Release(v, c, at)  BY <1>1, <1>4 DEF LoanDropped
  <2>2. at = c \/ Bare(v)  BY <1>2, <1>4 DEF Bare
  <2>3. Sound(v, {}, {c}, {})  BY <1>2 DEF spare
  <2> QED BY <1>0, <2>1, <2>2, <2>3, ReleaseSound
<1> QED BY <1>3, <1>4
-----------------------------------------------------------------------------
(* The fiber on core 0.                                                    *)
Begun(w, n) ==
    [w EXCEPT !.shared.size = n, !.service = [c \in Cores |-> NoInstance],
              !.control.op = "start", !.control.starts = @ + 1, !.control.result = "none"]

LEMMA StartSound ==
    ASSUME NEW w, Sound(w, {}, {}, {}), w.control.op = "none",
           \A d \in Cores : w.service[d].state \in {"none", "dead"} /\ w.service[d].calls = {},
           NEW n \in 1 .. Cardinality(Cores),
           NEW v, v \in SubmitAll(Begun(w, n), n, "create")
    PROVE  Sound(v, {}, {}, {})
<1> DEFINE x == Starting(w, n)
           all == 0 .. n - 1
<1> DEFINE y == Begun(w, n)
<1>a. v \in SubmitAll(y, n, "create") /\ x = Armed(y, n)
  BY DEF Starting, Armed, Begun
<1> HIDE DEF x, y
<1>1. PICK u \in Runs(x, 0, CreateAsk) : v = Asked(u, n, CreateAsk)
  BY ONLY <1>a, SubmitAllIs DEF CreateAsk
<1> USE DEF x
<1>2. x = Starting(w, n) /\ n \in Nat /\ n > 0 /\ \A d \in Cores : d \in all <=> d \in 0 .. n - 1
  OBVIOUS
<1>3. /\ Sound(x, 0 .. n - 1, {}, {})
      /\ x.control.op = "start" /\ x.shared.size = n
      /\ \A d \in Cores : x.service[d].state = "none"
  BY StartingSound
<1>4. Sound(x, all, {}, {})  BY <1>3
<1> HIDE DEF x, all
<1>5. CreateAsk = CreateAsk /\ x.control.op = "start"
          /\ \A d \in Cores : d \in all => x.service[d].state = "none"
  BY <1>3
<1> QED BY ONLY <1>1, <1>2, <1>3, <1>4, <1>5, RoundSound

WithStarting(w, b) == [w EXCEPT !.control.starting = b]

LEMMA StopAllSound ==
    ASSUME NEW w, Sound(w, {}, {}, {}), w.control.left = {}, w.shared.size > 0,
           w.control.op = "start" \/ (w.control.op = "none" /\ w.control.result = "started"),
           NEW b \in BOOLEAN, NEW v, v \in StopAll(WithStarting(w, b))
    PROVE  Sound(v, {}, {}, {})
<1> DEFINE n == w.shared.size
           x == WithControl(w, Stopping(w, b))
           all == 0 .. n - 1
           y == [[w EXCEPT !.control.starting = b] EXCEPT !.control.op = "stop"]
<1>0. w \in Worlds /\ w.control \in Controls /\ n \in Nat
  BY SizeFacts DEF Sound, Worlds
<1>1. v \in SubmitAll(y, n, "stop")  BY <1>0 DEF StopAll, WithStarting, Worlds
<1>2. Armed(y, n) = x  BY <1>0 DEF Worlds, Controls, WithControl, Stopping, Armed
<1> HIDE DEF x, y, n
<1>3. PICK u \in Runs(x, 0, StopAsk) : v = Asked(u, n, StopAsk)
  BY ONLY <1>1, <1>2, SubmitAllIs DEF StopAsk
<1> USE DEF x, n
<1>4. \A d \in Cores : d \in all <=> d \in 0 .. n - 1  OBVIOUS
<1>5. /\ Sound(x, 0 .. n - 1, {}, {})
      /\ x.control.op = "stop" /\ x.shared.size = n
      /\ \A d \in Cores : x.service[d].state \in {"none", "alive"}
  BY StoppingSound
<1>6. Sound(x, all, {}, {})  BY <1>5
<1>7. n > 0  OBVIOUS
<1> HIDE DEF x, all, n
<1>8. StopAsk = StopAsk /\ x.control.op = "stop"
          /\ \A d \in Cores : d \in all => x.service[d].state \in {"none", "alive"}
  BY <1>5
<1> QED BY ONLY <1>0, <1>3, <1>4, <1>5, <1>6, <1>7, <1>8, RoundSound

(* ... that has all answers.                                               *)
LEMMA RestSound ==
    ASSUME NEW w, Sound(w, {}, {}, {}), w.control.left = {}, NEW x \in Controls, x.left = {},
           x.op = "none",
           \/ x.result = "started" /\ w.control.op = "start"
           \/ x.result = "failed" /\ w.control.op = "stop",
           NEW v, v = WithControl(w, x)
    PROVE  Sound(v, {}, {}, {})
<1>0. w \in Worlds /\ w.shared.crashed = "no"  BY DEF Sound
<1>1. /\ v \in Worlds /\ v.shared = w.shared /\ v.service = w.service /\ v.control = x
      /\ v.call = w.call /\ v.loan = w.loan /\ v.msg = w.msg
  BY <1>0, ControlWorld
<1>2. /\ \A p, r : In(v, p, r) = In(w, p, r)
      /\ Bare(v) <=> Bare(w)
      /\ \A d : Lent(v, d) = Lent(w, d)
      /\ Placed(v)
  <2>1. Placed(w)  BY DEF Sound
  <2> QED BY ONLY <1>1, <2>1, SameMessages
<1>3. ControlSound(v)  BY <1>1 DEF ControlSound
<1>4. ASSUME NEW d \in Cores PROVE CoreSound(v, d, {}, {})
  <2>1. RefsExact(w, d, {}) /\ Phase(w, d) /\ Turn(w, d, {})
    BY DEF Sound, CoreSound
  <2>2. /\ In(w, <<0, d>>, CreateAsk) = 0 /\ In(w, <<0, d>>, StopAsk) = 0
        /\ In(w, <<d, 0>>, Fine) = 0 /\ In(w, <<d, 0>>, Broken) = 0
        /\ w.service[d].state \notin {"stopping", "freeing", "lost"}
    BY QuietCore
  <2>3. RefsExact(v, d, {})  BY ONLY <1>1, <1>2, <2>1 DEF RefsExact, Own, Inside
  <2>4. Phase(v, d)  BY ONLY <1>1, <1>2, <2>1, InstanceKept
  <2>5. Tokens(v, d) + Indicator(d \in {}) = Indicator(d \in v.control.left)
    BY ONLY <1>1, <1>2, <2>2, x.left = {} DEF Tokens, Indicator
  <2>6. x.result = "started" => w.service[d].state \in {"none", "alive"}
    BY <2>1 DEF Turn
  <2>7. x.result \in {"started", "failed"} /\ v.control = x /\ v.service = w.service
    BY <1>1
  <2>8. In(v, <<0, d>>, CreateAsk) = 0  BY <1>2, <2>2
  <2>9. Turn(v, d, {})
    <3>1. /\ v.control.op = "none" /\ v.control.result \in {"started", "failed"}
          /\ v.control.result = "started" => v.service[d].state \in {"none", "alive"}
          /\ ~(In(v, <<0, d>>, CreateAsk) > 0)
      BY <2>6, <2>7, <2>8
    <3> QED BY ONLY <2>5, <3>1 DEF Turn
  <2> QED BY <2>3, <2>4, <2>9 DEF CoreSound
<1>5. ASSUME NEW k \in Callers PROVE CallSound(v, k, {})
  <2>1. CallSound(w, k, {})  BY DEF Sound
  <2>2. v.call[k] = w.call[k] /\ \A d \in Cores : k \in v.service[d].calls <=> k \in w.service[d].calls
    BY <1>1
  <2> QED BY <1>2, <2>1, <2>2, CallKept
<1>6. v.shared.crashed = "no"  BY <1>0, <1>1
<1> QED BY ONLY <1>1, <1>2, <1>3, <1>4, <1>5, <1>6 DEF Sound

LEMMA ClearedWorld ==
    ASSUME NEW w \in Worlds, NEW v, v = Cleared(w)
    PROVE  /\ v \in Worlds /\ v.service = w.service /\ v.call = w.call /\ v.loan = w.loan
           /\ v.msg = w.msg
           /\ v.shared.kind = w.shared.kind /\ v.shared.slot = w.shared.slot
           /\ v.shared.crashed = w.shared.crashed /\ v.shared.size = 0
           /\ v.control.op = "none" /\ v.control.result \in {"stopped", "not started"}
           /\ v.control.left = w.control.left
<1> DEFINE f == [c \in Cores |-> FALSE]
           s == [w.shared EXCEPT !.size = 0, !.freed = f]
           e == IF w.control.starting THEN "not started" ELSE "stopped"
           x == [w.control EXCEPT !.op = "none", !.result = e, !.starting = FALSE]
<1>0. w.shared \in SharedStates /\ w.control \in Controls  BY DEF Worlds
<1>1. f \in [Cores -> BOOLEAN] /\ 0 \in 0 .. Cardinality(Cores)  BY CoreFacts
<1>2. e \in {"stopped", "not started"}  OBVIOUS
<1>3. v = [w EXCEPT !.shared = s, !.control = x]
  BY <1>0 DEF Cleared, Worlds, SharedStates, Controls
<1> HIDE DEF f, e
<1>4. /\ s \in SharedStates /\ s.kind = w.shared.kind /\ s.slot = w.shared.slot
      /\ s.crashed = w.shared.crashed /\ s.size = 0
  BY <1>0, <1>1 DEF SharedStates
<1>5. x \in Controls /\ x.op = "none" /\ x.result = e /\ x.left = w.control.left
  BY <1>0, <1>2 DEF Controls
<1> HIDE DEF s, x
<1>6. /\ v \in Worlds /\ v.service = w.service /\ v.call = w.call /\ v.loan = w.loan
      /\ v.msg = w.msg /\ v.shared = s /\ v.control = x
  BY <1>3, <1>4, <1>5 DEF Worlds
<1> QED BY ONLY <1>2, <1>4, <1>5, <1>6

LEMMA ClearedSound ==
    ASSUME NEW w, Sound(w, {}, {}, {}), w.control.left = {}, w.control.op = "stop",
           ~w.control.failed, NEW v, v = Cleared(w)
    PROVE  Sound(v, {}, {}, {})
<1>0. w \in Worlds /\ w.shared.crashed = "no"  BY DEF Sound
<1>1. /\ v \in Worlds /\ v.service = w.service /\ v.call = w.call /\ v.loan = w.loan
      /\ v.msg = w.msg
      /\ v.shared.kind = w.shared.kind /\ v.shared.slot = w.shared.slot
      /\ v.shared.crashed = w.shared.crashed /\ v.shared.size = 0
      /\ v.control.op = "none" /\ v.control.result \in {"stopped", "not started"}
      /\ v.control.left = w.control.left
  BY <1>0, ClearedWorld
<1>2. /\ \A p, r : In(v, p, r) = In(w, p, r)
      /\ Bare(v) <=> Bare(w)
      /\ \A d : Lent(v, d) = Lent(w, d)
      /\ Placed(v)
  <2>1. Placed(w)  BY DEF Sound
  <2> QED BY ONLY <1>1, <2>1, SameMessages
<1>3. ControlSound(v)  BY <1>1 DEF ControlSound
<1>4. ASSUME NEW d \in Cores PROVE CoreSound(v, d, {}, {})
  <2>1. RefsExact(w, d, {}) /\ Phase(w, d) /\ Turn(w, d, {})
    BY DEF Sound, CoreSound
  <2>2. /\ In(w, <<0, d>>, CreateAsk) = 0 /\ In(w, <<0, d>>, StopAsk) = 0
        /\ In(w, <<d, 0>>, Fine) = 0 /\ In(w, <<d, 0>>, Broken) = 0
        /\ w.service[d].state \notin {"stopping", "freeing", "lost"}
    BY QuietCore
  <2>3. w.service[d].state \in {"none", "stopped", "dead"}
    <3>1. w.service[d].state \in States  BY <1>0 DEF Worlds, Instances
    <3>2. w.service[d].state # "alive" /\ w.service[d].state # "failed"
      BY <2>1, <2>2 DEF Turn
    <3> QED BY <2>2, <3>1, <3>2 DEF States
  <2>4. RefsExact(v, d, {})  BY ONLY <1>1, <1>2, <2>1 DEF RefsExact, Own, Inside
  <2>5. Phase(v, d)  BY ONLY <1>1, <1>2, <2>1, <2>3 DEF Phase
  <2>6. Tokens(v, d) + Indicator(d \in {}) = Indicator(d \in v.control.left)
    <3>1. Indicator(w.service[d].state \in {"stopping", "freeing", "lost"}) = 0
      BY <2>2 DEF Indicator
    <3>2. v.service = w.service  BY <1>1
    <3>4. Tokens(v, d) = 0  BY ONLY <1>2, <2>2, <3>1, <3>2 DEF Tokens
    <3>3. Indicator(d \in {}) = 0 /\ Indicator(d \in v.control.left) = 0
      BY <1>1 DEF Indicator
    <3> QED BY ONLY <3>3, <3>4
  <2>7. In(v, <<0, d>>, CreateAsk) = 0  BY <1>2, <2>2
  <2>8. Turn(v, d, {})
    <3>1. v.control.op = "none" /\ v.control.result \in {"stopped", "not started"}
      BY <1>1
    <3>2. v.service[d].state \in {"none", "dead", "stopped"}  BY <1>1, <2>3
    <3>3. ~(In(v, <<0, d>>, CreateAsk) > 0)  BY ONLY <2>7
    <3> QED BY ONLY <2>6, <3>1, <3>2, <3>3 DEF Turn
  <2> QED BY <2>4, <2>5, <2>8 DEF CoreSound
<1>5. ASSUME NEW k \in Callers PROVE CallSound(v, k, {})
  <2>1. CallSound(w, k, {})  BY DEF Sound
  <2>2. v.call[k] = w.call[k] /\ \A d \in Cores : k \in v.service[d].calls <=> k \in w.service[d].calls
    BY <1>1
  <2> QED BY <1>2, <2>1, <2>2, CallKept
<1>6. v.shared.crashed = "no"  BY <1>0, <1>1
<1> QED BY ONLY <1>1, <1>2, <1>3, <1>4, <1>5, <1>6 DEF Sound
-----------------------------------------------------------------------------
(* The steps.                                                              *)
Right(w) == IF w.shared.crashed = "no" THEN Sound(w, {}, {}, {}) ELSE CrashOK(w)

LEMMA BecomesRight ==
    ASSUME NEW w, Becomes(w), Sound(w, {}, {}, {}) \/ CrashOK(w)
    PROVE  Right(World)'
<1> DEFINE x == [shared |-> shared', service |-> service', control |-> control', call |-> call',
                 loan |-> loan', msg |-> msg']
<1>1. /\ x.shared = w.shared /\ x.service = w.service /\ x.control = w.control
      /\ x.call = w.call /\ x.loan = w.loan /\ x.msg = w.msg
  BY DEF Becomes
<1>2. CASE Sound(w, {}, {}, {})
  <2>1. w \in Worlds  BY <1>2 DEF Sound
  <2>2. x = w  BY <1>1, <2>1 DEF Worlds
  <2>3. Right(x)  BY <1>2, <2>2 DEF Right, Sound
  <2> QED BY <2>3 DEF Right, World
<1>3. CASE CrashOK(w)
  <2> HIDE DEF x
  <2>1. CrashOK(x) /\ x.shared.crashed # "no"
    BY <1>1, <1>3, CrashKept DEF CrashOK, CrashesRight
  <2>2. Right(x)  BY <2>1 DEF Right
  <2> QED BY <2>2 DEF Right, World, x
<1> QED BY <1>2, <1>3

LEMMA WorldIs ==
    /\ World.shared = shared /\ World.service = service /\ World.control = control
    /\ World.call = call /\ World.loan = loan /\ World.msg = msg
BY DEF World

LEMMA WorldTypes ==
    ASSUME Sound(World, {}, {}, {})
    PROVE  /\ shared \in SharedStates /\ service \in [Cores -> Instances] /\ control \in Controls
           /\ call \in [Callers -> CallStates] /\ loan \in Loans /\ msg \in [Pairs -> Seq(Requests)]
           /\ Running /\ World \in Worlds
           /\ control.op = "none" => control.left = {}
           /\ control.op # "none" => shared.size > 0
BY WorldIs DEF Sound, Worlds, Running, ControlSound

LEMMA StartStep ==
    ASSUME Sound(World, {}, {}, {}), NEW n \in {1, Cardinality(Cores)}, Start(n)
    PROVE  Right(World)'
<1>1. PICK v \in SubmitAll(Begun(World, n), n, "create") : Becomes(v)
  BY DEF Start, Begun
<1>2. World.control.op = "none" /\ n \in 1 .. Cardinality(Cores)
  BY WorldIs, CoreFacts DEF Start
<1>3. \A d \in Cores : World.service[d].state \in {"none", "dead"} /\ World.service[d].calls = {}
  BY WorldIs DEF Start, Gone
<1> QED BY <1>1, <1>2, <1>3, StartSound, BecomesRight

LEMMA StopStep ==
    ASSUME Sound(World, {}, {}, {}), StopSharded
    PROVE  Right(World)'
<1>1. PICK v \in StopAll(WithStarting(World, FALSE)) : Becomes(v)
  BY DEF StopSharded, WithStarting
<1>2. /\ World.control.op = "none" /\ World.control.result = "started"
      /\ World.shared.size > 0 /\ World.control.left = {}
  BY WorldIs, WorldTypes DEF StopSharded
<1>3. Sound(v, {}, {}, {})
  BY ONLY <1>1, <1>2, Sound(World, {}, {}, {}), FALSE \in BOOLEAN, StopAllSound
<1> QED BY <1>1, <1>3, BecomesRight

LEMMA ControlStep ==
    ASSUME Sound(World, {}, {}, {}), ControlGoesOn
    PROVE  Right(World)'
<1>0. /\ control \in Controls /\ control.left = {} /\ control.op # "none" /\ World \in Worlds
      /\ World.control = control /\ World.shared.size > 0
      /\ World.control.left = {}
  BY WorldIs, WorldTypes DEF ControlGoesOn
<1>1. CASE control.op = "start" /\ ~control.failed
  <2> DEFINE x == [control EXCEPT !.op = "none", !.result = "started"]
             v == WithControl(World, x)
  <2>1. Becomes([World EXCEPT !.control.op = "none", !.control.result = "started"])
    BY <1>1 DEF ControlGoesOn
  <2>2. v = [World EXCEPT !.control.op = "none", !.control.result = "started"]
    BY <1>0 DEF WithControl, Worlds
  <2>3. x \in Controls /\ x.left = {} /\ x.op = "none" /\ x.result = "started"
    BY <1>0 DEF Controls
  <2>4. v = WithControl(World, x) /\ World.control.op = "start"  BY <1>0, <1>1
  <2>5. Becomes(v)  BY <2>1, <2>2
  <2> HIDE DEF x, v
  <2>6. Sound(v, {}, {}, {})
    BY ONLY <1>0, <2>3, <2>4, Sound(World, {}, {}, {}), RestSound
  <2> QED BY <2>5, <2>6, BecomesRight
<1>2. CASE control.op = "start" /\ control.failed
  <2>1. PICK v \in StopAll(WithStarting(World, TRUE)) : Becomes(v)
    BY <1>2 DEF ControlGoesOn, WithStarting
  <2>2. World.control.op = "start"  BY <1>0, <1>2
  <2>3. Sound(v, {}, {}, {})
    BY ONLY <1>0, <2>1, <2>2, Sound(World, {}, {}, {}), TRUE \in BOOLEAN, StopAllSound
  <2> QED BY <2>1, <2>3, BecomesRight
<1>3. CASE control.op = "stop" /\ ~control.failed
  <2>1. Becomes(Cleared(World))  BY <1>3 DEF ControlGoesOn
  <2>2. Sound(Cleared(World), {}, {}, {})  BY <1>0, <1>3, ClearedSound
  <2> QED BY <2>1, <2>2, BecomesRight
<1>4. CASE control.op = "stop" /\ control.failed
  <2> DEFINE x == [control EXCEPT !.op = "none", !.result = "failed", !.stopFailed = TRUE]
             v == WithControl(World, x)
  <2>1. Becomes([World EXCEPT !.control.op = "none", !.control.result = "failed",
                              !.control.stopFailed = TRUE])
    BY <1>4 DEF ControlGoesOn
  <2>2. v = [World EXCEPT !.control.op = "none", !.control.result = "failed",
                          !.control.stopFailed = TRUE]
    BY <1>0 DEF WithControl, Worlds
  <2>3. x \in Controls /\ x.left = {} /\ x.op = "none" /\ x.result = "failed"
    BY <1>0 DEF Controls
  <2>4. v = WithControl(World, x) /\ World.control.op = "stop"  BY <1>0, <1>4
  <2>5. Becomes(v)  BY <2>1, <2>2
  <2> HIDE DEF x, v
  <2>6. Sound(v, {}, {}, {})
    BY ONLY <1>0, <2>3, <2>4, Sound(World, {}, {}, {}), RestSound
  <2> QED BY <2>5, <2>6, BecomesRight
<1> QED BY <1>0, <1>1, <1>2, <1>3, <1>4 DEF Controls

LEMMA ServiceStopsStep ==
    ASSUME Sound(World, {}, {}, {}), NEW c \in Cores, NEW fails \in BOOLEAN, ServiceStops(c, fails)
    PROVE  Right(World)'
<1>1. Becomes(Ended(World, c, fails))  BY WorldIs DEF ServiceStops, Ended, WithState
<1>2. /\ World.service[c].state = "stopping"
      /\ World.shared.kind = "gated" => World.service[c].calls = {}
  BY WorldIs DEF ServiceStops
<1>3. Sound(Ended(World, c, fails), {}, {}, {}) \/ CrashOK(Ended(World, c, fails))
  BY <1>2, ServiceStopsSound
<1> QED BY <1>1, <1>3, BecomesRight

LEMMA CallStep ==
    ASSUME Sound(World, {}, {}, {}), NEW k \in Callers, NEW from \in Cores, NEW to \in Cores,
           Call(k, from, to)
    PROVE  Right(World)'
<1> DEFINE v == WithCall(World, k, [state |-> "sent", from |-> from, to |-> to])
<1>1. PICK u \in Submit(v, from, to, CallAsk(k)) : Becomes(u)
  BY DEF Call, WithCall, CallAsk
<1>2. World.call[k] = NoCall  BY WorldIs DEF Call
<1>3. Sound(u, {}, {}, {}) \/ CrashOK(u)  BY <1>1, <1>2, CallSubmitted
<1> QED BY <1>1, <1>3, BecomesRight

LEMMA CallEndsStep ==
    ASSUME Sound(World, {}, {}, {}), NEW k \in Callers, CallEnds(k)
    PROVE  Right(World)'
<1>1. Becomes(CallEnded(World, k)) /\ World.call[k].state = "inside"
  <2> DEFINE c == call[k].to
  <2>1. CASE service[c].state = "dead"
    BY <2>1, WorldIs DEF CallEnds, CallEnded, Left1
  <2>2. CASE service[c].state # "dead" /\ shared.kind = "tracked"
    BY <2>2, WorldIs DEF CallEnds, CallEnded, Left1
  <2>3. CASE service[c].state # "dead" /\ shared.kind # "tracked"
    BY <2>3, WorldIs DEF CallEnds, CallEnded, Left1
  <2> QED BY <2>1, <2>2, <2>3
<1>2. Sound(CallEnded(World, k), {}, {}, {}) \/ CrashOK(CallEnded(World, k))
  BY <1>1, CallEndsSound
<1> QED BY <1>1, <1>2, BecomesRight

LEMMA LendStep ==
    ASSUME Sound(World, {}, {}, {}), NEW c \in Cores, NEW at \in Cores, NEW wrapped \in BOOLEAN,
           Lend(c, at, wrapped)
    PROVE  Right(World)'
<1> DEFINE x == [state |-> "lent", of |-> c, at |-> at, wrapped |-> wrapped]
           v == LendTo(World, c, x)
<1>1. x \in Loans /\ x.state = "lent" /\ x.of = c  BY DEF Loans
<1>2. World.loan.state = "none" /\ World.shared.slot[c]  BY WorldIs DEF Lend
<1>3. Becomes(v)  BY DEF Becomes, LendTo, Lend, World
<1>a. v = LendTo(World, c, x)  OBVIOUS
<1> HIDE DEF x, v
<1>4. Sound(v, {}, {}, {})
  BY ONLY <1>1, <1>2, <1>a, c \in Cores, Sound(World, {}, {}, {}), LendSound
<1> QED BY <1>3, <1>4, BecomesRight

LEMMA DropLoanStep ==
    ASSUME Sound(World, {}, {}, {}), DropLoan
    PROVE  Right(World)'
<1>1. Becomes(LoanDropped(World)) /\ World.loan.state = "lent"
  <2>1. CASE loan.wrapped /\ loan.at # loan.of
    BY <2>1, WorldIs DEF DropLoan, LoanDropped, Dropped
  <2>2. CASE ~(loan.wrapped /\ loan.at # loan.of)
    BY <2>2, WorldIs DEF DropLoan, LoanDropped, Dropped
  <2> QED BY <2>1, <2>2
<1>2. Sound(LoanDropped(World), {}, {}, {}) \/ CrashOK(LoanDropped(World))
  BY <1>1, DropLoanSound
<1> QED BY <1>1, <1>2, BecomesRight

LEMMA ArrivesStep ==
    ASSUME Sound(World, {}, {}, {}), NEW from \in Cores, NEW to \in Cores, Arrives(from, to)
    PROVE  Right(World)'
<1> DEFINE r == Head(msg[<<from, to>>])
           v == Taken(World, from, to)
<1>1. World.msg[<<from, to>>] # <<>> /\ r = Head(World.msg[<<from, to>>])
  BY WorldIs DEF Arrives
<1>2. \E u \in Comes(World, from, to) : Becomes(u)
  <2>1. CASE r.kind = "joined"
    <3>1. Becomes(Joined(v, from, r.arg = 1))  BY <2>1 DEF Arrives, Taken
    <3>2. Comes(World, from, to) = {Joined(v, from, r.arg = 1)}
      BY <1>1, <2>1 DEF Comes
    <3> QED BY <3>1, <3>2
  <2>2. CASE r.kind = "returned"
    <3>1. Becomes([v EXCEPT !.call[r.arg] = NoCall])  BY <2>2 DEF Arrives, Taken
    <3>2. Comes(World, from, to) = {[v EXCEPT !.call[r.arg] = NoCall]}
      BY <1>1, <2>2 DEF Comes
    <3> QED BY <3>1, <3>2
  <2>3. CASE r.kind # "joined" /\ r.kind # "returned"
    <3>1. \E u \in Runs(v, to, r) : Becomes(u)  BY <2>3 DEF Arrives, Taken
    <3>2. Comes(World, from, to) = Runs(v, to, r)  BY <1>1, <2>3 DEF Comes
    <3> QED BY <3>1, <3>2
  <2> QED BY <2>1, <2>2, <2>3
<1>3. PICK u \in Comes(World, from, to) : Becomes(u)  BY <1>2
<1>4. Sound(u, {}, {}, {}) \/ CrashOK(u)  BY <1>1, <1>3, ComesSound
<1> QED BY <1>3, <1>4, BecomesRight

LEMMA NextStep ==
    ASSUME Right(World), [ShardedNext]_shardedVars
    PROVE  Right(World)'
<1>1. CASE UNCHANGED shardedVars
  <2>1. World' = World  BY <1>1 DEF World, shardedVars
  <2> DEFINE x == [shared |-> shared', service |-> service', control |-> control', call |-> call',
                   loan |-> loan', msg |-> msg']
  <2>2. x = World  BY <2>1 DEF World
  <2>3. Right(x)  BY <2>2
  <2> QED BY <2>3 DEF Right, World
<1>2. CASE ShardedNext
  <2>1. Running
    BY <1>2 DEF ShardedNext, Start, StopSharded, ControlGoesOn, ServiceStops, Call, CallEnds,
                Lend, DropLoan, Arrives
  <2>2. Sound(World, {}, {}, {})  BY <2>1, WorldIs DEF Right, Running
  <2>3. ASSUME NEW n \in {1, Cardinality(Cores)}, Start(n) PROVE Right(World)'
    BY <2>2, <2>3, StartStep
  <2>4. CASE StopSharded  BY <2>2, <2>4, StopStep
  <2>5. CASE ControlGoesOn  BY <2>2, <2>5, ControlStep
  <2>6. ASSUME NEW c \in Cores, NEW fails \in BOOLEAN, ServiceStops(c, fails)
        PROVE  Right(World)'
    BY <2>2, <2>6, ServiceStopsStep
  <2>7. ASSUME NEW k \in Callers, NEW from \in Cores, NEW to \in Cores, Call(k, from, to)
        PROVE  Right(World)'
    BY <2>2, <2>7, CallStep
  <2>8. ASSUME NEW k \in Callers, CallEnds(k) PROVE Right(World)'
    BY <2>2, <2>8, CallEndsStep
  <2>9. ASSUME NEW c \in Cores, NEW at \in Cores, NEW wrapped \in BOOLEAN, Lend(c, at, wrapped)
        PROVE  Right(World)'
    BY <2>2, <2>9, LendStep
  <2>10. CASE DropLoan  BY <2>2, <2>10, DropLoanStep
  <2>11. ASSUME NEW from \in Cores, NEW to \in Cores, Arrives(from, to) PROVE Right(World)'
    BY <2>2, <2>11, ArrivesStep
  <2> QED BY <1>2, <2>3, <2>4, <2>5, <2>6, <2>7, <2>8, <2>9, <2>10, <2>11 DEF ShardedNext
<1> QED BY <1>1, <1>2

LEMMA InitRight ==
    ASSUME ShardedInit
    PROVE  Right(World)
<1> DEFINE w == World
<1>0. /\ w.shared = shared /\ w.service = service /\ w.control = control
      /\ w.call = call /\ w.loan = loan /\ w.msg = msg
  BY WorldIs
<1>1. PICK kind \in Kinds :
          shared = [kind |-> kind, size |-> 0, slot |-> [c \in Cores |-> FALSE],
                    freed |-> [c \in Cores |-> FALSE], crashed |-> "no"]
  BY DEF ShardedInit
<1>2. /\ shared \in SharedStates /\ shared.size = 0 /\ shared.crashed = "no"
      /\ \A c \in Cores : ~shared.slot[c]
  <2>1. 0 \in 0 .. Cardinality(Cores)  BY CoreFacts
  <2>2. [c \in Cores |-> FALSE] \in [Cores -> BOOLEAN]  OBVIOUS
  <2> QED BY <1>1, <2>1, <2>2 DEF SharedStates
<1>3. /\ NoInstance \in Instances /\ NoInstance.state = "none" /\ NoInstance.refs = 0
      /\ NoInstance.stops = 0 /\ NoInstance.calls = {}
  BY DEF Instances, States, NoInstance
<1>4. service \in [Cores -> Instances] /\ \A c \in Cores : service[c] = NoInstance
  BY <1>3 DEF ShardedInit
<1>5. /\ control \in Controls /\ control.op = "none" /\ control.left = {}
      /\ control.result = "none"
  BY DEF ShardedInit, Controls
<1>6. /\ NoCall \in CallStates /\ NoCall.state = "idle"
  BY CoreFacts DEF NoCall, CallStates
<1>7. call \in [Callers -> CallStates] /\ \A k \in Callers : call[k].state = "idle"
  BY <1>6 DEF ShardedInit
<1>8. loan \in Loans /\ loan.state = "none"
  BY CoreFacts DEF ShardedInit, NoLoan, Loans
<1>9. msg \in [Pairs -> Seq(Requests)] /\ \A p \in Pairs : msg[p] = <<>>
  <2>1. <<>> \in Seq(Requests)  OBVIOUS
  <2> QED BY <2>1 DEF ShardedInit, Pairs
<1>10. w \in Worlds  BY <1>2, <1>4, <1>5, <1>7, <1>8, <1>9 DEF World, Worlds
<1> HIDE DEF w
<1>11. \A p \in Pairs : \A r : In(w, p, r) = 0  BY <1>0, <1>9, <1>10, InType
<1>12. \A d \in Cores : Lent(w, d) = 0
  <2>1. <<w.loan.at, w.loan.of>> \in Pairs  BY <1>0, <1>8 DEF Pairs, Loans
  <2> QED BY <1>0, <1>8, <1>11, <2>1 DEF Lent, Indicator
<1>13. ControlSound(w) /\ w.shared.crashed = "no"
  BY <1>0, <1>2, <1>5 DEF ControlSound
<1>14. Placed(w)  BY <1>0, <1>9, <1>11 DEF Placed
<1>15. ASSUME NEW d \in Cores PROVE CoreSound(w, d, {}, {})
  <2>1. /\ w.service[d].state = "none" /\ w.service[d].refs = 0
        /\ w.service[d].stops = 0 /\ w.service[d].calls = {} /\ ~w.shared.slot[d]
    BY <1>0, <1>2, <1>3, <1>4
  <2>2. RefsExact(w, d, {})
    <3>1. Own(w, d) = 0 /\ Inside(w, d) = 0 /\ Indicator(d \in {}) = 0 /\ Lent(w, d) = 0
      BY <1>12, <2>1, FS_EmptySet DEF Own, Inside, Indicator
    <3>2. w.service[d].refs = Own(w, d) + Inside(w, d) + Lent(w, d) + Indicator(d \in {})
      BY ONLY <2>1, <3>1
    <3> QED BY <3>2 DEF RefsExact
  <2>3. Phase(w, d)  BY ONLY <2>1 DEF Phase
  <2>4. Turn(w, d, {})
    <3>1. <<0, d>> \in Pairs /\ <<d, 0>> \in Pairs  BY CoreFacts DEF Pairs
    <3>2. /\ In(w, <<0, d>>, CreateAsk) = 0 /\ In(w, <<0, d>>, StopAsk) = 0
          /\ In(w, <<d, 0>>, Fine) = 0 /\ In(w, <<d, 0>>, Broken) = 0
      BY <1>11, <3>1
    <3>3. Indicator(w.service[d].state \in {"stopping", "freeing", "lost"}) = 0
      BY <2>1 DEF Indicator
    <3>4. Tokens(w, d) = 0  BY ONLY <3>2, <3>3 DEF Tokens
    <3>5. Indicator(d \in {}) = 0 /\ Indicator(d \in w.control.left) = 0
      BY <1>0, <1>5 DEF Indicator
    <3>6. Tokens(w, d) + Indicator(d \in {}) = Indicator(d \in w.control.left)
      BY ONLY <3>4, <3>5
    <3>7. w.control.op = "none" /\ w.control.result = "none"  BY <1>0, <1>5
    <3> QED BY ONLY <2>1, <3>2, <3>6, <3>7 DEF Turn
  <2> QED BY <2>2, <2>3, <2>4 DEF CoreSound
<1>16. ASSUME NEW k \in Callers PROVE CallSound(w, k, {})
  <2>1. w.call[k].state = "idle" /\ \A d \in Cores : k \notin w.service[d].calls
    BY <1>0, <1>3, <1>4, <1>7
  <2> QED BY ONLY <1>11, <2>1 DEF CallSound, Indicator
<1>17. Sound(w, {}, {}, {})  BY ONLY <1>10, <1>13, <1>14, <1>15, <1>16 DEF Sound
<1>18. Right(w)  BY <1>13, <1>17 DEF Right
<1> QED BY <1>18 DEF w

-----------------------------------------------------------------------------
(* What follows.                                                           *)
LEMMA NotHanging ==
    ASSUME Sound(World, {}, {}, {})
    PROVE  StopDoesNotHang
<1> SUFFICES ASSUME control.left # {}, ~Naked
             PROVE  \/ \E p \in DOMAIN msg : msg[p] # <<>>
                    \/ \E c \in Cores : service[c].state = "stopping" \/ service[c].calls # {}
                    \/ loan.state = "lent"
  BY DEF StopDoesNotHang
<1> DEFINE w == World
<1>0. /\ w.shared = shared /\ w.service = service /\ w.control = control
      /\ w.call = call /\ w.loan = loan /\ w.msg = msg
  BY WorldIs
<1>1. /\ w \in Worlds /\ control \in Controls /\ loan \in Loans
      /\ DOMAIN msg = Pairs /\ service \in [Cores -> Instances]
  BY WorldTypes
<1>2. ~Bare(w)  BY <1>0 DEF Bare, Naked
<1> HIDE DEF w
<1>3. PICK c \in Cores : c \in control.left  BY <1>1 DEF Controls
<1>4. RefsExact(w, c, {}) /\ Phase(w, c) /\ Turn(w, c, {})
  BY DEF Sound, CoreSound, w
<1>5. \A p \in Pairs : \A r : In(w, p, r) \in Nat /\ (In(w, p, r) # 0 => msg[p] # <<>>)
  BY <1>0, <1>1, InType
<1>6. SUFFICES ASSUME \A p \in Pairs : msg[p] = <<>>, service[c].state # "stopping",
                      service[c].calls = {}, loan.state # "lent"
               PROVE  FALSE
  BY <1>1
<1>7. \A p \in Pairs : \A r : In(w, p, r) = 0  BY <1>5, <1>6
<1>8. service[c].state \in {"freeing", "lost"}
  <2>1. <<0, c>> \in Pairs /\ <<c, 0>> \in Pairs  BY CoreFacts DEF Pairs
  <2>2. /\ In(w, <<0, c>>, CreateAsk) = 0 /\ In(w, <<0, c>>, StopAsk) = 0
        /\ In(w, <<c, 0>>, Fine) = 0 /\ In(w, <<c, 0>>, Broken) = 0
    BY <1>7, <2>1
  <2> DEFINE i == Indicator(w.service[c].state \in {"stopping", "freeing", "lost"})
  <2>3. Tokens(w, c) = 0 + 0 + i + 0 + 0  BY ONLY <2>2 DEF Tokens
  <2>4. Tokens(w, c) + Indicator(c \in {}) = Indicator(c \in w.control.left)
    BY <1>4 DEF Turn
  <2>5. Indicator(c \in {}) = 0 /\ Indicator(c \in w.control.left) = 1 /\ i \in Nat
    BY <1>0, <1>3 DEF Indicator
  <2>6. i = 1
    <3> HIDE DEF i
    <3> QED BY ONLY <2>3, <2>4, <2>5
  <2> QED BY <1>0, <1>6, <2>6 DEF Indicator
<1>9. service[c].state = "freeing" /\ service[c].refs > 0
  BY <1>0, <1>2, <1>4, <1>8 DEF Phase
<1>10. Own(w, c) = 0 /\ Inside(w, c) = 0 /\ Indicator(c \in {}) = 0
  BY <1>0, <1>6, <1>9, FS_EmptySet DEF Own, Inside, Indicator
<1>11. Lent(w, c) = 0
  <2>1. <<w.loan.at, w.loan.of>> \in Pairs  BY <1>0, <1>1 DEF Pairs, Loans
  <2> QED BY <1>0, <1>6, <1>7, <2>1 DEF Lent, Indicator
<1>12. w.service[c].refs = 0 + 0 + 0 + 0  BY ONLY <1>4, <1>10, <1>11 DEF RefsExact
<1> QED BY <1>0, <1>9, <1>12

LEMMA RightExact ==
    ASSUME Right(World)
    PROVE  ShardedExact
<1>1. Settled(World)
  <2>1. CASE Sound(World, {}, {}, {})  BY <2>1, SoundSettled
  <2>2. CASE CrashOK(World)  BY <2>2 DEF CrashOK
  <2> QED BY <2>1, <2>2 DEF Right
<1>2. Bare(World) <=> Naked  BY WorldIs DEF Bare, Naked
<1>3. StoppedOnce  BY <1>1, WorldIs DEF Settled, StoppedRight, StoppedOnce
<1>4. StopIsComplete
  BY <1>1, <1>2, WorldIs DEF Settled, AtRest, CompleteAt, StopIsComplete, Made
<1>5. StopDoesNotHang
  <2>1. CASE Running  BY <2>1, WorldIs, NotHanging DEF Right, Running
  <2>2. CASE ~Running  BY <2>2 DEF StopDoesNotHang
  <2> QED BY <2>1, <2>2
<1>6. CrashesWhereStated
  <2>1. CASE shared.crashed = "no"  BY <2>1 DEF CrashesWhereStated
  <2>2. CASE shared.crashed # "no"
    BY <1>2, <2>2, WorldIs DEF Right, CrashOK, CrashesRight, CrashesWhereStated
  <2> QED BY <2>1, <2>2
<1> QED BY <1>3, <1>4, <1>5, <1>6 DEF ShardedExact

(* Whatever the number of cores, of callers and of starts: an instance is  *)
(* stopped once before its deletion; stop() and a start() that failed      *)
(* leave no instance behind, unless it is lent; who waits for all cores    *)
(* waits for something; and a method runs on a deleted instance only if    *)
(* stop() of the service does not wait for it.                             *)
THEOREM ShardedExactHolds == ShardedSpec => []ShardedExact
<1>1. ShardedInit => Right(World)  BY InitRight
<1>2. Right(World) /\ [ShardedNext]_shardedVars => Right(World)'  BY NextStep
<1>3. Right(World) => ShardedExact  BY RightExact
<1> QED BY <1>1, <1>2, <1>3, PTL DEF ShardedSpec
=============================================================================
