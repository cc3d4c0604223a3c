-------------------------- MODULE HttpServerProofs --------------------------
(***************************************************************************)
(* The HTTP server, for any number of shards, connections and requests and *)
(* any sizes of buffers and queues.  Two inductive facts about each        *)
(* connection, QueueSound of the queue between its fibers and StreamSound  *)
(* of its output stream, give RoomIsKept and StreamExact; StoppedIsQuiet   *)
(* is inductive as it stands.                                              *)
(***************************************************************************)
EXTENDS HttpServer, SequenceCounts

Replies == Requests \union {NoReply}

Room == {items \in Seq(Replies) : Len(items) <= QueueMax}

Queues == [items : Room, notEmpty : BOOLEAN, notFull : BOOLEAN]

(* What a stream carries.                                                  *)
Units == Nat

Streams ==
    [units : Nat, buffer : Seq(Units), flush : BOOLEAN, flushing : BOOLEAN,
     inBatch : BOOLEAN, failed : BOOLEAN, byFlush : Seq(Units), byWriter : Seq(Units),
     held : Seq(Units), next : Seq(Units)]

ReaderStates == {"none", "parsing", "room", "handling", "pushing", "finished"}
ResponderStates == {"none", "hungry", "popping", "writing", "draining", "finished"}

ConnectionObjects ==
    [at : Shards, reader : ReaderStates, request : Requests \union {"none"},
     replies : Queues, responder : ResponderStates, writes : Seq(Nat),
     out : Streams, wire : Seq(Units), shut : BOOLEAN]

ClientStates == [link : {"away", "open", "closed", "reset"}, sent : Seq(Requests)]

Types ==
    /\ client \in [Connections -> ClientStates]
    /\ backlog \in Seq(Connections)
    /\ accept \in [Shards -> [state : {"none", "waiting", "ready", "got", "failed", "off"},
                              conn : Connections \union {0}]]
    /\ parked \in [Shards -> SUBSET Connections]
    /\ handoffs \subseteq [conn : Connections, to : Shards]
    /\ balance \in Nat
    /\ conn \in [Connections -> ConnectionObjects]
    /\ stopping \in [Shards -> BOOLEAN]
    /\ stopped \in [Shards -> {0, 1}]

(* A promise is outstanding only for what is not there, and a fiber that   *)
(* runs on, or will, finds what it was promised.                           *)
QueueSound(k) ==
    /\ k.replies.notFull => Full(k.replies)
    /\ k.replies.notEmpty => Empty(k.replies)
    /\ k.reader = "handling" => ~Full(k.replies)
    /\ k.reader \in {"room", "pushing"} /\ ~k.replies.notFull => ~Full(k.replies)
    /\ k.responder = "popping" => ~Empty(k.replies)
    /\ k.responder = "hungry" /\ ~k.replies.notEmpty => ~Empty(k.replies)
    /\ k.reader \in {"room", "handling"} => k.request \in Requests

(* The parts of a stream: one put at a time, and no flush is scheduled     *)
(* while the writing fiber has one.                                        *)
PutsSound(o) ==
    /\ Len(o.buffer) <= BufferSize
    /\ OnePut(o)
    /\ o.held = <<>> \/ o.byWriter = <<>>
    /\ o.next # <<>> => o.held # <<>> \/ o.byWriter # <<>>
    /\ o.byFlush # <<>> => o.flushing
    /\ o.flush \/ o.flushing => o.inBatch
    /\ Writing(o) => ~o.flush

(* Concatenation, as a name: the provers then use only the lemmas on it.   *)
Join(a, b) == a \o b

UpToUnit(n) == [i \in 1 .. n |-> i]

(* What the socket has and what it will get is what was written, as long   *)
(* as the socket is whole.                                                 *)
StreamSound(k, whole) ==
    /\ PutsSound(k.out)
    /\ k.wire = UpToUnit(Len(k.wire))
    /\ whole => Join(k.wire, Unsent(k.out)) = UpToUnit(k.out.units) /\ ~k.out.failed
    /\ k.responder # "writing" => ~Writing(k.out)
    /\ k.responder \in {"draining", "finished"} /\ whole => k.out.flush \/ k.out.buffer = <<>>
    /\ k.responder = "finished" => ~k.out.inBatch

Whole(c) == client[c].link # "reset" /\ ~conn[c].shut

ConnectionSound(k, whole) == QueueSound(k) /\ StreamSound(k, whole)

ConnectionsSound == \A c \in Connections : Live(c) => ConnectionSound(conn[c], Whole(c))

(* Connections that the server has, or will have, were made by a client.   *)
Made(c) == client[c].link # "away"

Known ==
    /\ \A c \in Connections : Live(c) => Made(c)
    /\ \A i \in 1 .. Len(backlog) : Made(backlog[i])
    /\ \A s \in Shards : \A c \in parked[s] : Made(c)
    /\ \A h \in handoffs : Made(h.conn)
    /\ \A s \in Shards : accept[s].conn # 0 => Made(accept[s].conn)

IInv == Types /\ ConnectionsSound /\ Known /\ StoppedIsQuiet

-----------------------------------------------------------------------------
(* Output streams.  What each operation keeps, and what it does to the     *)
(* data that the sink has not taken.                                       *)
LEMMA JoinType ==
    ASSUME NEW a \in Seq(Units), NEW b \in Seq(Units)
    PROVE  Join(a, b) \in Seq(Units) /\ Len(Join(a, b)) = Len(a) + Len(b)
BY ConcatProperties DEF Join

LEMMA JoinEmpty ==
    ASSUME NEW a \in Seq(Units)
    PROVE  Join(a, <<>>) = a /\ Join(<<>>, a) = a /\ <<>> \in Seq(Units)
BY ConcatEmptySeq, EmptySeq DEF Join

LEMMA JoinAssoc ==
    ASSUME NEW a \in Seq(Units), NEW b \in Seq(Units), NEW c \in Seq(Units)
    PROVE  Join(Join(a, b), c) = Join(a, Join(b, c))
BY ConcatAssociative DEF Join

LEMMA StreamTypes ==
    ASSUME NEW o \in Streams
    PROVE  /\ o.units \in Nat /\ o.buffer \in Seq(Units) /\ o.byFlush \in Seq(Units)
           /\ o.byWriter \in Seq(Units) /\ o.held \in Seq(Units) /\ o.next \in Seq(Units)
           /\ o.flush \in BOOLEAN /\ o.flushing \in BOOLEAN /\ o.inBatch \in BOOLEAN
           /\ o.failed \in BOOLEAN /\ Unsent(o) \in Seq(Units)
BY ConcatProperties DEF Streams, Unsent

LEMMA UnsentJoined ==
    ASSUME NEW o
    PROVE  Unsent(o) = Join(Join(Join(Join(o.byFlush, o.byWriter), o.held), o.next), o.buffer)
BY DEF Unsent, Join

(* Nothing is with the writing fiber: only the flush and the buffer have   *)
(* data.                                                                   *)
LEMMA UnsentIdle ==
    ASSUME NEW o \in Streams, ~Writing(o)
    PROVE  Unsent(o) = Join(o.byFlush, o.buffer)
<1>1. o.byWriter = <<>> /\ o.held = <<>> /\ o.next = <<>>
  BY DEF Writing
<1>2. o.byFlush \in Seq(Units) /\ o.buffer \in Seq(Units)
  BY StreamTypes
<1> QED BY <1>1, <1>2, JoinEmpty, UnsentJoined

LEMMA FlushSound ==
    ASSUME NEW o \in Streams, PutsSound(o), ~Writing(o)
    PROVE  /\ Flush(o) \in Streams /\ PutsSound(Flush(o)) /\ ~Writing(Flush(o))
           /\ Unsent(Flush(o)) = Unsent(o) /\ Flush(o).units = o.units
           /\ ~o.failed => Flush(o).flush /\ ~Flush(o).failed
<1>1. CASE o.failed
  <2>1. Flush(o) = [o EXCEPT !.failed = FALSE]
    BY <1>1 DEF Flush
  <2> QED BY <1>1, <2>1 DEF Streams, PutsSound, Writing, OnePut, Unsent
<1>2. CASE ~o.failed
  <2>1. Flush(o) = [o EXCEPT !.flush = TRUE, !.inBatch = TRUE]
    BY <1>2 DEF Flush
  <2> QED BY <1>2, <2>1 DEF Streams, PutsSound, Writing, OnePut, Unsent
<1> QED BY <1>1, <1>2

(* poll_flush(), when the put of the last one is over.                     *)
LEMMA PollFlushSound ==
    ASSUME NEW o \in Streams, PutsSound(o), o.byFlush = <<>>, o.inBatch
    PROVE  LET p == PollFlush(o)
           IN  /\ p \in Streams /\ PutsSound(p) /\ (Writing(p) <=> Writing(o))
               /\ Unsent(p) = Unsent(o) /\ p.units = o.units /\ p.failed = o.failed
               /\ o.flush \/ o.buffer = <<>> => p.flush \/ p.buffer = <<>>
<1> DEFINE none == <<>>
<1>t. none \in Seq(Units) /\ Len(none) = 0
  OBVIOUS
<1>1. CASE o.flush
  <2> DEFINE p == [o EXCEPT !.flush = FALSE, !.flushing = TRUE,
                            !.byFlush = o.buffer, !.buffer = none]
  <2>1. PollFlush(o) = p
    BY <1>1 DEF PollFlush
  <2>2. ~Writing(o)
    BY <1>1 DEF PutsSound
  <2>3. p \in Streams /\ ~Writing(p)
    BY <1>t, <2>2 DEF Streams, Writing
  <2>4. PutsSound(p)
    BY <1>t, <2>2, BufferSizeAssumption DEF Streams, PutsSound, Writing, OnePut
  <2>5. p.byFlush = o.buffer /\ p.buffer = none /\ p.units = o.units /\ p.failed = o.failed
    BY DEF Streams
  <2> HIDE DEF p
  <2>6. Unsent(p) = Unsent(o)
    <3>1. Unsent(o) = Join(none, o.buffer) /\ Unsent(p) = Join(o.buffer, none)
      BY <2>2, <2>3, <2>5, UnsentIdle
    <3>2. o.buffer \in Seq(Units)
      BY StreamTypes
    <3> QED BY <3>1, <3>2, JoinEmpty
  <2> QED BY <2>1, <2>2, <2>3, <2>4, <2>5, <2>6
<1>2. CASE ~o.flush
  <2>1. PollFlush(o) = [o EXCEPT !.flushing = FALSE, !.inBatch = FALSE]
    BY <1>2 DEF PollFlush
  <2> QED BY <1>2, <2>1 DEF Streams, PutsSound, Writing, OnePut, Unsent
<1> QED BY <1>1, <1>2

LEMMA PutSound ==
    ASSUME NEW t \in Streams, NEW data \in Seq(Units), data # <<>>,
           t.byWriter = <<>>, t.held = <<>>, Len(t.buffer) <= BufferSize,
           t.byFlush # <<>> => t.flushing, t.flush \/ t.flushing => t.inBatch
    PROVE  /\ Put(t, data) \in Streams /\ PutsSound(Put(t, data))
           /\ Unsent(Put(t, data)) = Join(Join(Join(t.byFlush, data), t.next), t.buffer)
           /\ Put(t, data).units = t.units /\ Put(t, data).failed = t.failed
           /\ Put(t, data).buffer = t.buffer
<1> DEFINE none == <<>>
<1>t. t.byFlush \in Seq(Units) /\ Join(t.byFlush, data) \in Seq(Units)
  BY StreamTypes, JoinType
<1>1. CASE t.flushing
  <2> DEFINE p == [t EXCEPT !.flush = FALSE, !.held = data]
  <2>1. Put(t, data) = p
    BY <1>1 DEF Put
  <2>2. /\ p \in Streams /\ p.units = t.units /\ p.failed = t.failed /\ p.buffer = t.buffer
        /\ p.byFlush = t.byFlush /\ p.byWriter = none /\ p.held = data /\ p.next = t.next
        /\ p.flush = FALSE /\ p.flushing = t.flushing /\ p.inBatch = t.inBatch
    BY DEF Streams
  <2> HIDE DEF p
  <2>3. PutsSound(p)
    BY <1>1, <2>2 DEF PutsSound, Writing, OnePut
  <2>4. Unsent(p) = Join(Join(Join(t.byFlush, data), t.next), t.buffer)
    BY <1>t, <2>2, JoinEmpty, UnsentJoined
  <2> QED BY <2>1, <2>2, <2>3, <2>4
<1>2. CASE ~t.flushing
  <2> DEFINE p == [t EXCEPT !.flush = FALSE, !.byWriter = data]
  <2>1. Put(t, data) = p
    BY <1>2 DEF Put
  <2>2. /\ p \in Streams /\ p.units = t.units /\ p.failed = t.failed /\ p.buffer = t.buffer
        /\ p.byFlush = none /\ t.byFlush = none /\ p.byWriter = data /\ p.held = none
        /\ p.next = t.next
        /\ p.flush = FALSE /\ p.flushing = t.flushing /\ p.inBatch = t.inBatch
    BY <1>2 DEF Streams
  <2> HIDE DEF p
  <2>3. PutsSound(p)
    BY <1>2, <2>2 DEF PutsSound, Writing, OnePut
  <2>4. Unsent(p) = Join(Join(Join(t.byFlush, data), t.next), t.buffer)
    BY <1>t, <2>2, JoinEmpty, UnsentJoined
  <2> QED BY <2>1, <2>2, <2>3, <2>4
<1> QED BY <1>1, <1>2

(* A put takes the buffer and the first part of what is written, and the   *)
(* rest follows it as another put, or is the new buffer.                   *)
LEMMA Filled ==
    ASSUME NEW a \in Seq(Units), NEW b \in Seq(Units), NEW f \in Seq(Units), NEW r \in Seq(Units)
    PROVE  /\ Join(Join(Join(a, Join(b, f)), r), <<>>) = Join(Join(a, b), Join(f, r))
           /\ Join(Join(Join(a, Join(b, f)), <<>>), r) = Join(Join(a, b), Join(f, r))
           /\ Join(Join(Join(a, f), <<>>), <<>>) = Join(Join(a, <<>>), f)
<1>1. /\ Join(a, b) \in Seq(Units) /\ Join(a, f) \in Seq(Units)
      /\ Join(b, f) \in Seq(Units) /\ Join(f, r) \in Seq(Units)
  BY JoinType
<1>2. Join(a, Join(b, f)) = Join(Join(a, b), f) /\ Join(a, Join(b, f)) \in Seq(Units)
  BY <1>1, JoinType, JoinAssoc
<1>3. Join(Join(Join(a, b), f), r) = Join(Join(a, b), Join(f, r))
  BY <1>1, JoinAssoc
<1>4. Join(Join(a, b), Join(f, r)) \in Seq(Units)
  BY <1>1, JoinType
<1> QED BY <1>1, <1>2, <1>3, <1>4, JoinEmpty

Written(o, n) == [i \in 1 .. n |-> o.units + i]

LEMMA WriteSound ==
    ASSUME NEW o \in Streams, PutsSound(o), ~Writing(o), NEW n \in Nat
    PROVE  /\ Write(o, n) \in Streams /\ PutsSound(Write(o, n))
           /\ Write(o, n).units = o.units + n /\ Write(o, n).failed = o.failed
           /\ Unsent(Write(o, n)) = Join(Unsent(o), Written(o, n))
<1> DEFINE none == <<>>
           data == Written(o, n)
           end == Len(o.buffer)
           now == BufferSize - end
           threshold == IF end > 0 THEN 2 * BufferSize - end ELSE BufferSize
           first == SubSeq(data, 1, now)
           rest == SubSeq(data, now + 1, n)
           filled == Join(o.buffer, first)
           t == [o EXCEPT !.units = @ + n]
<1>1. Write(o, n) =
         CASE n >= threshold /\ end = 0 -> Put(t, data)
           [] n >= threshold /\ end > 0 ->
                 Put([t EXCEPT !.buffer = none, !.next = rest], filled)
           [] n < threshold /\ n <= now -> [t EXCEPT !.buffer = Join(@, data)]
           [] n < threshold /\ n > now -> Put([t EXCEPT !.buffer = rest], filled)
  BY DEF Write, Written, Join
<1>2. /\ end \in Nat /\ end <= BufferSize /\ BufferSize \in Nat /\ BufferSize > 0
      /\ now \in Nat /\ end + now = BufferSize /\ threshold \in Nat
      /\ end = 0 => threshold = BufferSize /\ now = BufferSize
      /\ end > 0 => threshold = BufferSize + now
      /\ threshold > 0 /\ threshold >= now
  <2>1. end \in Nat /\ end <= BufferSize /\ BufferSize \in Nat /\ BufferSize > 0
    BY BufferSizeAssumption, StreamTypes, LenProperties DEF PutsSound
  <2> HIDE DEF end
  <2> QED BY ONLY <2>1
<1>3. /\ o.byFlush \in Seq(Units) /\ o.buffer \in Seq(Units) /\ o.units \in Nat
      /\ o.byWriter = none /\ o.held = none /\ o.next = none
      /\ o.byFlush # none => o.flushing
      /\ o.flush \/ o.flushing => o.inBatch
  BY StreamTypes DEF PutsSound, Writing
<1>4. /\ t \in Streams /\ t.units = o.units + n /\ t.byFlush = o.byFlush
      /\ t.buffer = o.buffer /\ t.byWriter = none /\ t.held = none /\ t.next = none
      /\ t.flush = o.flush /\ t.flushing = o.flushing /\ t.inBatch = o.inBatch
      /\ t.failed = o.failed
  BY <1>3 DEF Streams
<1>5. data \in Seq(Units) /\ Len(data) = n
  BY <1>3 DEF Written, Units
<1>6. Unsent(o) = Join(o.byFlush, o.buffer)
  BY UnsentIdle
<1>7. ASSUME now <= n
      PROVE  /\ first \in Seq(Units) /\ rest \in Seq(Units) /\ data = Join(first, rest)
             /\ Len(first) = now /\ Len(rest) = n - now
             /\ filled \in Seq(Units) /\ Len(filled) = BufferSize
  <2>1. now \in 0 .. Len(data)
    BY <1>2, <1>5, <1>7
  <2>2. /\ first \in Seq(Units) /\ Len(first) = now
        /\ rest \in Seq(Units) /\ Len(rest) = n - now
    BY <1>5, <2>1, CountSplit
  <2>3. data = Join(first, rest)
    BY <1>5, <2>1, HasParts DEF Join
  <2>4. filled \in Seq(Units) /\ Len(filled) = end + now
    BY <1>3, <2>2, JoinType
  <2> QED BY <1>2, <2>2, <2>3, <2>4
<1>8. o.byFlush \in Seq(Units) /\ o.buffer \in Seq(Units)
  BY <1>3
<1> HIDE DEF t, threshold, now, first, rest, filled, data, end
<1>9. CASE n >= threshold /\ end = 0
  <2>1. Write(o, n) = Put(t, data)
    BY <1>1, <1>2, <1>9
  <2>2. data # none
    BY <1>2, <1>5, <1>9
  <2>3. t.buffer = none
    BY <1>3, <1>4, <1>9, EmptySeq DEF end
  <2>4. /\ Put(t, data) \in Streams /\ PutsSound(Put(t, data))
        /\ Unsent(Put(t, data)) = Join(Join(Join(o.byFlush, data), none), none)
        /\ Put(t, data).units = t.units /\ Put(t, data).failed = t.failed
    BY <1>2, <1>3, <1>4, <1>5, <2>2, <2>3, EmptySeq, PutSound
  <2>5. Join(Join(Join(o.byFlush, data), none), none) = Join(Join(o.byFlush, none), data)
    BY <1>8, <1>5, EmptySeq, Filled
  <2>6. Unsent(o) = Join(o.byFlush, none) /\ data = Written(o, n)
    BY <1>4, <1>6, <2>3 DEF data
  <2> QED BY <1>4, <2>1, <2>4, <2>5, <2>6
<1>10. CASE n >= threshold /\ end > 0
  <2> DEFINE u == [t EXCEPT !.buffer = none, !.next = rest]
  <2>1. Write(o, n) = Put(u, filled)
    BY <1>1, <1>2, <1>10
  <2>2. now <= n
    BY <1>2, <1>10
  <2>3. /\ u \in Streams /\ u.units = t.units /\ u.byFlush = o.byFlush
        /\ u.buffer = none /\ u.byWriter = none /\ u.held = none /\ u.next = rest
        /\ u.flush = o.flush /\ u.flushing = o.flushing /\ u.inBatch = o.inBatch
        /\ u.failed = o.failed
    BY <1>4, <1>7, <2>2 DEF Streams
  <2> HIDE DEF u
  <2>4. filled \in Seq(Units) /\ filled # none
    BY <1>2, <1>7, <2>2
  <2>5. /\ Put(u, filled) \in Streams /\ PutsSound(Put(u, filled))
        /\ Unsent(Put(u, filled)) = Join(Join(Join(o.byFlush, filled), rest), none)
        /\ Put(u, filled).units = u.units /\ Put(u, filled).failed = u.failed
    BY <1>2, <1>3, <2>3, <2>4, PutSound
  <2>6. Join(Join(Join(o.byFlush, filled), rest), none) = Join(Join(o.byFlush, o.buffer), data)
    <3>1. first \in Seq(Units) /\ rest \in Seq(Units) /\ data = Join(first, rest)
      BY <1>7, <2>2
    <3> QED BY <1>8, <3>1, Filled DEF filled
  <2> QED BY <1>4, <1>6, <2>1, <2>3, <2>5, <2>6 DEF data
<1>11. CASE n < threshold /\ n <= now
  <2> DEFINE u == [t EXCEPT !.buffer = Join(@, data)]
  <2>1. Write(o, n) = u
    BY <1>1, <1>2, <1>11
  <2>2. Join(o.buffer, data) \in Seq(Units) /\ Len(Join(o.buffer, data)) = end + n
    BY <1>3, <1>5, JoinType DEF end
  <2>3. /\ u \in Streams /\ u.units = t.units /\ u.byFlush = o.byFlush
        /\ u.buffer = Join(o.buffer, data) /\ u.byWriter = none /\ u.held = none /\ u.next = none
        /\ u.flush = o.flush /\ u.flushing = o.flushing /\ u.inBatch = o.inBatch
        /\ u.failed = o.failed
    BY <1>4, <2>2 DEF Streams
  <2> HIDE DEF u
  <2>4. Len(u.buffer) <= BufferSize
    BY <1>2, <1>11, <2>2, <2>3
  <2>5. PutsSound(u) /\ ~Writing(u)
    BY <1>3, <2>3, <2>4 DEF PutsSound, Writing, OnePut
  <2>6. Unsent(u) = Join(o.byFlush, Join(o.buffer, data))
    BY <2>3, <2>5, UnsentIdle
  <2>7. Join(o.byFlush, Join(o.buffer, data)) = Join(Join(o.byFlush, o.buffer), data)
    BY <1>5, <1>8, JoinAssoc
  <2> QED BY <1>4, <1>6, <2>1, <2>3, <2>5, <2>6, <2>7 DEF data
<1>12. CASE n < threshold /\ n > now
  <2> DEFINE u == [t EXCEPT !.buffer = rest]
  <2>1. Write(o, n) = Put(u, filled)
    BY <1>1, <1>2, <1>12
  <2>2. now <= n
    BY <1>2, <1>12
  <2>3. /\ u \in Streams /\ u.units = t.units /\ u.byFlush = o.byFlush
        /\ u.buffer = rest /\ u.byWriter = none /\ u.held = none /\ u.next = none
        /\ u.flush = o.flush /\ u.flushing = o.flushing /\ u.inBatch = o.inBatch
        /\ u.failed = o.failed
    BY <1>4, <1>7, <2>2 DEF Streams
  <2> HIDE DEF u
  <2>4. filled \in Seq(Units) /\ filled # none /\ Len(rest) <= BufferSize
    BY <1>2, <1>7, <1>12, <2>2
  <2>5. /\ Put(u, filled) \in Streams /\ PutsSound(Put(u, filled))
        /\ Unsent(Put(u, filled)) = Join(Join(Join(o.byFlush, filled), none), rest)
        /\ Put(u, filled).units = u.units /\ Put(u, filled).failed = u.failed
    BY <1>2, <1>3, <2>3, <2>4, PutSound
  <2>6. Join(Join(Join(o.byFlush, filled), none), rest) = Join(Join(o.byFlush, o.buffer), data)
    <3>1. first \in Seq(Units) /\ rest \in Seq(Units) /\ data = Join(first, rest)
      BY <1>7, <2>2
    <3> QED BY <1>8, <3>1, Filled DEF filled
  <2> QED BY <1>4, <1>6, <2>1, <2>3, <2>5, <2>6 DEF data
<1> QED BY <1>2, <1>9, <1>10, <1>11, <1>12

-----------------------------------------------------------------------------
(* The puts in progress.                                                   *)
LEMMA JoinFirst ==
    ASSUME NEW f \in Seq(Units), NEW w \in Seq(Units), NEW h \in Seq(Units),
           NEW x \in Seq(Units), NEW b \in Seq(Units)
    PROVE  Join(Join(Join(Join(f, w), h), x), b)
               = Join(f, Join(Join(Join(Join(<<>>, w), h), x), b))
<1>1. Join(<<>>, w) = w
  BY JoinEmpty
<1>2. /\ Join(w, h) \in Seq(Units) /\ Join(Join(w, h), x) \in Seq(Units)
  BY JoinType
<1>3. Join(Join(f, w), h) = Join(f, Join(w, h))
  BY JoinAssoc
<1>4. Join(Join(f, Join(w, h)), x) = Join(f, Join(Join(w, h), x))
  BY <1>2, JoinAssoc
<1>5. Join(Join(f, Join(Join(w, h), x)), b) = Join(f, Join(Join(Join(w, h), x), b))
  BY <1>2, JoinAssoc
<1> QED BY <1>1, <1>3, <1>4, <1>5

LEMMA JoinThree ==
    ASSUME NEW w \in Seq(Units), NEW h \in Seq(Units),
           NEW x \in Seq(Units), NEW b \in Seq(Units)
    PROVE  /\ Join(Join(Join(Join(<<>>, <<>>), h), x), b)
                  = Join(Join(Join(Join(<<>>, h), <<>>), x), b)
           /\ Join(Join(Join(Join(<<>>, w), <<>>), <<>>), b) = Join(w, b)
           /\ Join(Join(Join(Join(<<>>, w), <<>>), x), b) = Join(w, Join(x, b))
           /\ Join(Join(Join(Join(<<>>, <<>>), <<>>), <<>>), b) = b
<1>1. /\ Join(<<>>, w) = w /\ Join(<<>>, h) = h /\ Join(w, <<>>) = w /\ Join(h, <<>>) = h
      /\ Join(<<>>, <<>>) = <<>> /\ Join(<<>>, b) = b
  BY JoinEmpty
<1>2. Join(Join(w, x), b) = Join(w, Join(x, b))
  BY JoinAssoc
<1> QED BY <1>1, <1>2

LEMMA PutHeldSound ==
    ASSUME NEW o \in Streams, PutsSound(o), CanPutHeld(o)
    PROVE  LET p == PutHeld(o)
           IN  /\ p \in Streams /\ PutsSound(p) /\ Writing(o)
               /\ Unsent(p) = Unsent(o) /\ p.units = o.units /\ p.failed = o.failed
               /\ p.flush = o.flush /\ p.buffer = o.buffer /\ p.inBatch = o.inBatch
<1> DEFINE none == <<>>
           p == [o EXCEPT !.byWriter = o.held, !.held = none]
<1>1. PutHeld(o) = p
  BY DEF PutHeld
<1>2. /\ o.held # none /\ ~o.flush /\ ~o.flushing /\ o.byFlush = none /\ o.byWriter = none
      /\ Writing(o)
  BY DEF CanPutHeld, PutsSound, Writing
<1>3. /\ none \in Seq(Units) /\ o.held \in Seq(Units) /\ o.next \in Seq(Units)
      /\ o.buffer \in Seq(Units)
  BY StreamTypes, EmptySeq
<1>4. p \in Streams
  BY <1>3 DEF Streams
<1>5. /\ p.units = o.units /\ p.failed = o.failed /\ p.buffer = o.buffer /\ p.next = o.next
      /\ p.byFlush = o.byFlush /\ p.byWriter = o.held /\ p.held = none
      /\ p.flush = o.flush /\ p.flushing = o.flushing /\ p.inBatch = o.inBatch
  BY DEF Streams
<1> HIDE DEF p
<1>6. PutsSound(p)
  BY <1>2, <1>5 DEF PutsSound, Writing, OnePut
<1>7. Unsent(p) = Join(Join(Join(Join(none, o.held), none), o.next), o.buffer)
  BY <1>2, <1>5, UnsentJoined
<1>8. Unsent(o) = Join(Join(Join(Join(none, none), o.held), o.next), o.buffer)
  BY <1>2, UnsentJoined
<1>9. Unsent(p) = Unsent(o)
  BY <1>3, <1>7, <1>8, JoinThree
<1> QED BY <1>1, <1>2, <1>4, <1>5, <1>6, <1>9

(* A put of the writing fiber ends, well or not.                           *)
LEMMA WriterPutSound ==
    ASSUME NEW o \in Streams, PutsSound(o), o.byWriter # <<>>
    PROVE  LET p == WriterPutDone(o)
               q == WriterPutFailed(o)
           IN  /\ Writing(o)
               /\ p \in Streams /\ PutsSound(p)
               /\ Unsent(o) = Join(o.byWriter, Unsent(p))
               /\ p.units = o.units /\ p.failed = o.failed
               /\ q \in Streams /\ PutsSound(q) /\ ~Writing(q)
<1> DEFINE none == <<>>
           q == [o EXCEPT !.byWriter = none, !.next = none]
<1>1. /\ WriterPutFailed(o) = q
      /\ WriterPutDone(o) = IF o.next = none THEN q ELSE Put(q, o.next)
  BY DEF WriterPutFailed, WriterPutDone
<1>2. Writing(o) /\ o.byFlush = none /\ o.held = none /\ ~o.flush
  BY DEF PutsSound, Writing, OnePut
<1>3. /\ none \in Seq(Units) /\ o.byWriter \in Seq(Units) /\ o.next \in Seq(Units)
      /\ o.buffer \in Seq(Units) /\ Len(o.buffer) <= BufferSize
      /\ o.flushing => o.inBatch
  BY StreamTypes, EmptySeq DEF PutsSound
<1>4. q \in Streams
  BY <1>3 DEF Streams
<1>5. /\ q.units = o.units /\ q.failed = o.failed /\ q.buffer = o.buffer /\ q.next = none
      /\ q.byFlush = none /\ q.byWriter = none /\ q.held = none
      /\ q.flush = FALSE /\ q.flushing = o.flushing /\ q.inBatch = o.inBatch
  BY <1>2, <1>4 DEF Streams
<1> HIDE DEF q
<1>6. PutsSound(q) /\ ~Writing(q)
  BY <1>3, <1>5 DEF PutsSound, Writing, OnePut
<1>7. Unsent(q) = Join(Join(Join(Join(none, none), none), none), o.buffer)
  BY <1>5, UnsentJoined
<1>8. Unsent(o) = Join(Join(Join(Join(none, o.byWriter), none), o.next), o.buffer)
  BY <1>2, UnsentJoined
<1>9. CASE o.next = none
  <2>1. Unsent(o) = Join(o.byWriter, Unsent(q))
    BY <1>3, <1>7, <1>8, <1>9, JoinThree
  <2> QED BY <1>1, <1>2, <1>4, <1>5, <1>6, <1>9, <2>1
<1>10. CASE o.next # none
  <2>1. /\ Put(q, o.next) \in Streams /\ PutsSound(Put(q, o.next))
        /\ Unsent(Put(q, o.next)) = Join(Join(Join(none, o.next), none), o.buffer)
        /\ Put(q, o.next).units = o.units /\ Put(q, o.next).failed = o.failed
    BY <1>3, <1>4, <1>5, <1>10, PutSound
  <2>2. Join(Join(Join(none, o.next), none), o.buffer) = Join(o.next, o.buffer)
    BY <1>3, JoinEmpty
  <2>3. Unsent(o) = Join(o.byWriter, Join(o.next, o.buffer))
    BY <1>3, <1>8, JoinThree
  <2> QED BY <1>1, <1>2, <1>4, <1>6, <1>10, <2>1, <2>2, <2>3
<1> QED BY <1>9, <1>10

(* A put of the flush poller ends, well or not.                            *)
LEMMA FlushPutSound ==
    ASSUME NEW o \in Streams, PutsSound(o), o.flushing
    PROVE  LET p == FlushDone(o)
               q == FlushPutFailed(o)
           IN  /\ o.inBatch
               /\ p \in Streams /\ PutsSound(p) /\ (Writing(p) <=> Writing(o))
               /\ Unsent(o) = Join(o.byFlush, Unsent(p))
               /\ p.units = o.units /\ p.failed = o.failed
               /\ o.flush \/ o.buffer = <<>> => p.flush \/ p.buffer = <<>>
               /\ q \in Streams /\ PutsSound(q) /\ (Writing(q) <=> Writing(o))
<1> DEFINE none == <<>>
           p == [o EXCEPT !.byFlush = none]
           q == [o EXCEPT !.byFlush = none, !.failed = TRUE]
<1>1. FlushDone(o) = PollFlush(p) /\ FlushPutFailed(o) = PollFlush(q)
  BY DEF FlushDone, FlushPutFailed
<1>2. o.inBatch
  BY DEF PutsSound
<1>3. /\ none \in Seq(Units) /\ o.byWriter \in Seq(Units) /\ o.next \in Seq(Units)
      /\ o.buffer \in Seq(Units) /\ o.held \in Seq(Units) /\ o.byFlush \in Seq(Units)
  BY StreamTypes, EmptySeq
<1>4. p \in Streams /\ q \in Streams
  BY <1>3 DEF Streams
<1>5. /\ p.units = o.units /\ p.failed = o.failed /\ p.buffer = o.buffer /\ p.next = o.next
      /\ p.byFlush = none /\ p.byWriter = o.byWriter /\ p.held = o.held
      /\ p.flush = o.flush /\ p.flushing = o.flushing /\ p.inBatch = o.inBatch
  BY DEF Streams
<1>6. /\ q.buffer = o.buffer /\ q.next = o.next
      /\ q.byFlush = none /\ q.byWriter = o.byWriter /\ q.held = o.held
      /\ q.flush = o.flush /\ q.flushing = o.flushing /\ q.inBatch = o.inBatch
  BY DEF Streams
<1> HIDE DEF p, q
<1>7. PutsSound(p) /\ (Writing(p) <=> Writing(o))
  BY <1>5 DEF PutsSound, Writing, OnePut
<1>8. PutsSound(q) /\ (Writing(q) <=> Writing(o))
  BY <1>6 DEF PutsSound, Writing, OnePut
<1>9. Unsent(o) = Join(o.byFlush, Unsent(p))
  <2>1. Unsent(o) = Join(Join(Join(Join(o.byFlush, o.byWriter), o.held), o.next), o.buffer)
    BY UnsentJoined
  <2>2. Unsent(p) = Join(Join(Join(Join(none, o.byWriter), o.held), o.next), o.buffer)
    BY <1>5, UnsentJoined
  <2> QED BY <1>3, <2>1, <2>2, JoinFirst
<1>10. /\ PollFlush(p) \in Streams /\ PutsSound(PollFlush(p))
       /\ (Writing(PollFlush(p)) <=> Writing(p))
       /\ Unsent(PollFlush(p)) = Unsent(p) /\ PollFlush(p).units = p.units
       /\ PollFlush(p).failed = p.failed
       /\ p.flush \/ p.buffer = <<>> => PollFlush(p).flush \/ PollFlush(p).buffer = <<>>
  BY <1>2, <1>4, <1>5, <1>7, PollFlushSound
<1>11. /\ PollFlush(q) \in Streams /\ PutsSound(PollFlush(q))
       /\ (Writing(PollFlush(q)) <=> Writing(q))
  BY <1>2, <1>4, <1>6, <1>8, PollFlushSound
<1> QED BY <1>1, <1>2, <1>5, <1>7, <1>8, <1>9, <1>10, <1>11

-----------------------------------------------------------------------------
(* The units in order.                                                     *)
LEMMA UpToUnitType ==
    ASSUME NEW n \in Nat
    PROVE  UpToUnit(n) \in Seq(Units) /\ Len(UpToUnit(n)) = n /\ \A i \in 1 .. n : UpToUnit(n)[i] = i
BY DEF UpToUnit, Units

LEMMA UpToUnitMore ==
    ASSUME NEW o \in Streams, NEW n \in Nat
    PROVE  Join(UpToUnit(o.units), Written(o, n)) = UpToUnit(o.units + n)
<1>1. o.units \in Nat
  BY StreamTypes
<1>2. PICK m \in Nat : m = o.units
  BY <1>1
<1>3. Written(o, n) = [i \in 1 .. n |-> m + i]
  BY <1>2 DEF Written
<1>4. [i \in 1 .. m |-> i] \o [i \in 1 .. n |-> m + i] = [i \in 1 .. m + n |-> i]
  OBVIOUS
<1> QED BY <1>2, <1>3, <1>4 DEF Join, UpToUnit

(* A first part of them is in order too.                                   *)
LEMMA UpToUnitPart ==
    ASSUME NEW a \in Seq(Units), NEW b \in Seq(Units), NEW n \in Nat, Join(a, b) = UpToUnit(n)
    PROVE  a = UpToUnit(Len(a)) /\ Len(a) + Len(b) = n /\ (b = <<>> => Len(a) = n)
<1>1. Len(a) \in Nat /\ Len(b) \in Nat /\ Len(Join(a, b)) = Len(a) + Len(b)
  BY JoinType, LenProperties
<1>2. Len(a) + Len(b) = n
  BY <1>1, UpToUnitType
<1>3. \A i \in 1 .. Len(a) : a[i] = Join(a, b)[i]
  BY <1>1, ConcatProperties DEF Join
<1>4. \A i \in 1 .. Len(a) : a[i] = i
  <2>1. \A i \in 1 .. n : Join(a, b)[i] = i
    BY UpToUnitType
  <2>2. \A i \in 1 .. Len(a) : i \in 1 .. n
    BY ONLY <1>1, <1>2
  <2> QED BY <1>3, <2>1, <2>2
<1>5. a = [i \in 1 .. Len(a) |-> a[i]]
  BY <1>1
<1>6. a = UpToUnit(Len(a))
  BY <1>4, <1>5 DEF UpToUnit
<1> QED BY <1>1, <1>2, <1>6, EmptySeq

LEMMA UpToUnitSubSeq ==
    ASSUME NEW a \in Seq(Units), NEW b \in Seq(Units), NEW c \in Seq(Units), NEW n \in Nat,
           Join(a, Join(b, c)) = UpToUnit(n), NEW j \in 0 .. Len(b)
    PROVE  /\ Join(a, SubSeq(b, 1, j)) \in Seq(Units)
           /\ Join(a, SubSeq(b, 1, j)) = UpToUnit(Len(Join(a, SubSeq(b, 1, j))))
<1> DEFINE front == SubSeq(b, 1, j)
           back == SubSeq(b, j + 1, Len(b))
<1>1. front \in Seq(Units) /\ back \in Seq(Units) /\ b = Join(front, back)
  BY HasParts DEF Join
<1> HIDE DEF front, back
<1>2. Join(a, front) \in Seq(Units) /\ Join(back, c) \in Seq(Units)
  BY <1>1, JoinType
<1>3. Join(b, c) = Join(front, Join(back, c))
  BY <1>1, JoinAssoc
<1>4. Join(a, Join(front, Join(back, c))) = Join(Join(a, front), Join(back, c))
  BY <1>1, <1>2, JoinAssoc
<1>5. Join(Join(a, front), Join(back, c)) = UpToUnit(n)
  BY <1>3, <1>4
<1> QED BY <1>2, <1>5, UpToUnitPart DEF front

-----------------------------------------------------------------------------
(* The queue of replies.                                                   *)
LEMMA QueueTypes ==
    ASSUME NEW q \in Queues
    PROVE  /\ q.items \in Seq(Replies) /\ Len(q.items) \in Nat /\ Len(q.items) <= QueueMax
           /\ q.notEmpty \in BOOLEAN /\ q.notFull \in BOOLEAN
           /\ (Empty(q) <=> Len(q.items) = 0)
           /\ (Full(q) <=> Len(q.items) >= QueueMax) /\ QueueMax \in Nat /\ QueueMax > 0
           /\ Full(q) => ~Empty(q)
<1>1. /\ q.items \in Seq(Replies) /\ Len(q.items) <= QueueMax
      /\ q.notEmpty \in BOOLEAN /\ q.notFull \in BOOLEAN
  BY DEF Queues, Room
<1>2. Len(q.items) \in Nat /\ (q.items = <<>> <=> Len(q.items) = 0)
  BY <1>1, LenProperties, EmptySeq
<1> QED BY <1>1, <1>2, QueueMaxAssumption DEF Empty, Full

LEMMA PushSound ==
    ASSUME NEW q \in Queues, ~Full(q), q.notFull => Full(q), NEW x \in Replies
    PROVE  LET p == PushAnyway(q, x)
           IN  /\ p \in Queues /\ Push(q, x) = p
               /\ ~p.notFull /\ ~p.notEmpty /\ ~Empty(p)
<1> DEFINE p == [q EXCEPT !.items = Append(q.items, x), !.notEmpty = FALSE]
<1>1. PushAnyway(q, x) = p /\ Push(q, x) = p
  BY DEF PushAnyway, Push
<1>2. q.items \in Seq(Replies) /\ Len(q.items) \in Nat /\ QueueMax \in Nat /\ Len(q.items) < QueueMax
  BY QueueTypes
<1>3. Append(q.items, x) \in Seq(Replies) /\ Len(Append(q.items, x)) = Len(q.items) + 1
  BY <1>2, AppendProperties
<1>4. p \in Queues
  <2>1. Len(q.items) + 1 <= QueueMax
    BY ONLY <1>2
  <2> QED BY <1>3, <2>1 DEF Queues, Room
<1>5. p.items = Append(q.items, x) /\ p.notEmpty = FALSE /\ p.notFull = q.notFull
  BY DEF Queues
<1> HIDE DEF p
<1>6. Len(p.items) = Len(q.items) + 1 /\ ~p.notFull /\ ~p.notEmpty
  BY <1>3, <1>5
<1>7. Len(p.items) # 0
  BY ONLY <1>2, <1>6
<1> QED BY <1>1, <1>4, <1>6, <1>7, QueueTypes

LEMMA PopSound ==
    ASSUME NEW q \in Queues, ~Empty(q), q.notFull => Full(q), q.notEmpty => Empty(q)
    PROVE  LET p == Pop(q)
           IN  /\ p \in Queues /\ ~Full(p)
               /\ ~p.notFull /\ ~p.notEmpty
               /\ Head(q.items) \in Replies
<1> DEFINE p == [q EXCEPT !.items = Tail(q.items),
                          !.notFull = q.notFull /\ Len(q.items) # QueueMax]
<1>1. Pop(q) = p
  BY DEF Pop
<1>2. /\ q.items \in Seq(Replies) /\ q.items # <<>> /\ Len(q.items) \in Nat /\ QueueMax \in Nat
      /\ q.notFull => Len(q.items) >= QueueMax
      /\ ~q.notEmpty /\ q.notFull \in BOOLEAN /\ Len(q.items) <= QueueMax
  BY QueueTypes DEF Empty
<1>3. /\ Tail(q.items) \in Seq(Replies) /\ Len(Tail(q.items)) = Len(q.items) - 1
      /\ Head(q.items) \in Replies /\ Len(q.items) > 0
  BY <1>2, HeadThenTail
<1>4. p \in Queues
  <2>1. Len(Tail(q.items)) <= QueueMax
    BY <1>2, <1>3
  <2> QED BY <1>2, <1>3, <2>1 DEF Queues, Room
<1>5. /\ p.items = Tail(q.items) /\ p.notEmpty = q.notEmpty
      /\ p.notFull = (q.notFull /\ Len(q.items) # QueueMax)
  BY DEF Queues
<1> HIDE DEF p
<1>6. Len(p.items) = Len(q.items) - 1 /\ ~p.notEmpty
  BY <1>2, <1>3, <1>5
<1>7. ~p.notFull
  <2>1. q.notFull => Len(q.items) = QueueMax
    BY <1>2
  <2>2. (q.notFull /\ Len(q.items) # QueueMax) = FALSE
    BY <2>1, Zenon
  <2> QED BY <1>5, <2>2
<1>8. ~(Len(p.items) >= QueueMax)
  BY <1>2, <1>3, <1>6
<1> QED BY <1>1, <1>3, <1>4, <1>6, <1>7, <1>8, QueueTypes

-----------------------------------------------------------------------------
(* A connection after a step of it: what the step must keep.               *)
Follows(k, k2, whole) ==
    /\ k2 \in ConnectionObjects /\ ConnectionSound(k2, whole)
    /\ k2.at = k.at /\ k2.shut = k.shut /\ k2.reader # "none"

LEMMA ConnectionTypes ==
    ASSUME NEW k \in ConnectionObjects
    PROVE  /\ k.at \in Shards /\ k.reader \in ReaderStates /\ k.request \in Requests \union {"none"}
           /\ k.replies \in Queues /\ k.responder \in ResponderStates /\ k.writes \in Seq(Nat)
           /\ k.out \in Streams /\ k.wire \in Seq(Units) /\ k.shut \in BOOLEAN
BY DEF ConnectionObjects

(* The reading fiber touches the queue only.                               *)
LEMMA ReaderStep ==
    ASSUME NEW k \in ConnectionObjects, NEW k2 \in ConnectionObjects,
           NEW whole, NEW whole2, whole2 => whole, ConnectionSound(k, whole),
           k2.at = k.at, k2.shut = k.shut, k2.reader # "none",
           k2.responder = k.responder, k2.out = k.out, k2.wire = k.wire, QueueSound(k2)
    PROVE  Follows(k, k2, whole2)
<1>1. StreamSound(k2, whole2)
  BY DEF ConnectionSound, StreamSound
<1> QED BY <1>1 DEF Follows, ConnectionSound

(* A queue that is full is waited for; it is as it was otherwise.          *)
LEMMA AskSound ==
    ASSUME NEW k \in ConnectionObjects
    PROVE  LET a == AskForRoom(k)
           IN  /\ a \in ConnectionObjects /\ a.at = k.at /\ a.shut = k.shut
               /\ a.reader = k.reader /\ a.request = k.request /\ a.responder = k.responder
               /\ a.out = k.out /\ a.wire = k.wire /\ a.writes = k.writes
               /\ a.replies.items = k.replies.items /\ a.replies.notEmpty = k.replies.notEmpty
               /\ (Full(a.replies) <=> Full(k.replies))
               /\ (Empty(a.replies) <=> Empty(k.replies))
               /\ Full(k.replies) => a.replies.notFull
               /\ ~Full(k.replies) => a.replies.notFull = k.replies.notFull
<1>1. CASE Full(k.replies)
  <2> DEFINE q == [k.replies EXCEPT !.notFull = TRUE]
  <2>1. AskForRoom(k) = [k EXCEPT !.replies = q]
    BY <1>1 DEF AskForRoom, AwaitRoom
  <2>2. /\ q \in Queues /\ q.items = k.replies.items /\ q.notEmpty = k.replies.notEmpty
        /\ q.notFull = TRUE
    BY ConnectionTypes DEF Queues
  <2> HIDE DEF q
  <2>3. (Full(q) <=> Full(k.replies)) /\ (Empty(q) <=> Empty(k.replies))
    BY <2>2 DEF Full, Empty
  <2> QED BY <1>1, <2>1, <2>2, <2>3 DEF ConnectionObjects
<1>2. CASE ~Full(k.replies)
  <2>1. AskForRoom(k) = [k EXCEPT !.replies = k.replies]
    BY <1>2 DEF AskForRoom
  <2>2. AskForRoom(k) = k
    BY <2>1 DEF ConnectionObjects
  <2> QED BY <1>2, <2>2
<1> QED BY <1>1, <1>2

LEMMA ReadRequestSound ==
    ASSUME NEW k \in ConnectionObjects, NEW whole, ConnectionSound(k, whole),
           k.reader = "parsing", NEW request \in Requests
    PROVE  Follows(k, [AskForRoom(k) EXCEPT
                           !.reader = IF Full(k.replies) THEN "room" ELSE "handling",
                           !.request = request], whole)
<1> DEFINE a == AskForRoom(k)
           next == IF Full(k.replies) THEN "room" ELSE "handling"
           k2 == [a EXCEPT !.reader = next, !.request = request]
<1>1. /\ a \in ConnectionObjects /\ a.at = k.at /\ a.shut = k.shut
      /\ a.responder = k.responder /\ a.out = k.out /\ a.wire = k.wire
      /\ a.replies.items = k.replies.items /\ a.replies.notEmpty = k.replies.notEmpty
      /\ (Full(a.replies) <=> Full(k.replies))
      /\ (Empty(a.replies) <=> Empty(k.replies))
      /\ Full(k.replies) => a.replies.notFull
      /\ ~Full(k.replies) => a.replies.notFull = k.replies.notFull
  BY AskSound
<1> HIDE DEF a
<1>2. next \in {"room", "handling"} /\ (next = "room" => Full(k.replies)) /\ (next = "handling" => ~Full(k.replies))
  OBVIOUS
<1> HIDE DEF next
<1>3. /\ k2 \in ConnectionObjects /\ k2.at = k.at /\ k2.shut = k.shut
      /\ k2.responder = k.responder /\ k2.out = k.out /\ k2.wire = k.wire
      /\ k2.reader = next /\ k2.request = request /\ k2.replies = a.replies
  BY <1>1, <1>2 DEF ConnectionObjects, ReaderStates
<1> HIDE DEF k2
<1>4. QueueSound(k2)
  BY <1>1, <1>2, <1>3 DEF QueueSound, ConnectionSound
<1>5. Follows(k, k2, whole)
  BY <1>2, <1>3, <1>4, ReaderStep
<1> QED BY <1>5 DEF k2, a, next

LEMMA EndOfRepliesSound ==
    ASSUME NEW k \in ConnectionObjects, NEW whole, ConnectionSound(k, whole)
    PROVE  Follows(k, EndOfReplies(k), whole)
<1>1. CASE Full(k.replies)
  <2> DEFINE a == AskForRoom(k)
             k2 == [a EXCEPT !.reader = "pushing"]
  <2>1. EndOfReplies(k) = k2
    BY <1>1 DEF EndOfReplies
  <2>2. /\ a \in ConnectionObjects /\ a.at = k.at /\ a.shut = k.shut
        /\ a.responder = k.responder /\ a.out = k.out /\ a.wire = k.wire
        /\ a.replies.items = k.replies.items /\ a.replies.notEmpty = k.replies.notEmpty
        /\ Full(a.replies) /\ (Empty(a.replies) <=> Empty(k.replies))
        /\ a.replies.notFull
    BY <1>1, AskSound
  <2> HIDE DEF a
  <2>3. /\ k2 \in ConnectionObjects /\ k2.at = k.at /\ k2.shut = k.shut
        /\ k2.responder = k.responder /\ k2.out = k.out /\ k2.wire = k.wire
        /\ k2.reader = "pushing" /\ k2.replies = a.replies
    BY <2>2 DEF ConnectionObjects, ReaderStates
  <2> HIDE DEF k2
  <2>4. QueueSound(k2)
    BY <2>2, <2>3 DEF QueueSound, ConnectionSound
  <2> QED BY <2>1, <2>3, <2>4, ReaderStep
<1>2. CASE ~Full(k.replies)
  <2> DEFINE q == PushAnyway(k.replies, NoReply)
             k2 == [k EXCEPT !.replies = q, !.reader = "finished"]
  <2>1. EndOfReplies(k) = k2
    BY <1>2 DEF EndOfReplies
  <2>2. /\ q \in Queues /\ ~q.notFull /\ ~q.notEmpty
        /\ ~Empty(q)
    BY <1>2, ConnectionTypes, PushSound DEF ConnectionSound, QueueSound, Replies
  <2> HIDE DEF q
  <2>3. /\ k2 \in ConnectionObjects /\ k2.at = k.at /\ k2.shut = k.shut
        /\ k2.responder = k.responder /\ k2.out = k.out /\ k2.wire = k.wire
        /\ k2.reader = "finished" /\ k2.replies = q
    BY <2>2 DEF ConnectionObjects, ReaderStates
  <2> HIDE DEF k2
  <2>4. QueueSound(k2)
    BY <2>2, <2>3 DEF QueueSound
  <2> QED BY <2>1, <2>3, <2>4, ReaderStep
<1> QED BY <1>1, <1>2

LEMMA GenerateReplySound ==
    ASSUME NEW k \in ConnectionObjects, NEW whole, ConnectionSound(k, whole),
           k.reader = "room", ~k.replies.notFull
    PROVE  Follows(k, [k EXCEPT !.reader = "handling"], whole)
<1> DEFINE k2 == [k EXCEPT !.reader = "handling"]
<1>1. /\ k2 \in ConnectionObjects /\ k2.at = k.at /\ k2.shut = k.shut
      /\ k2.responder = k.responder /\ k2.out = k.out /\ k2.wire = k.wire
      /\ k2.reader = "handling" /\ k2.replies = k.replies /\ k2.request = k.request
  BY DEF ConnectionObjects, ReaderStates
<1> HIDE DEF k2
<1>2. QueueSound(k2)
  BY <1>1 DEF QueueSound, ConnectionSound
<1>3. Follows(k, k2, whole)
  BY <1>1, <1>2, ReaderStep
<1> QED BY <1>3 DEF k2

LEMMA PushReplySound ==
    ASSUME NEW k \in ConnectionObjects, NEW whole, ConnectionSound(k, whole),
           k.reader = "handling"
    PROVE  LET k2 == [k EXCEPT !.replies = Push(k.replies, k.request),
                               !.request = "none", !.reader = "parsing"]
           IN  Follows(k, IF ShouldClose(k.request) THEN EndOfReplies(k2) ELSE k2, whole)
<1> DEFINE q == Push(k.replies, k.request)
           k2 == [k EXCEPT !.replies = q, !.request = "none", !.reader = "parsing"]
<1>1. /\ q \in Queues /\ ~q.notFull /\ ~q.notEmpty
      /\ ~Empty(q)
  <2>1. /\ k.replies \in Queues /\ k.request \in Replies /\ ~Full(k.replies)
        /\ k.replies.notFull => Full(k.replies)
    BY ConnectionTypes DEF ConnectionSound, QueueSound, Replies
  <2> QED BY <2>1, PushSound
<1> HIDE DEF q
<1>2. /\ k2 \in ConnectionObjects /\ k2.at = k.at /\ k2.shut = k.shut
      /\ k2.responder = k.responder /\ k2.out = k.out /\ k2.wire = k.wire
      /\ k2.reader = "parsing" /\ k2.replies = q
  BY <1>1 DEF ConnectionObjects, ReaderStates
<1> HIDE DEF k2
<1>3. QueueSound(k2)
  BY <1>1, <1>2 DEF QueueSound
<1>4. Follows(k, k2, whole)
  BY <1>2, <1>3, ReaderStep
<1>5. Follows(k2, EndOfReplies(k2), whole)
  BY <1>4, EndOfRepliesSound DEF Follows
<1>6. Follows(k, EndOfReplies(k2), whole)
  BY <1>4, <1>5 DEF Follows
<1>7. Follows(k, IF ShouldClose(k.request) THEN EndOfReplies(k2) ELSE k2, whole)
  BY <1>4, <1>6
<1> QED BY <1>7 DEF k2, q

LEMMA PushEofSound ==
    ASSUME NEW k \in ConnectionObjects, NEW whole, ConnectionSound(k, whole),
           k.reader = "pushing", ~k.replies.notFull
    PROVE  Follows(k, [k EXCEPT !.replies = PushAnyway(k.replies, NoReply),
                                !.reader = "finished"], whole)
<1>1. ~Full(k.replies)
  BY DEF ConnectionSound, QueueSound
<1>2. Follows(k, EndOfReplies(k), whole)
  BY EndOfRepliesSound
<1> QED BY <1>1, <1>2 DEF EndOfReplies

-----------------------------------------------------------------------------
(* The responding fiber.                                                   *)
LEMMA CloseOutputSound ==
    ASSUME NEW k \in ConnectionObjects, NEW whole, QueueSound(k),
           PutsSound(k.out), ~Writing(k.out), k.wire = UpToUnit(Len(k.wire)),
           whole => Join(k.wire, Unsent(k.out)) = UpToUnit(k.out.units) /\ ~k.out.failed,
           k.reader # "none"
    PROVE  Follows(k, CloseOutput(k), whole)
<1> DEFINE o == Flush(k.out)
           none == <<>>
           k2 == [k EXCEPT !.out = o, !.writes = none, !.responder = "draining"]
<1>1. CloseOutput(k) = k2
  BY DEF CloseOutput
<1>2. k.out \in Streams
  BY ConnectionTypes
<1>3. /\ o \in Streams /\ PutsSound(o) /\ ~Writing(o)
      /\ Unsent(o) = Unsent(k.out) /\ o.units = k.out.units
      /\ ~k.out.failed => o.flush /\ ~o.failed
  BY <1>2, FlushSound
<1> HIDE DEF o
<1>4. /\ k2 \in ConnectionObjects /\ k2.at = k.at /\ k2.shut = k.shut
      /\ k2.reader = k.reader /\ k2.replies = k.replies /\ k2.request = k.request
      /\ k2.out = o /\ k2.wire = k.wire /\ k2.responder = "draining"
  BY <1>3, EmptySeq DEF ConnectionObjects, ResponderStates
<1> HIDE DEF k2
<1>5. QueueSound(k2)
  BY <1>4 DEF QueueSound
<1>6. StreamSound(k2, whole)
  BY <1>3, <1>4 DEF StreamSound
<1> QED BY <1>1, <1>4, <1>5, <1>6 DEF Follows, ConnectionSound

LEMMA NextReplySound ==
    ASSUME NEW k \in ConnectionObjects, NEW whole, QueueSound(k),
           PutsSound(k.out), ~Writing(k.out), k.wire = UpToUnit(Len(k.wire)),
           whole => Join(k.wire, Unsent(k.out)) = UpToUnit(k.out.units) /\ ~k.out.failed,
           k.reader # "none"
    PROVE  Follows(k, NextReply(k), whole)
<1>1. CASE Empty(k.replies)
  <2> DEFINE q == [k.replies EXCEPT !.notEmpty = TRUE]
             k2 == [k EXCEPT !.replies = q, !.responder = "hungry"]
  <2>1. NextReply(k) = k2
    BY <1>1 DEF NextReply, AwaitItem
  <2>2. /\ q \in Queues /\ q.items = k.replies.items /\ q.notFull = k.replies.notFull
        /\ q.notEmpty = TRUE
    BY ConnectionTypes DEF Queues
  <2> HIDE DEF q
  <2>3. (Full(q) <=> Full(k.replies)) /\ Empty(q)
    BY <1>1, <2>2 DEF Full, Empty
  <2>4. /\ k2 \in ConnectionObjects /\ k2.at = k.at /\ k2.shut = k.shut
        /\ k2.reader = k.reader /\ k2.replies = q /\ k2.request = k.request
        /\ k2.out = k.out /\ k2.wire = k.wire /\ k2.responder = "hungry"
    BY <2>2 DEF ConnectionObjects, ResponderStates
  <2> HIDE DEF k2
  <2>5. QueueSound(k2)
    BY <2>2, <2>3, <2>4 DEF QueueSound
  <2>6. StreamSound(k2, whole)
    BY <2>4 DEF StreamSound
  <2> QED BY <2>1, <2>4, <2>5, <2>6 DEF Follows, ConnectionSound
<1>2. CASE ~Empty(k.replies)
  <2> DEFINE k2 == [k EXCEPT !.responder = "popping"]
  <2>1. NextReply(k) = k2
    BY <1>2 DEF NextReply
  <2>2. /\ k2 \in ConnectionObjects /\ k2.at = k.at /\ k2.shut = k.shut
        /\ k2.reader = k.reader /\ k2.replies = k.replies /\ k2.request = k.request
        /\ k2.out = k.out /\ k2.wire = k.wire /\ k2.responder = "popping"
    BY DEF ConnectionObjects, ResponderStates
  <2> HIDE DEF k2
  <2>3. QueueSound(k2)
    BY <1>2, <2>2 DEF QueueSound
  <2>4. StreamSound(k2, whole)
    BY <2>2 DEF StreamSound
  <2> QED BY <2>1, <2>2, <2>3, <2>4 DEF Follows, ConnectionSound
<1> QED BY <1>1, <1>2

LEMMA TakeReplySound ==
    ASSUME NEW k \in ConnectionObjects, NEW whole, ConnectionSound(k, whole),
           k.reader # "none",
           \/ k.responder = "popping" /\ ~Empty(k.replies)
           \/ k.responder = "hungry" /\ ~k.replies.notEmpty
    PROVE  LET reply == Head(k.replies.items)
               k2 == [k EXCEPT !.replies = Pop(k.replies)]
           IN  Follows(k, IF reply = NoReply THEN CloseOutput(k2)
                          ELSE [k2 EXCEPT !.responder = "writing",
                                          !.writes = <<1, BodySize(reply)>>], whole)
<1> DEFINE reply == Head(k.replies.items)
           q == Pop(k.replies)
           k2 == [k EXCEPT !.replies = q]
           both == <<1, BodySize(reply)>>
           k3 == [k2 EXCEPT !.responder = "writing", !.writes = both]
<1>1. /\ q \in Queues /\ ~Full(q)
      /\ ~q.notFull /\ ~q.notEmpty
  <2>1. /\ k.replies \in Queues /\ ~Empty(k.replies)
        /\ k.replies.notFull => Full(k.replies)
        /\ k.replies.notEmpty => Empty(k.replies)
    BY ConnectionTypes DEF ConnectionSound, QueueSound
  <2> QED BY <2>1, PopSound
<1>2. both \in Seq(Nat)
  <2>1. BodySize(reply) \in Nat
    BY BufferSizeAssumption DEF BodySize
  <2> QED BY <2>1
<1> HIDE DEF q, both
<1>3. /\ k2 \in ConnectionObjects /\ k2.at = k.at /\ k2.shut = k.shut
      /\ k2.reader = k.reader /\ k2.replies = q /\ k2.request = k.request
      /\ k2.out = k.out /\ k2.wire = k.wire /\ k2.responder = k.responder
  BY <1>1 DEF ConnectionObjects
<1> HIDE DEF k2
<1>4. /\ k3 \in ConnectionObjects /\ k3.at = k.at /\ k3.shut = k.shut
      /\ k3.reader = k.reader /\ k3.replies = q /\ k3.request = k.request
      /\ k3.out = k.out /\ k3.wire = k.wire /\ k3.responder = "writing"
  BY <1>2, <1>3 DEF ConnectionObjects, ResponderStates
<1> HIDE DEF k3
<1>5. /\ k.reader \in {"room", "handling"} => k.request \in Requests
      /\ PutsSound(k.out) /\ ~Writing(k.out) /\ k.wire = UpToUnit(Len(k.wire))
      /\ whole => Join(k.wire, Unsent(k.out)) = UpToUnit(k.out.units) /\ ~k.out.failed
  BY DEF ConnectionSound, QueueSound, StreamSound
<1>6. CASE reply = NoReply
  <2>1. k2.responder \in {"popping", "hungry"} /\ QueueSound([k2 EXCEPT !.responder = "writing"])
    <3> DEFINE k4 == [k2 EXCEPT !.responder = "writing"]
    <3>1. /\ k4.reader = k.reader /\ k4.replies = q /\ k4.request = k.request
          /\ k4.responder = "writing"
      BY <1>3 DEF ConnectionObjects
    <3> HIDE DEF k4
    <3>2. QueueSound(k4)
      BY <1>1, <1>5, <3>1 DEF QueueSound
    <3> QED BY <1>3, <3>2 DEF k4
  <2> DEFINE k4 == [k2 EXCEPT !.responder = "writing"]
  <2>2. /\ k4 \in ConnectionObjects /\ k4.at = k.at /\ k4.shut = k.shut
        /\ k4.reader = k.reader /\ k4.out = k.out /\ k4.wire = k.wire
        /\ CloseOutput(k4) = CloseOutput(k2)
    BY <1>3 DEF ConnectionObjects, ResponderStates, CloseOutput
  <2> HIDE DEF k4
  <2>3. Follows(k4, CloseOutput(k4), whole)
    BY <1>5, <2>1, <2>2, CloseOutputSound DEF k4
  <2>4. Follows(k, CloseOutput(k2), whole)
    BY <2>2, <2>3 DEF Follows
  <2> QED BY <1>6, <2>4 DEF k2, q
<1>7. CASE reply # NoReply
  <2>1. QueueSound(k3)
    BY <1>1, <1>4, <1>5 DEF QueueSound
  <2>2. StreamSound(k3, whole)
    BY <1>4, <1>5 DEF StreamSound
  <2>3. Follows(k, k3, whole)
    BY <1>4, <2>1, <2>2 DEF Follows, ConnectionSound
  <2> QED BY <1>7, <2>3 DEF k3, k2, q, both
<1> QED BY <1>6, <1>7

LEMMA WriteReplySound ==
    ASSUME NEW k \in ConnectionObjects, NEW whole, ConnectionSound(k, whole),
           k.reader # "none", k.responder = "writing", k.writes # <<>>, ~Writing(k.out)
    PROVE  Follows(k, [k EXCEPT !.out = Write(k.out, Head(k.writes)),
                                !.writes = Tail(k.writes)], whole)
<1> DEFINE n == Head(k.writes)
           o == Write(k.out, n)
           left == Tail(k.writes)
           k2 == [k EXCEPT !.out = o, !.writes = left]
<1>1. n \in Nat /\ left \in Seq(Nat)
  BY ConnectionTypes, HeadThenTail
<1> HIDE DEF n, left
<1>2. /\ k.out \in Streams /\ k.wire \in Seq(Units) /\ PutsSound(k.out)
      /\ k.wire = UpToUnit(Len(k.wire))
      /\ whole => Join(k.wire, Unsent(k.out)) = UpToUnit(k.out.units) /\ ~k.out.failed
  BY ConnectionTypes DEF ConnectionSound, StreamSound
<1>3. /\ o \in Streams /\ PutsSound(o) /\ o.units = k.out.units + n /\ o.failed = k.out.failed
      /\ Unsent(o) = Join(Unsent(k.out), Written(k.out, n))
  BY <1>1, <1>2, WriteSound
<1> HIDE DEF o
<1>4. Join(k.wire, Join(Unsent(k.out), Written(k.out, n)))
          = Join(Join(k.wire, Unsent(k.out)), Written(k.out, n))
  <2>1. Unsent(k.out) \in Seq(Units) /\ k.out.units \in Nat
    BY <1>2, StreamTypes
  <2>2. Written(k.out, n) \in Seq(Units)
    BY <1>1, <2>1 DEF Written, Units
  <2> QED BY <1>2, <2>1, <2>2, JoinAssoc
<1>5. Join(UpToUnit(k.out.units), Written(k.out, n)) = UpToUnit(k.out.units + n)
  BY <1>1, <1>2, UpToUnitMore
<1>6. /\ k2 \in ConnectionObjects /\ k2.at = k.at /\ k2.shut = k.shut
      /\ k2.reader = k.reader /\ k2.replies = k.replies /\ k2.request = k.request
      /\ k2.out = o /\ k2.wire = k.wire /\ k2.responder = "writing"
  BY <1>1, <1>3 DEF ConnectionObjects
<1> HIDE DEF k2
<1>7. QueueSound(k2)
  BY <1>6 DEF QueueSound, ConnectionSound
<1>8. StreamSound(k2, whole)
  BY <1>2, <1>3, <1>4, <1>5, <1>6 DEF StreamSound
<1>9. Follows(k, k2, whole)
  BY <1>6, <1>7, <1>8 DEF Follows, ConnectionSound
<1> QED BY <1>9 DEF k2, o, left, n

LEMMA FlushReplySound ==
    ASSUME NEW k \in ConnectionObjects, NEW whole, ConnectionSound(k, whole),
           k.reader # "none", k.responder = "writing", ~Writing(k.out)
    PROVE  LET k2 == [k EXCEPT !.out = Flush(k.out)]
           IN  Follows(k, IF FlushFails(k.out) THEN CloseOutput(k2) ELSE NextReply(k2), whole)
<1> DEFINE o == Flush(k.out)
           k2 == [k EXCEPT !.out = o]
<1>1. /\ k.out \in Streams /\ PutsSound(k.out) /\ k.wire = UpToUnit(Len(k.wire))
      /\ whole => Join(k.wire, Unsent(k.out)) = UpToUnit(k.out.units) /\ ~k.out.failed
  BY ConnectionTypes DEF ConnectionSound, StreamSound
<1>2. /\ o \in Streams /\ PutsSound(o) /\ ~Writing(o) /\ Unsent(o) = Unsent(k.out)
      /\ o.units = k.out.units /\ (~k.out.failed => ~o.failed)
  BY <1>1, FlushSound
<1> HIDE DEF o
<1>3. /\ k2 \in ConnectionObjects /\ k2.at = k.at /\ k2.shut = k.shut
      /\ k2.reader = k.reader /\ k2.replies = k.replies /\ k2.request = k.request
      /\ k2.out = o /\ k2.wire = k.wire /\ k2.responder = k.responder
  BY <1>2 DEF ConnectionObjects
<1> HIDE DEF k2
<1>4. QueueSound(k2)
  BY <1>3 DEF QueueSound, ConnectionSound
<1>5. Follows(k2, CloseOutput(k2), whole)
  BY <1>1, <1>2, <1>3, <1>4, CloseOutputSound
<1>6. Follows(k2, NextReply(k2), whole)
  BY <1>1, <1>2, <1>3, <1>4, NextReplySound
<1>7. Follows(k, IF FlushFails(k.out) THEN CloseOutput(k2) ELSE NextReply(k2), whole)
  BY <1>3, <1>5, <1>6 DEF Follows
<1> QED BY <1>7 DEF k2, o

LEMMA OutputClosedSound ==
    ASSUME NEW k \in ConnectionObjects, NEW whole, ConnectionSound(k, whole),
           k.reader # "none", k.responder = "draining", ~k.out.inBatch
    PROVE  Follows(k, [k EXCEPT !.responder = "finished"], whole)
<1> DEFINE k2 == [k EXCEPT !.responder = "finished"]
<1>1. /\ k2 \in ConnectionObjects /\ k2.at = k.at /\ k2.shut = k.shut
      /\ k2.reader = k.reader /\ k2.replies = k.replies /\ k2.request = k.request
      /\ k2.out = k.out /\ k2.wire = k.wire /\ k2.responder = "finished"
  BY DEF ConnectionObjects, ResponderStates
<1> HIDE DEF k2
<1>2. QueueSound(k2)
  BY <1>1 DEF QueueSound, ConnectionSound
<1>3. StreamSound(k2, whole)
  BY <1>1 DEF StreamSound, ConnectionSound
<1>4. Follows(k, k2, whole)
  BY <1>1, <1>2, <1>3 DEF Follows, ConnectionSound
<1> QED BY <1>4 DEF k2

-----------------------------------------------------------------------------
(* The puts of a connection's stream: only its stream and what its socket  *)
(* has are different.                                                      *)
LEMMA PutStep ==
    ASSUME NEW k \in ConnectionObjects, NEW whole, ConnectionSound(k, whole),
           k.reader # "none", NEW o \in Streams, NEW w \in Seq(Units), NEW whole2,
           PutsSound(o), w = UpToUnit(Len(w)),
           whole2 => Join(w, Unsent(o)) = UpToUnit(o.units) /\ ~o.failed,
           k.responder # "writing" => ~Writing(o),
           k.responder \in {"draining", "finished"} /\ whole2 => o.flush \/ o.buffer = <<>>,
           k.responder = "finished" => ~o.inBatch
    PROVE  Follows(k, [k EXCEPT !.wire = w, !.out = o], whole2)
<1> DEFINE k2 == [k EXCEPT !.wire = w, !.out = o]
<1>1. /\ k2 \in ConnectionObjects /\ k2.at = k.at /\ k2.shut = k.shut
      /\ k2.reader = k.reader /\ k2.replies = k.replies /\ k2.request = k.request
      /\ k2.out = o /\ k2.wire = w /\ k2.responder = k.responder
  BY DEF ConnectionObjects
<1> HIDE DEF k2
<1>2. QueueSound(k2)
  BY <1>1 DEF QueueSound, ConnectionSound
<1>3. StreamSound(k2, whole2)
  BY <1>1 DEF StreamSound
<1>4. Follows(k, k2, whole2)
  BY <1>1, <1>2, <1>3 DEF Follows, ConnectionSound
<1> QED BY <1>4 DEF k2

LEMMA SameWire ==
    ASSUME NEW k \in ConnectionObjects, NEW o
    PROVE  [k EXCEPT !.wire = k.wire, !.out = o] = [k EXCEPT !.out = o]
BY DEF ConnectionObjects

(* What StreamSound says of a connection, under names the provers take.    *)
LEMMA StreamFacts ==
    ASSUME NEW k \in ConnectionObjects, NEW whole, ConnectionSound(k, whole)
    PROVE  /\ k.out \in Streams /\ k.wire \in Seq(Units) /\ PutsSound(k.out)
           /\ k.wire = UpToUnit(Len(k.wire))
           /\ whole => Join(k.wire, Unsent(k.out)) = UpToUnit(k.out.units)
           /\ whole => ~k.out.failed
           /\ k.responder # "writing" => ~Writing(k.out)
           /\ k.responder \in {"draining", "finished"} /\ whole => k.out.flush \/ k.out.buffer = <<>>
           /\ k.responder = "finished" => ~k.out.inBatch
BY ConnectionTypes DEF ConnectionSound, StreamSound

LEMMA FlushPollerSound ==
    ASSUME NEW k \in ConnectionObjects, NEW whole, ConnectionSound(k, whole),
           k.reader # "none", Listed(k.out)
    PROVE  Follows(k, [k EXCEPT !.out = PollFlush(k.out)], whole)
<1>1. PICK o : o = k.out
  OBVIOUS
<1>2. /\ o \in Streams /\ PutsSound(o) /\ o.inBatch /\ ~o.flushing
  BY <1>1, StreamFacts DEF Listed
<1>3. o.byFlush = <<>>
  BY <1>2 DEF PutsSound
<1>4. PICK p : p = PollFlush(o)
  OBVIOUS
<1>5. /\ p \in Streams /\ PutsSound(p) /\ (Writing(p) <=> Writing(o))
      /\ Unsent(p) = Unsent(o) /\ p.units = o.units /\ p.failed = o.failed
      /\ o.flush \/ o.buffer = <<>> => p.flush \/ p.buffer = <<>>
  BY <1>2, <1>3, <1>4, PollFlushSound
<1>6. Follows(k, [k EXCEPT !.wire = k.wire, !.out = p], whole)
  BY <1>1, <1>2, <1>5, StreamFacts, PutStep
<1> QED BY <1>1, <1>4, <1>6, SameWire

LEMMA HeldPutSound ==
    ASSUME NEW k \in ConnectionObjects, NEW whole, ConnectionSound(k, whole),
           k.reader # "none", CanPutHeld(k.out)
    PROVE  Follows(k, [k EXCEPT !.out = PutHeld(k.out)], whole)
<1>1. PICK o : o = k.out
  OBVIOUS
<1>2. PICK p : p = PutHeld(o)
  OBVIOUS
<1>3. /\ p \in Streams /\ PutsSound(p) /\ Writing(o)
      /\ Unsent(p) = Unsent(o) /\ p.units = o.units /\ p.failed = o.failed
  BY <1>1, <1>2, StreamFacts, PutHeldSound
<1>4. k.responder = "writing"
  BY <1>1, <1>3, StreamFacts
<1>5. Follows(k, [k EXCEPT !.wire = k.wire, !.out = p], whole)
  BY <1>1, <1>3, <1>4, StreamFacts, PutStep
<1> QED BY <1>1, <1>2, <1>5, SameWire

(* The socket takes all of a put: what it has grows by what the stream     *)
(* had first.                                                              *)
LEMMA TakenWhole ==
    ASSUME NEW w \in Seq(Units), NEW d \in Seq(Units), NEW u \in Seq(Units), NEW n \in Nat,
           Join(w, Join(d, u)) = UpToUnit(n)
    PROVE  /\ Join(w, d) \in Seq(Units) /\ Join(Join(w, d), u) = UpToUnit(n)
           /\ Join(w, d) = UpToUnit(Len(Join(w, d)))
<1>1. Join(w, d) \in Seq(Units)
  BY JoinType
<1>2. Join(Join(w, d), u) = UpToUnit(n)
  BY JoinAssoc
<1>3. Join(w, d) = UpToUnit(Len(Join(w, d)))
  BY <1>1, <1>2, UpToUnitPart
<1> QED BY <1>1, <1>2, <1>3

LEMMA FlushSentSound ==
    ASSUME NEW k \in ConnectionObjects, NEW whole, ConnectionSound(k, whole),
           k.reader # "none", k.out.flushing, k.out.byFlush # <<>> => whole
    PROVE  Follows(k, [k EXCEPT !.wire = k.wire \o k.out.byFlush,
                                !.out = FlushDone(k.out)], whole)
<1>1. PICK o : o = k.out
  OBVIOUS
<1>2. PICK p : p = FlushDone(o)
  OBVIOUS
<1>3. /\ o \in Streams /\ o.inBatch
      /\ p \in Streams /\ PutsSound(p) /\ (Writing(p) <=> Writing(o))
      /\ Unsent(o) = Join(o.byFlush, Unsent(p)) /\ p.units = o.units /\ p.failed = o.failed
      /\ o.flush \/ o.buffer = <<>> => p.flush \/ p.buffer = <<>>
  BY <1>1, <1>2, StreamFacts, FlushPutSound
<1>4. /\ k.wire \in Seq(Units) /\ o.byFlush \in Seq(Units) /\ Unsent(p) \in Seq(Units)
      /\ o.units \in Nat
  BY <1>3, StreamTypes, StreamFacts
<1>5. PICK w : w = k.wire \o o.byFlush
  OBVIOUS
<1>6. /\ w \in Seq(Units) /\ w = UpToUnit(Len(w))
      /\ whole => Join(w, Unsent(p)) = UpToUnit(o.units)
  <2>1. CASE whole
    <3>1. Join(k.wire, Join(o.byFlush, Unsent(p))) = UpToUnit(o.units)
      BY <1>1, <1>3, <2>1, StreamFacts
    <3>2. w = Join(k.wire, o.byFlush)
      BY <1>5 DEF Join
    <3> QED BY <1>4, <3>1, <3>2, TakenWhole
  <2>2. CASE ~whole
    <3>1. o.byFlush = <<>>
      BY <1>1, <2>2
    <3>2. w = k.wire
      BY <1>4, <1>5, <3>1, JoinEmpty DEF Join
    <3> QED BY <2>2, <3>2, StreamFacts
  <2> QED BY <2>1, <2>2
<1>7. Follows(k, [k EXCEPT !.wire = w, !.out = p], whole)
  BY <1>1, <1>3, <1>6, StreamFacts, PutStep
<1> QED BY <1>1, <1>2, <1>5, <1>7

LEMMA WriterSentSound ==
    ASSUME NEW k \in ConnectionObjects, NEW whole, ConnectionSound(k, whole),
           k.reader # "none", k.out.byWriter # <<>>, whole
    PROVE  Follows(k, [k EXCEPT !.wire = k.wire \o k.out.byWriter,
                                !.out = WriterPutDone(k.out)], whole)
<1>1. PICK o : o = k.out
  OBVIOUS
<1>2. PICK p : p = WriterPutDone(o)
  OBVIOUS
<1>3. /\ o \in Streams /\ Writing(o) /\ p \in Streams /\ PutsSound(p)
      /\ Unsent(o) = Join(o.byWriter, Unsent(p)) /\ p.units = o.units /\ p.failed = o.failed
  BY <1>1, <1>2, StreamFacts, WriterPutSound
<1>4. /\ k.wire \in Seq(Units) /\ o.byWriter \in Seq(Units) /\ Unsent(p) \in Seq(Units)
      /\ o.units \in Nat
  BY <1>3, StreamTypes, StreamFacts
<1>5. PICK w : w = k.wire \o o.byWriter
  OBVIOUS
<1>6. /\ w \in Seq(Units) /\ w = UpToUnit(Len(w)) /\ Join(w, Unsent(p)) = UpToUnit(o.units)
  <2>1. Join(k.wire, Join(o.byWriter, Unsent(p))) = UpToUnit(o.units)
    BY <1>1, <1>3, StreamFacts
  <2>2. w = Join(k.wire, o.byWriter)
    BY <1>5 DEF Join
  <2> QED BY <1>4, <2>1, <2>2, TakenWhole
<1>7. k.responder = "writing"
  BY <1>1, <1>3, StreamFacts
<1>8. Follows(k, [k EXCEPT !.wire = w, !.out = p], whole)
  BY <1>1, <1>3, <1>6, <1>7, StreamFacts, PutStep
<1> QED BY <1>1, <1>2, <1>5, <1>8

(* The socket takes a part of a put, if any, and is not whole afterwards.  *)
LEMMA TakenPart ==
    ASSUME NEW w \in Seq(Units), NEW d \in Seq(Units), NEW u \in Seq(Units), NEW n \in Nat,
           NEW whole, whole => Join(w, Join(d, u)) = UpToUnit(n), w = UpToUnit(Len(w)),
           NEW j \in 0 .. Len(d), ~whole => j = 0
    PROVE  /\ Join(w, SubSeq(d, 1, j)) \in Seq(Units)
           /\ Join(w, SubSeq(d, 1, j)) = UpToUnit(Len(Join(w, SubSeq(d, 1, j))))
<1>1. CASE whole
  BY <1>1, UpToUnitSubSeq
<1>2. CASE ~whole
  <2>1. SubSeq(d, 1, j) = <<>>
    <3>1. j = 0
      BY <1>2
    <3>2. SubSeq(d, 1, 0) = <<>>
      OBVIOUS
    <3> QED BY <3>1, <3>2
  <2>2. Join(w, <<>>) = w
    BY JoinEmpty
  <2> QED BY <2>1, <2>2
<1> QED BY <1>1, <1>2

LEMMA FlushSendFailsSound ==
    ASSUME NEW k \in ConnectionObjects, NEW whole, ConnectionSound(k, whole),
           k.reader # "none", k.out.byFlush # <<>>,
           NEW j \in 0 .. Len(k.out.byFlush), ~whole => j = 0
    PROVE  Follows(k, [k EXCEPT !.wire = k.wire \o SubSeq(k.out.byFlush, 1, j),
                                !.out = FlushPutFailed(k.out)], FALSE)
<1>1. PICK o : o = k.out
  OBVIOUS
<1>2. PICK p : p = FlushPutFailed(o)
  OBVIOUS
<1>3. o \in Streams /\ PutsSound(o) /\ o.flushing
  BY <1>1, StreamFacts DEF PutsSound
<1>4. /\ o.inBatch /\ p \in Streams /\ PutsSound(p) /\ (Writing(p) <=> Writing(o))
      /\ Unsent(o) = Join(o.byFlush, Unsent(FlushDone(o)))
      /\ FlushDone(o) \in Streams
  BY <1>2, <1>3, FlushPutSound
<1>5. /\ k.wire \in Seq(Units) /\ o.byFlush \in Seq(Units) /\ Unsent(FlushDone(o)) \in Seq(Units)
      /\ o.units \in Nat
  BY <1>3, <1>4, StreamTypes, StreamFacts
<1>6. PICK w : w = k.wire \o SubSeq(o.byFlush, 1, j)
  OBVIOUS
<1>7. /\ w \in Seq(Units) /\ w = UpToUnit(Len(w))
  <2>1. whole => Join(k.wire, Join(o.byFlush, Unsent(FlushDone(o)))) = UpToUnit(o.units)
    BY <1>1, <1>4, StreamFacts
  <2>2. w = Join(k.wire, SubSeq(o.byFlush, 1, j))
    BY <1>6 DEF Join
  <2>3. k.wire = UpToUnit(Len(k.wire))
    BY StreamFacts
  <2>4. j \in 0 .. Len(o.byFlush)
    BY <1>1
  <2> QED BY <1>5, <2>1, <2>2, <2>3, <2>4, TakenPart
<1>8. k.responder # "writing" => ~Writing(p)
  BY <1>1, <1>4, StreamFacts
<1>9. k.responder # "finished"
  BY <1>1, <1>4, StreamFacts
<1>10. Follows(k, [k EXCEPT !.wire = w, !.out = p], FALSE)
  BY <1>4, <1>7, <1>8, <1>9, PutStep
<1> QED BY <1>1, <1>2, <1>6, <1>10

LEMMA WriterSendFailsSound ==
    ASSUME NEW k \in ConnectionObjects, NEW whole, ConnectionSound(k, whole),
           k.reader # "none", k.out.byWriter # <<>>,
           NEW j \in 0 .. Len(k.out.byWriter), ~whole => j = 0
    PROVE  Follows(k, CloseOutput([k EXCEPT !.wire = k.wire \o SubSeq(k.out.byWriter, 1, j),
                                            !.out = WriterPutFailed(k.out)]), FALSE)
<1>1. PICK o : o = k.out
  OBVIOUS
<1>2. PICK p : p = WriterPutFailed(o)
  OBVIOUS
<1>3. o \in Streams /\ PutsSound(o) /\ o.byWriter # <<>>
  BY <1>1, StreamFacts
<1>4. /\ Writing(o) /\ p \in Streams /\ PutsSound(p) /\ ~Writing(p)
      /\ Unsent(o) = Join(o.byWriter, Unsent(WriterPutDone(o)))
      /\ WriterPutDone(o) \in Streams
  BY <1>2, <1>3, WriterPutSound
<1>5. /\ k.wire \in Seq(Units) /\ o.byWriter \in Seq(Units)
      /\ Unsent(WriterPutDone(o)) \in Seq(Units) /\ o.units \in Nat
  BY <1>3, <1>4, StreamTypes, StreamFacts
<1>6. PICK w : w = k.wire \o SubSeq(o.byWriter, 1, j)
  OBVIOUS
<1>7. /\ w \in Seq(Units) /\ w = UpToUnit(Len(w))
  <2>1. whole => Join(k.wire, Join(o.byWriter, Unsent(WriterPutDone(o)))) = UpToUnit(o.units)
    BY <1>1, <1>4, StreamFacts
  <2>2. w = Join(k.wire, SubSeq(o.byWriter, 1, j))
    BY <1>6 DEF Join
  <2>3. k.wire = UpToUnit(Len(k.wire))
    BY StreamFacts
  <2>4. j \in 0 .. Len(o.byWriter)
    BY <1>1
  <2> QED BY <1>5, <2>1, <2>2, <2>3, <2>4, TakenPart
<1>8. k.responder = "writing"
  BY <1>1, <1>4, StreamFacts
<1>9. Follows(k, [k EXCEPT !.wire = w, !.out = p], FALSE)
  BY <1>4, <1>7, <1>8, PutStep
<1> DEFINE k2 == [k EXCEPT !.wire = w, !.out = p]
<1>10. k2.out = p /\ k2.wire = w
  BY DEF ConnectionObjects
<1> HIDE DEF k2
<1>11. /\ k2 \in ConnectionObjects /\ QueueSound(k2) /\ k2.reader # "none"
       /\ k2.at = k.at /\ k2.shut = k.shut
  BY <1>9 DEF Follows, ConnectionSound, k2
<1>12. Follows(k2, CloseOutput(k2), FALSE)
  BY <1>4, <1>7, <1>10, <1>11, CloseOutputSound
<1>13. Follows(k, CloseOutput(k2), FALSE)
  BY <1>11, <1>12 DEF Follows
<1> QED BY <1>1, <1>2, <1>6, <1>13 DEF k2

-----------------------------------------------------------------------------
(* A step of one connection keeps the invariant when what it makes of the  *)
(* connection follows.                                                     *)
LEMMA KnownKept ==
    ASSUME Types, Known, UNCHANGED <<backlog, accept, parked, handoffs>>,
           \A d \in Connections : conn'[d].reader # "none" => conn[d].reader # "none",
           \A d \in Connections : client[d].link # "away" => client'[d].link # "away"
    PROVE  Known'
<1>1. /\ \A i \in 1 .. Len(backlog) : backlog[i] \in Connections
      /\ \A s \in Shards : parked[s] \subseteq Connections
      /\ \A h \in handoffs : h.conn \in Connections
      /\ \A s \in Shards : accept[s].conn # 0 => accept[s].conn \in Connections
  BY DEF Types
<1> QED BY <1>1 DEF Known, Made, Live

LEMMA WeakerWhole ==
    ASSUME NEW k, NEW w, NEW w2, w2 => w, ConnectionSound(k, w)
    PROVE  ConnectionSound(k, w2)
BY DEF ConnectionSound, StreamSound

LEMMA OnlyStep ==
    ASSUME IInv, NEW c \in Connections, Live(c), NEW k2, NEW w, Only(c, k2),
           Follows(conn[c], k2, w), client'[c].link # "reset" /\ ~conn[c].shut => w,
           client' \in [Connections -> ClientStates],
           client'[c].link # "away",
           \A d \in Connections \ {c} : client'[d].link = client[d].link
    PROVE  IInv'
<1>1. /\ Types /\ ConnectionsSound /\ Known /\ StoppedIsQuiet
      /\ conn \in [Connections -> ConnectionObjects]
  BY DEF IInv, Types
<1>2. /\ conn' = [conn EXCEPT ![c] = k2]
      /\ UNCHANGED <<backlog, accept, parked, handoffs, balance, stopping, stopped>>
  BY DEF Only, sockets
<1>3. /\ k2 \in ConnectionObjects /\ ConnectionSound(k2, w)
      /\ k2.at = conn[c].at /\ k2.shut = conn[c].shut /\ k2.reader # "none"
  BY DEF Follows
<1>4. /\ conn' \in [Connections -> ConnectionObjects] /\ conn'[c] = k2
      /\ \A d \in Connections \ {c} : conn'[d] = conn[d]
  BY <1>1, <1>2, <1>3
<1>5. \A d \in Connections : (conn'[d].reader # "none" <=> conn[d].reader # "none")
                             /\ conn'[d].at = conn[d].at
  BY <1>3, <1>4 DEF Live
<1>6. Types'
  BY <1>1, <1>2, <1>4 DEF Types, ClientStates
<1>7. ConnectionsSound'
  <2> SUFFICES ASSUME NEW d \in Connections, conn'[d].reader # "none"
               PROVE  ConnectionSound(conn'[d], client'[d].link # "reset" /\ ~conn'[d].shut)
    BY DEF ConnectionsSound, Live, Whole
  <2>1. CASE d = c
    <3>1. ConnectionSound(k2, client'[c].link # "reset" /\ ~k2.shut)
      BY <1>3, WeakerWhole
    <3> QED BY <1>4, <2>1, <3>1
  <2>2. CASE d # c
    <3>1. /\ conn'[d] = conn[d] /\ client'[d].link = client[d].link
          /\ ConnectionSound(conn[d], client[d].link # "reset" /\ ~conn[d].shut)
      BY <1>1, <1>4, <1>5, <2>2 DEF ConnectionsSound, Live, Whole
    <3> QED BY <3>1, WeakerWhole
  <2> QED BY <2>1, <2>2
<1>8. Known'
  <2>1. \A d \in Connections : client[d].link # "away" => client'[d].link # "away"
    OBVIOUS
  <2> QED BY <1>1, <1>2, <1>5, <2>1, KnownKept
<1>9. StoppedIsQuiet'
  <2>1. \A s \in Shards : {d \in Connections : conn'[d].reader # "none" /\ conn'[d].at = s}
                        = {d \in Connections : conn[d].reader # "none" /\ conn[d].at = s}
    BY <1>5
  <2> QED BY <1>1, <1>2, <2>1 DEF StoppedIsQuiet, BeingAccepted, ConnectionsOf, Live
<1> QED BY <1>6, <1>7, <1>8, <1>9 DEF IInv

(* The same, for a step that leaves the clients alone, or only takes what  *)
(* one has sent.                                                           *)
LEMMA SameClients ==
    ASSUME IInv, NEW c \in Connections, Live(c), NEW k2, Only(c, k2),
           Follows(conn[c], k2, Whole(c)),
           client' \in [Connections -> ClientStates],
           \A d \in Connections : client'[d].link = client[d].link
    PROVE  IInv'
<1>1. client[c].link # "away"
  BY DEF IInv, Known, Made
<1>2. client'[c].link # "reset" /\ ~conn[c].shut => Whole(c)
  BY DEF Whole
<1> QED BY <1>1, <1>2, OnlyStep

LEMMA KeptClients ==
    ASSUME IInv, UNCHANGED client
    PROVE  /\ client' \in [Connections -> ClientStates]
           /\ \A d \in Connections : client'[d].link = client[d].link
BY DEF IInv, Types, ClientStates

LEMMA ConnectionKnown ==
    ASSUME IInv, NEW c \in Connections, Live(c)
    PROVE  /\ conn[c] \in ConnectionObjects /\ ConnectionSound(conn[c], Whole(c))
           /\ conn[c].reader # "none" /\ client[c] \in ClientStates /\ client[c].link # "away"
BY DEF IInv, Types, ConnectionsSound, Live, ClientStates, Known, Made

LEMMA ReaderKeeps ==
    ASSUME IInv, NEW c \in Connections, Reader(c)
    PROVE  IInv'
<1>0. Live(c)
  BY DEF Reader, ReadRequest, ReadEnds, GenerateReply, PushReply, PushEof, Reading
<1>1. /\ conn[c] \in ConnectionObjects /\ ConnectionSound(conn[c], Whole(c))
      /\ client[c] \in ClientStates
  BY <1>0, ConnectionKnown
<1>2. CASE ReadRequest(c)
  <2> DEFINE request == Head(client[c].sent)
             k2 == [AskForRoom(conn[c]) EXCEPT
                        !.reader = IF Full(conn[c].replies) THEN "room" ELSE "handling",
                        !.request = request]
             left == IF request = "broken" THEN <<>> ELSE Tail(client[c].sent)
  <2>1. /\ Only(c, k2) /\ conn[c].reader = "parsing" /\ client[c].sent # <<>>
        /\ client' = [client EXCEPT ![c].sent = left]
    BY <1>2 DEF ReadRequest, Reading
  <2>2. request \in Requests /\ left \in Seq(Requests)
    BY <1>1, <2>1, HeadThenTail, EmptySeq DEF ClientStates
  <2>3. Follows(conn[c], k2, Whole(c))
    BY <1>1, <2>1, <2>2, ReadRequestSound
  <2> HIDE DEF k2, left, request
  <2>4. client \in [Connections -> ClientStates]
    BY DEF IInv, Types, ClientStates
  <2>5. /\ client' \in [Connections -> ClientStates]
        /\ \A d \in Connections : client'[d].link = client[d].link
    BY <2>1, <2>2, <2>4 DEF ClientStates
  <2> QED BY <1>0, <2>1, <2>3, <2>5, SameClients
<1>3. CASE ReadEnds(c)
  <2>1. Only(c, EndOfReplies(conn[c])) /\ UNCHANGED client
    BY <1>3 DEF ReadEnds
  <2>2. Follows(conn[c], EndOfReplies(conn[c]), Whole(c))
    BY <1>1, EndOfRepliesSound
  <2> QED BY <1>0, <2>1, <2>2, SameClients, KeptClients
<1>4. CASE GenerateReply(c)
  <2> DEFINE k2 == [conn[c] EXCEPT !.reader = "handling"]
  <2>1. Only(c, k2) /\ UNCHANGED client /\ conn[c].reader = "room" /\ ~conn[c].replies.notFull
    BY <1>4 DEF GenerateReply, Reading
  <2>2. Follows(conn[c], k2, Whole(c))
    BY <1>1, <2>1, GenerateReplySound
  <2> HIDE DEF k2
  <2> QED BY <1>0, <2>1, <2>2, SameClients, KeptClients
<1>5. CASE PushReply(c)
  <2> DEFINE k == [conn[c] EXCEPT !.replies = Push(conn[c].replies, conn[c].request),
                                  !.request = "none", !.reader = "parsing"]
             k2 == IF ShouldClose(conn[c].request) THEN EndOfReplies(k) ELSE k
  <2>1. Only(c, k2) /\ UNCHANGED client /\ conn[c].reader = "handling"
    BY <1>5 DEF PushReply, Reading
  <2>2. Follows(conn[c], k2, Whole(c))
    BY <1>1, <2>1, PushReplySound
  <2> HIDE DEF k2
  <2> QED BY <1>0, <2>1, <2>2, SameClients, KeptClients
<1>6. CASE PushEof(c)
  <2> DEFINE k2 == [conn[c] EXCEPT !.replies = PushAnyway(conn[c].replies, NoReply),
                                   !.reader = "finished"]
  <2>1. Only(c, k2) /\ UNCHANGED client /\ conn[c].reader = "pushing" /\ ~conn[c].replies.notFull
    BY <1>6 DEF PushEof, Reading
  <2>2. Follows(conn[c], k2, Whole(c))
    BY <1>1, <2>1, PushEofSound
  <2> HIDE DEF k2
  <2> QED BY <1>0, <2>1, <2>2, SameClients, KeptClients
<1> QED BY <1>2, <1>3, <1>4, <1>5, <1>6 DEF Reader

LEMMA ResponderKeeps ==
    ASSUME IInv, NEW c \in Connections, Responder(c)
    PROVE  IInv'
<1>0. Live(c)
  BY DEF Responder, TakeReply, WriteReply, FlushReply, OutputClosed, Responding
<1>1. /\ conn[c] \in ConnectionObjects /\ ConnectionSound(conn[c], Whole(c))
      /\ conn[c].reader # "none"
  BY <1>0, ConnectionKnown
<1>2. CASE TakeReply(c)
  <2> DEFINE reply == Head(conn[c].replies.items)
             k == [conn[c] EXCEPT !.replies = Pop(conn[c].replies)]
             k2 == IF reply = NoReply THEN CloseOutput(k)
                   ELSE [k EXCEPT !.responder = "writing", !.writes = <<1, BodySize(reply)>>]
  <2>1. /\ Only(c, k2) /\ UNCHANGED client
        /\ \/ conn[c].responder = "popping" /\ ~Empty(conn[c].replies)
           \/ conn[c].responder = "hungry" /\ ~conn[c].replies.notEmpty
    BY <1>2 DEF TakeReply, Responding
  <2>2. Follows(conn[c], k2, Whole(c))
    BY <1>1, <2>1, TakeReplySound
  <2> HIDE DEF k2
  <2> QED BY <1>0, <2>1, <2>2, SameClients, KeptClients
<1>3. CASE WriteReply(c)
  <2> DEFINE k2 == [conn[c] EXCEPT !.out = Write(conn[c].out, Head(conn[c].writes)),
                                   !.writes = Tail(conn[c].writes)]
  <2>1. /\ Only(c, k2) /\ UNCHANGED client
        /\ conn[c].responder = "writing" /\ conn[c].writes # <<>> /\ ~Writing(conn[c].out)
    BY <1>3 DEF WriteReply, Responding
  <2>2. Follows(conn[c], k2, Whole(c))
    BY <1>1, <2>1, WriteReplySound
  <2> HIDE DEF k2
  <2> QED BY <1>0, <2>1, <2>2, SameClients, KeptClients
<1>4. CASE FlushReply(c)
  <2> DEFINE k == [conn[c] EXCEPT !.out = Flush(conn[c].out)]
             k2 == IF FlushFails(conn[c].out) THEN CloseOutput(k) ELSE NextReply(k)
  <2>1. /\ Only(c, k2) /\ UNCHANGED client
        /\ conn[c].responder = "writing" /\ ~Writing(conn[c].out)
    BY <1>4 DEF FlushReply, Responding
  <2>2. Follows(conn[c], k2, Whole(c))
    BY <1>1, <2>1, FlushReplySound
  <2> HIDE DEF k2
  <2> QED BY <1>0, <2>1, <2>2, SameClients, KeptClients
<1>5. CASE OutputClosed(c)
  <2> DEFINE k2 == [conn[c] EXCEPT !.responder = "finished"]
  <2>1. /\ Only(c, k2) /\ UNCHANGED client
        /\ conn[c].responder = "draining" /\ ~conn[c].out.inBatch
    BY <1>5 DEF OutputClosed, Responding
  <2>2. Follows(conn[c], k2, Whole(c))
    BY <1>1, <2>1, OutputClosedSound
  <2> HIDE DEF k2
  <2> QED BY <1>0, <2>1, <2>2, SameClients, KeptClients
<1> QED BY <1>2, <1>3, <1>4, <1>5 DEF Responder

LEMMA PutsKeep ==
    ASSUME IInv, NEW c \in Connections, FlushPoller(c) \/ Puts(c)
    PROVE  IInv'
<1>0. Live(c)
  BY DEF FlushPoller, Puts, HeldPut, FlushSent, WriterSent
<1>1. /\ conn[c] \in ConnectionObjects /\ ConnectionSound(conn[c], Whole(c))
      /\ conn[c].reader # "none"
  BY <1>0, ConnectionKnown
<1>2. CanSend(c) => Whole(c)
  BY DEF CanSend, Whole
<1>3. CASE FlushPoller(c)
  <2> DEFINE k2 == [conn[c] EXCEPT !.out = PollFlush(conn[c].out)]
  <2>1. Only(c, k2) /\ UNCHANGED client /\ Listed(conn[c].out)
    BY <1>3 DEF FlushPoller
  <2>2. Follows(conn[c], k2, Whole(c))
    BY <1>1, <2>1, FlushPollerSound
  <2> HIDE DEF k2
  <2> QED BY <1>0, <2>1, <2>2, SameClients, KeptClients
<1>4. CASE HeldPut(c)
  <2> DEFINE k2 == [conn[c] EXCEPT !.out = PutHeld(conn[c].out)]
  <2>1. Only(c, k2) /\ UNCHANGED client /\ CanPutHeld(conn[c].out)
    BY <1>4 DEF HeldPut
  <2>2. Follows(conn[c], k2, Whole(c))
    BY <1>1, <2>1, HeldPutSound
  <2> HIDE DEF k2
  <2> QED BY <1>0, <2>1, <2>2, SameClients, KeptClients
<1>5. CASE FlushSent(c)
  <2> DEFINE k2 == [conn[c] EXCEPT !.wire = conn[c].wire \o conn[c].out.byFlush,
                                   !.out = FlushDone(conn[c].out)]
  <2>1. /\ Only(c, k2) /\ UNCHANGED client /\ conn[c].out.flushing
        /\ conn[c].out.byFlush # <<>> => Whole(c)
    BY <1>2, <1>5 DEF FlushSent, Sent
  <2>2. Follows(conn[c], k2, Whole(c))
    BY <1>1, <2>1, FlushSentSound
  <2> HIDE DEF k2
  <2> QED BY <1>0, <2>1, <2>2, SameClients, KeptClients
<1>6. CASE WriterSent(c)
  <2> DEFINE k2 == [conn[c] EXCEPT !.wire = conn[c].wire \o conn[c].out.byWriter,
                                   !.out = WriterPutDone(conn[c].out)]
  <2>1. Only(c, k2) /\ UNCHANGED client /\ conn[c].out.byWriter # <<>> /\ Whole(c)
    BY <1>2, <1>6 DEF WriterSent, Sent
  <2>2. Follows(conn[c], k2, Whole(c))
    BY <1>1, <2>1, WriterSentSound
  <2> HIDE DEF k2
  <2> QED BY <1>0, <2>1, <2>2, SameClients, KeptClients
<1> QED BY <1>3, <1>4, <1>5, <1>6 DEF Puts

(* A put fails: the socket is reset, unless it was, or is shut down.       *)
LEMMA FailedPutsKeep ==
    ASSUME IInv, NEW c \in Connections, FailedPuts(c)
    PROVE  IInv'
<1>0. Live(c)
  BY DEF FailedPuts, FlushSendFails, WriterSendFails
<1>1. /\ conn[c] \in ConnectionObjects /\ ConnectionSound(conn[c], Whole(c))
      /\ conn[c].reader # "none" /\ client[c] \in ClientStates /\ client[c].link # "away"
      /\ client \in [Connections -> ClientStates]
  BY <1>0, ConnectionKnown DEF IInv, Types
<1>2. CanSend(c) <=> Whole(c)
  BY <1>1 DEF CanSend, Whole, ClientStates
<1>3. CutOff(c)
  BY DEF FailedPuts, FlushSendFails, WriterSendFails
<1>4. /\ client' \in [Connections -> ClientStates]
      /\ \A d \in Connections \ {c} : client'[d].link = client[d].link
      /\ client'[c].link # "away"
      /\ ~(client'[c].link # "reset" /\ ~conn[c].shut)
  <2>1. Lost \in ClientStates /\ Lost.link = "reset"
    BY EmptySeq DEF Lost, ClientStates
  <2>2. CASE CanSend(c)
    <3>1. client' = [d \in Connections |-> IF d \in {c} THEN Lost ELSE client[d]]
      BY <1>3, <2>2 DEF CutOff, Refused
    <3> QED BY <1>1, <2>1, <3>1
  <2>3. CASE ~CanSend(c)
    <3>1. client' = client
      BY <1>3, <2>3 DEF CutOff
    <3> QED BY <1>1, <1>2, <2>3, <3>1 DEF Whole
  <2> QED BY <2>2, <2>3
<1>5. ASSUME NEW data \in Seq(Units), NEW part \in Parts(c, data)
      PROVE  \E j \in 0 .. Len(data) : part = SubSeq(data, 1, j) /\ (~Whole(c) => j = 0)
  <2>0. Len(data) \in Nat
    BY <1>5, LenProperties
  <2>1. PICK j \in IF CanSend(c) THEN 0 .. Len(data) - 1 ELSE {0} : part = SubSeq(data, 1, j)
    BY <1>5 DEF Parts
  <2>2. j \in 0 .. Len(data) /\ (~Whole(c) => j = 0)
    BY <1>2, <2>0, <2>1
  <2> QED BY <2>1, <2>2
<1>6. conn[c].out.byFlush \in Seq(Units) /\ conn[c].out.byWriter \in Seq(Units)
  BY <1>1, StreamTypes, ConnectionTypes
<1>7. CASE FlushSendFails(c)
  <2>1. PICK part \in Parts(c, conn[c].out.byFlush) :
            Only(c, Sent(c, part, FlushPutFailed(conn[c].out)))
    BY <1>7 DEF FlushSendFails
  <2>2. PICK j \in 0 .. Len(conn[c].out.byFlush) :
            part = SubSeq(conn[c].out.byFlush, 1, j) /\ (~Whole(c) => j = 0)
    BY <1>5, <1>6
  <2> DEFINE k2 == [conn[c] EXCEPT !.wire = conn[c].wire \o SubSeq(conn[c].out.byFlush, 1, j),
                                   !.out = FlushPutFailed(conn[c].out)]
  <2>3. Only(c, k2) /\ conn[c].out.byFlush # <<>>
    BY <1>7, <2>1, <2>2 DEF Sent, FlushSendFails
  <2>4. Follows(conn[c], k2, FALSE)
    BY <1>1, <2>2, <2>3, FlushSendFailsSound
  <2> HIDE DEF k2
  <2> QED BY <1>0, <1>4, <2>3, <2>4, OnlyStep
<1>8. CASE WriterSendFails(c)
  <2>1. PICK part \in Parts(c, conn[c].out.byWriter) :
            Only(c, CloseOutput(Sent(c, part, WriterPutFailed(conn[c].out))))
    BY <1>8 DEF WriterSendFails
  <2>2. PICK j \in 0 .. Len(conn[c].out.byWriter) :
            part = SubSeq(conn[c].out.byWriter, 1, j) /\ (~Whole(c) => j = 0)
    BY <1>5, <1>6
  <2> DEFINE k == [conn[c] EXCEPT !.wire = conn[c].wire \o SubSeq(conn[c].out.byWriter, 1, j),
                                  !.out = WriterPutFailed(conn[c].out)]
             k2 == CloseOutput(k)
  <2>3. Only(c, k2) /\ conn[c].out.byWriter # <<>>
    BY <1>8, <2>1, <2>2 DEF Sent, WriterSendFails
  <2>4. Follows(conn[c], k2, FALSE)
    BY <1>1, <2>2, <2>3, WriterSendFailsSound
  <2> HIDE DEF k2
  <2> QED BY <1>0, <1>4, <2>3, <2>4, OnlyStep
<1> QED BY <1>7, <1>8 DEF FailedPuts

-----------------------------------------------------------------------------
(* Steps that leave the connections alone.                                 *)
LEMMA ConnectionsKept ==
    ASSUME ConnectionsSound, UNCHANGED conn,
           \A d \in Connections : client[d].link = "reset" => client'[d].link = "reset"
    PROVE  ConnectionsSound'
<1> SUFFICES ASSUME NEW d \in Connections, conn[d].reader # "none"
             PROVE  ConnectionSound(conn[d], client'[d].link # "reset" /\ ~conn[d].shut)
  BY DEF ConnectionsSound, Live, Whole
<1>1. ConnectionSound(conn[d], client[d].link # "reset" /\ ~conn[d].shut)
  BY DEF ConnectionsSound, Live, Whole
<1> QED BY <1>1, WeakerWhole

LEMMA StoppedKept ==
    ASSUME StoppedIsQuiet, UNCHANGED <<conn, stopping, stopped>>,
           \A s \in Shards : stopped[s] = 1 => accept'[s].state \in {"none", "off"}
    PROVE  StoppedIsQuiet'
BY DEF StoppedIsQuiet, BeingAccepted, ConnectionsOf, Live

LEMMA ClientsKeep ==
    ASSUME IInv, Clients
    PROVE  IInv'
<1>1. Types /\ ConnectionsSound /\ Known /\ StoppedIsQuiet
  BY DEF IInv
<1>2. UNCHANGED <<accept, parked, handoffs, balance, conn, stopping, stopped>>
  BY DEF Clients, Connect, Ask, HangUp, Reset, sockets
<1>3. /\ client' \in [Connections -> ClientStates]
      /\ \A d \in Connections : client[d].link = "reset" => client'[d].link = "reset"
      /\ \A d \in Connections : client[d].link # "away" => client'[d].link # "away"
  <2>0. client \in [Connections -> ClientStates]
    BY <1>1 DEF Types
  <2>1. ASSUME NEW c \in Connections, Connect(c)
        PROVE  <1>3!:
    BY <2>0, <2>1 DEF Connect, ClientStates
  <2>2. ASSUME NEW c \in Connections, HangUp(c)
        PROVE  <1>3!:
    BY <2>0, <2>2 DEF HangUp, ClientStates
  <2>3. ASSUME NEW c \in Connections, Reset(c)
        PROVE  <1>3!:
    BY <2>0, <2>3 DEF Reset, Lost, ClientStates
  <2>4. ASSUME NEW c \in Connections, NEW r \in Requests, Ask(c, r)
        PROVE  <1>3!:
    <3>1. client[c].sent \in Seq(Requests)
      BY <2>0 DEF ClientStates
    <3>2. Append(client[c].sent, r) \in Seq(Requests)
      BY <3>1, AppendProperties
    <3>3. client' = [client EXCEPT ![c].sent = Append(client[c].sent, r)]
      BY <2>4 DEF Ask
    <3> QED BY <2>0, <3>2, <3>3 DEF ClientStates
  <2> QED BY <2>1, <2>2, <2>3, <2>4 DEF Clients
<1>4. /\ backlog' \in Seq(Connections)
      /\ \A i \in 1 .. Len(backlog') : client'[backlog'[i]].link # "away"
  <2>1. CASE UNCHANGED backlog
    BY <1>1, <1>3, <2>1 DEF Types, Known, Made
  <2>2. CASE \E c \in Connections : Connect(c)
    <3>1. PICK c \in Connections : Connect(c)
      BY <2>2
    <3>2. backlog' = Append(backlog, c) /\ client'[c].link = "open"
      BY <1>1, <3>1 DEF Connect, Types, ClientStates
    <3>3. /\ backlog' \in Seq(Connections) /\ Len(backlog') = Len(backlog) + 1 /\ Len(backlog) \in Nat
          /\ \A i \in 1 .. Len(backlog) : backlog'[i] = backlog[i]
          /\ backlog'[Len(backlog) + 1] = c
      BY <1>1, <3>2, AppendProperties DEF Types
    <3>4. \A i \in 1 .. Len(backlog) : backlog[i] \in Connections /\ client[backlog[i]].link # "away"
      BY <1>1 DEF Types, Known, Made
    <3>5. \A i \in 1 .. Len(backlog') : i \in 1 .. Len(backlog) \/ i = Len(backlog) + 1
      BY <3>3
    <3> QED BY <1>3, <3>2, <3>3, <3>4, <3>5
  <2> QED BY <2>1, <2>2 DEF Clients, Ask, HangUp, Reset, sockets
<1>5. Types'
  BY <1>1, <1>2, <1>3, <1>4 DEF Types
<1>6. ConnectionsSound'
  BY <1>1, <1>2, <1>3, ConnectionsKept
<1>7. Known'
  <2>1. /\ \A s \in Shards : parked[s] \subseteq Connections
        /\ \A h \in handoffs : h.conn \in Connections
        /\ \A s \in Shards : accept[s].conn # 0 => accept[s].conn \in Connections
    BY <1>1 DEF Types
  <2> QED BY <1>1, <1>2, <1>3, <1>4, <2>1 DEF Known, Made, Live
<1>8. StoppedIsQuiet'
  BY <1>1, <1>2, StoppedKept DEF StoppedIsQuiet, BeingAccepted
<1> QED BY <1>5, <1>6, <1>7, <1>8 DEF IInv

(* What the listeners' state must keep.                                    *)
LEMMA ListenersKeep ==
    ASSUME IInv, UNCHANGED <<client, conn, stopping, stopped>>,
           backlog' \in Seq(Connections), balance' \in Nat,
           accept' \in [Shards -> [state : {"none", "waiting", "ready", "got", "failed", "off"},
                                   conn : Connections \union {0}]],
           parked' \in [Shards -> SUBSET Connections],
           handoffs' \subseteq [conn : Connections, to : Shards],
           \A i \in 1 .. Len(backlog') : Made(backlog'[i]),
           \A s \in Shards : \A c \in parked'[s] : Made(c),
           \A h \in handoffs' : Made(h.conn),
           \A s \in Shards : accept'[s].conn # 0 => Made(accept'[s].conn),
           \A s \in Shards : stopped[s] = 1 => accept'[s].state \in {"none", "off"}
    PROVE  IInv'
<1>1. Types'
  BY DEF IInv, Types
<1>2. ConnectionsSound'
  BY ConnectionsKept DEF IInv
<1>3. Known'
  BY DEF IInv, Known, Live, Made
<1>4. StoppedIsQuiet'
  BY StoppedKept DEF IInv
<1> QED BY <1>1, <1>2, <1>3, <1>4 DEF IInv

AcceptStates == {"none", "waiting", "ready", "got", "failed", "off"}

LEMMA ListenersKnown ==
    ASSUME IInv
    PROVE  /\ backlog \in Seq(Connections) /\ balance \in Nat
           /\ accept \in [Shards -> [state : AcceptStates, conn : Connections \union {0}]]
           /\ parked \in [Shards -> SUBSET Connections]
           /\ handoffs \subseteq [conn : Connections, to : Shards]
           /\ \A i \in 1 .. Len(backlog) : Made(backlog[i])
           /\ \A s \in Shards : \A c \in parked[s] : Made(c)
           /\ \A h \in handoffs : Made(h.conn)
           /\ \A s \in Shards : accept[s].conn # 0 => Made(accept[s].conn)
           /\ \A s \in Shards : stopped[s] = 1 => accept[s].state \in {"none", "off"} /\ stopping[s]
           /\ 0 \in Shards /\ NrShards \in Nat \ {0} /\ 0 \notin Connections
BY HttpAssumption DEF IInv, Types, AcceptStates, Known, StoppedIsQuiet, BeingAccepted, Shards, Connections

(* A listener of which the server has not ended changes its state.         *)
LEMMA AcceptSet ==
    ASSUME IInv, NEW s \in Shards, stopped[s] = 1 => accept[s].state \notin {"none", "off"},
           NEW st \in AcceptStates, NEW c \in Connections \union {0}, c # 0 => Made(c),
           accept' = [accept EXCEPT ![s] = [state |-> st, conn |-> c]]
    PROVE  /\ accept' \in [Shards -> [state : AcceptStates, conn : Connections \union {0}]]
           /\ \A t \in Shards : accept'[t].conn # 0 => Made(accept'[t].conn)
           /\ \A t \in Shards : stopped[t] = 1 => accept'[t].state \in {"none", "off"}
<1> USE ListenersKnown
<1>1. \A t \in Shards : accept'[t] = IF t = s THEN [state |-> st, conn |-> c] ELSE accept[t]
  OBVIOUS
<1>2. accept' \in [Shards -> [state : AcceptStates, conn : Connections \union {0}]]
  OBVIOUS
<1>3. stopped[s] # 1
  OBVIOUS
<1>4. \A t \in Shards : accept'[t].conn # 0 => Made(accept'[t].conn)
  BY <1>1
<1>5. \A t \in Shards : stopped[t] = 1 => accept'[t].state \in {"none", "off"}
  BY <1>1, <1>3
<1> QED BY <1>2, <1>4, <1>5

LEMMA AcceptingKeeps ==
    ASSUME IInv, Accepting
    PROVE  IInv'
<1> USE ListenersKnown
<1>1. UNCHANGED <<client, conn, stopping, stopped, parked>>
  BY DEF Accepting, ListenerReadable, AcceptConnection, AcceptFails, sockets
<1>2. CASE ListenerReadable \/ AcceptFails
  <2>1. /\ UNCHANGED <<backlog, handoffs, balance>> /\ accept[0].state \notin {"none", "off"}
        /\ \E st \in {"ready", "failed"} : accept' = [accept EXCEPT ![0] = [state |-> st, conn |-> 0]]
    BY <1>2 DEF ListenerReadable, AcceptFails, sockets, Nobody
  <2>2. PICK st \in {"ready", "failed"} : accept' = [accept EXCEPT ![0] = [state |-> st, conn |-> 0]]
    BY <2>1
  <2>3. st \in AcceptStates
    BY DEF AcceptStates
  <2>4. /\ accept' \in [Shards -> [state : AcceptStates, conn : Connections \union {0}]]
        /\ \A t \in Shards : accept'[t].conn # 0 => Made(accept'[t].conn)
        /\ \A t \in Shards : stopped[t] = 1 => accept'[t].state \in {"none", "off"}
    BY <2>1, <2>2, <2>3, AcceptSet
  <2> QED BY <1>1, <2>1, <2>4, ListenersKeep DEF AcceptStates
<1>3. CASE AcceptConnection
  <2> DEFINE c == Head(backlog)
             cpu == balance % NrShards
  <2>1. /\ accept[0].state = "ready" /\ backlog # <<>>
        /\ backlog' = Tail(backlog) /\ balance' = balance + 1
        /\ IF cpu = 0
           THEN accept' = [accept EXCEPT ![0] = [state |-> "got", conn |-> c]]
                /\ handoffs' = handoffs
           ELSE accept' = [accept EXCEPT ![0] = [state |-> "waiting", conn |-> 0]]
                /\ handoffs' = handoffs \union {[conn |-> c, to |-> cpu]}
    BY <1>3 DEF AcceptConnection, Nobody
  <2>2. /\ c \in Connections /\ Made(c) /\ Tail(backlog) \in Seq(Connections)
        /\ \A i \in 1 .. Len(Tail(backlog)) : Made(Tail(backlog)[i])
    <3>1. /\ c \in Connections /\ c = backlog[1] /\ Tail(backlog) \in Seq(Connections)
          /\ Len(backlog) \in Nat /\ Len(backlog) > 0 /\ Len(Tail(backlog)) = Len(backlog) - 1
          /\ \A i \in 1 .. Len(backlog) - 1 : Tail(backlog)[i] = backlog[i + 1]
      BY <2>1, HeadThenTail
    <3>2. \A i \in 1 .. Len(Tail(backlog)) : i \in 1 .. Len(backlog) - 1 /\ i + 1 \in 1 .. Len(backlog)
      BY <3>1
    <3>3. 1 \in 1 .. Len(backlog)
      BY <3>1
    <3>4. \A i \in 1 .. Len(Tail(backlog)) : Tail(backlog)[i] = backlog[i + 1]
      BY <3>1, <3>2
    <3> QED BY <3>1, <3>2, <3>3, <3>4
  <2>3. cpu \in Shards
    BY DEF Shards
  <2> HIDE DEF c, cpu
  <2>4. \A i \in 1 .. Len(backlog') : Made(backlog'[i])
    BY <2>1, <2>2
  <2>5. CASE cpu = 0
    <3>1. /\ accept' = [accept EXCEPT ![0] = [state |-> "got", conn |-> c]]
          /\ handoffs' = handoffs
      BY <2>1, <2>5
    <3>2. "got" \in AcceptStates
      BY DEF AcceptStates
    <3>3. /\ accept' \in [Shards -> [state : AcceptStates, conn : Connections \union {0}]]
          /\ \A t \in Shards : accept'[t].conn # 0 => Made(accept'[t].conn)
          /\ \A t \in Shards : stopped[t] = 1 => accept'[t].state \in {"none", "off"}
      BY <2>1, <2>2, <3>1, <3>2, AcceptSet
    <3> QED BY <1>1, <2>1, <2>2, <2>4, <3>1, <3>3, ListenersKeep DEF AcceptStates
  <2>6. CASE cpu # 0
    <3>1. /\ accept' = [accept EXCEPT ![0] = [state |-> "waiting", conn |-> 0]]
          /\ handoffs' = handoffs \union {[conn |-> c, to |-> cpu]}
      BY <2>1, <2>6
    <3>2. "waiting" \in AcceptStates
      BY DEF AcceptStates
    <3>3. /\ accept' \in [Shards -> [state : AcceptStates, conn : Connections \union {0}]]
          /\ \A t \in Shards : accept'[t].conn # 0 => Made(accept'[t].conn)
          /\ \A t \in Shards : stopped[t] = 1 => accept'[t].state \in {"none", "off"}
      BY <2>1, <3>1, <3>2, AcceptSet
    <3>4. handoffs' \subseteq [conn : Connections, to : Shards] /\ \A h \in handoffs' : Made(h.conn)
      BY <2>2, <2>3, <3>1
    <3> QED BY <1>1, <2>1, <2>2, <2>4, <3>3, <3>4, ListenersKeep DEF AcceptStates
  <2> QED BY <2>5, <2>6
<1> QED BY <1>2, <1>3 DEF Accepting

LEMMA MoveConnectedSocketKeeps ==
    ASSUME IInv, NEW h \in handoffs, MoveConnectedSocket(h)
    PROVE  IInv'
<1> USE ListenersKnown
<1>1. /\ UNCHANGED <<client, conn, stopping, stopped, backlog, balance>>
      /\ handoffs' = handoffs \ {h}
      /\ IF accept[h.to].state = "waiting"
         THEN accept' = [accept EXCEPT ![h.to] = [state |-> "got", conn |-> h.conn]]
              /\ parked' = parked
         ELSE parked' = [parked EXCEPT ![h.to] = parked[h.to] \union {h.conn}]
              /\ accept' = accept
  BY DEF MoveConnectedSocket
<1>2. h.conn \in Connections /\ h.to \in Shards /\ Made(h.conn)
  OBVIOUS
<1>3. /\ accept' \in [Shards -> [state : AcceptStates, conn : Connections \union {0}]]
      /\ \A s \in Shards : accept'[s].conn # 0 => Made(accept'[s].conn)
      /\ \A s \in Shards : stopped[s] = 1 => accept'[s].state \in {"none", "off"}
  <2>1. CASE accept[h.to].state = "waiting"
    <3>1. accept' = [accept EXCEPT ![h.to] = [state |-> "got", conn |-> h.conn]]
      BY <1>1, <2>1
    <3>2. "got" \in AcceptStates /\ accept[h.to].state \notin {"none", "off"}
      BY <2>1 DEF AcceptStates
    <3> QED BY <1>2, <3>1, <3>2, AcceptSet
  <2>2. CASE accept[h.to].state # "waiting"
    BY <1>1, <2>2
  <2> QED BY <2>1, <2>2
<1>4. /\ parked' \in [Shards -> SUBSET Connections]
      /\ \A s \in Shards : \A c \in parked'[s] : Made(c)
  <2>1. CASE accept[h.to].state = "waiting"
    BY <1>1, <2>1
  <2>2. CASE accept[h.to].state # "waiting"
    <3>1. parked' = [parked EXCEPT ![h.to] = parked[h.to] \union {h.conn}]
      BY <1>1, <2>2
    <3>2. \A s \in Shards : parked'[s] = parked[s] \/ parked'[s] = parked[s] \union {h.conn}
      BY <1>2, <3>1
    <3>3. parked' \in [Shards -> SUBSET Connections]
      BY <1>2, <3>1
    <3> QED BY <1>2, <3>2, <3>3
  <2> QED BY <2>1, <2>2
<1>5. backlog' = backlog /\ handoffs' \subseteq handoffs
  BY <1>1
<1> QED BY <1>1, <1>3, <1>4, <1>5, ListenersKeep DEF AcceptStates

(* accept() takes a parked connection or waits.                            *)
LEMMA AwaitAcceptKeeps ==
    ASSUME IInv, NEW s \in Shards, AwaitAccept(s), ~stopping[s]
    PROVE  /\ accept' \in [Shards -> [state : AcceptStates, conn : Connections \union {0}]]
           /\ parked' \in [Shards -> SUBSET Connections]
           /\ \A t \in Shards : \A c \in parked'[t] : Made(c)
           /\ \A t \in Shards : accept'[t].conn # 0 => Made(accept'[t].conn)
           /\ \A t \in Shards : stopped[t] = 1 => accept'[t].state \in {"none", "off"}
<1> USE ListenersKnown
<1>1. CASE s # 0 /\ parked[s] # {}
  <2>1. PICK c \in parked[s] : c = CHOOSE p \in parked[s] : TRUE
    BY <1>1
  <2>2. /\ accept' = [accept EXCEPT ![s] = [state |-> "got", conn |-> c]]
        /\ parked' = [parked EXCEPT ![s] = parked[s] \ {c}]
    BY <1>1, <2>1 DEF AwaitAccept
  <2>3. c \in Connections /\ Made(c)
    OBVIOUS
  <2> QED BY <2>2, <2>3 DEF AcceptStates
<1>2. CASE ~(s # 0 /\ parked[s] # {})
  <2>1. /\ accept' = [accept EXCEPT ![s] = [state |-> "waiting", conn |-> 0]]
        /\ parked' = parked
    BY <1>2 DEF AwaitAccept, Nobody
  <2> QED BY <2>1 DEF AcceptStates
<1> QED BY <1>1, <1>2

LEMMA ListenKeeps ==
    ASSUME IInv, NEW s \in Shards, Listen(s)
    PROVE  IInv'
<1>1. /\ UNCHANGED <<client, backlog, handoffs, balance, conn, stopping, stopped>>
      /\ AwaitAccept(s) /\ ~stopping[s]
  BY DEF Listen
<1>2. /\ accept' \in [Shards -> [state : AcceptStates, conn : Connections \union {0}]]
      /\ parked' \in [Shards -> SUBSET Connections]
      /\ \A t \in Shards : \A c \in parked'[t] : Made(c)
      /\ \A t \in Shards : accept'[t].conn # 0 => Made(accept'[t].conn)
      /\ \A t \in Shards : stopped[t] = 1 => accept'[t].state \in {"none", "off"}
  BY <1>1, AwaitAcceptKeeps
<1> QED BY <1>1, <1>2, ListenersKnown, ListenersKeep DEF AcceptStates

-----------------------------------------------------------------------------
(* Connections come and go.                                                *)
LEMMA UnsentNothing ==
    NewStream \in Streams /\ Unsent(NewStream) = <<>> /\ PutsSound(NewStream)
           /\ ~Writing(NewStream) /\ NewStream.units = 0 /\ ~NewStream.failed
           /\ NewStream.buffer = <<>> /\ ~NewStream.inBatch
<1>1. /\ NewStream \in Streams /\ NewStream.byFlush = <<>> /\ NewStream.byWriter = <<>>
      /\ NewStream.held = <<>> /\ NewStream.next = <<>> /\ NewStream.buffer = <<>>
      /\ NewStream.units = 0 /\ NewStream.failed = FALSE /\ NewStream.flush = FALSE
      /\ NewStream.flushing = FALSE /\ NewStream.inBatch = FALSE
  BY EmptySeq DEF NewStream, Streams
<1>2. PutsSound(NewStream) /\ ~Writing(NewStream)
  BY <1>1, EmptySeq, BufferSizeAssumption DEF PutsSound, Writing, OnePut
<1>3. Unsent(NewStream) = Join(<<>>, <<>>)
  BY <1>1, <1>2, UnsentIdle
<1> QED BY <1>1, <1>2, <1>3, JoinEmpty, EmptySeq

LEMMA NoConnectionType == NoConnection \in ConnectionObjects
<1>1. NewStream \in Streams
  BY UnsentNothing
<1>2. NewQueue \in Queues
  <2>1. <<>> \in Seq(Replies) /\ Len(<<>>) = 0
    BY EmptySeq
  <2> QED BY <2>1, QueueMaxAssumption DEF NewQueue, Queues, Room
<1>3. 0 \in Shards
  BY HttpAssumption DEF Shards
<1> QED BY <1>1, <1>2, <1>3, EmptySeq
        DEF NoConnection, ConnectionObjects, ReaderStates, ResponderStates

LEMMA NewConnectionSound ==
    ASSUME NEW s \in Shards, NEW whole
    PROVE  /\ NewConnection(s) \in ConnectionObjects /\ ConnectionSound(NewConnection(s), whole)
           /\ NewConnection(s).at = s /\ NewConnection(s).reader # "none"
<1> DEFINE k == [NoConnection EXCEPT !.at = s, !.reader = "parsing"]
           none == <<>>
<1>1. /\ k \in ConnectionObjects /\ k.at = s /\ k.reader = "parsing" /\ k.responder = "none"
      /\ k.replies = NewQueue /\ k.out = NewStream /\ k.wire = none
  BY NoConnectionType DEF NoConnection, ConnectionObjects, ReaderStates
<1>2. NewConnection(s) = NextReply(k)
  BY DEF NewConnection
<1> HIDE DEF k
<1>3. QueueSound(k)
  <2>1. NewQueue.items = none /\ NewQueue.notFull = FALSE /\ NewQueue.notEmpty = FALSE /\ Len(none) = 0
    BY EmptySeq DEF NewQueue
  <2> QED BY <1>1, <2>1, QueueMaxAssumption DEF QueueSound
<1>4. k.wire = UpToUnit(Len(k.wire))
  <2>1. UpToUnit(0) = none /\ Len(none) = 0
    BY UpToUnitType, EmptySeq
  <2> QED BY <1>1, <2>1
<1>5. Join(k.wire, Unsent(k.out)) = UpToUnit(k.out.units)
  <2>1. UpToUnit(0) = none
    BY UpToUnitType, EmptySeq
  <2>2. Join(none, none) = none
    BY JoinEmpty, EmptySeq
  <2> QED BY <1>1, <2>1, <2>2, UnsentNothing
<1>6. Follows(k, NextReply(k), whole)
  BY <1>1, <1>3, <1>4, <1>5, UnsentNothing, NextReplySound
<1> QED BY <1>1, <1>2, <1>6 DEF Follows

(* maybe_idle() reports once: the server was not idle before the step.     *)
LEMMA MaybeIdleSound ==
    ASSUME IInv, NEW s \in Shards, MaybeIdle(s), stopped[s] # 1
    PROVE  /\ stopped' \in [Shards -> {0, 1}]
           /\ \A t \in Shards : t # s => stopped'[t] = stopped[t]
           /\ stopped'[s] = 1 => /\ stopping[s] /\ accept'[s].state \in {"none", "off"}
                                 /\ {c \in Connections : conn'[c].reader # "none" /\ conn'[c].at = s} = {}
<1>1. stopped \in [Shards -> {0, 1}] /\ stopped[s] = 0
  BY DEF IInv, Types
<1>2. CASE /\ stopping[s] /\ accept'[s].state \in {"none", "off"}
           /\ {c \in Connections : conn'[c].reader # "none" /\ conn'[c].at = s} = {}
  <2>1. stopped' = [stopped EXCEPT ![s] = stopped[s] + 1]
    BY <1>2 DEF MaybeIdle, BeingAccepted, ConnectionsOf, Live
  <2>2. stopped' = [stopped EXCEPT ![s] = 1]
    BY <1>1, <2>1
  <2> QED BY <1>1, <1>2, <2>2
<1>3. CASE ~(/\ stopping[s] /\ accept'[s].state \in {"none", "off"}
             /\ {c \in Connections : conn'[c].reader # "none" /\ conn'[c].at = s} = {})
  <2>1. stopped' = stopped
    BY <1>3 DEF MaybeIdle, BeingAccepted, ConnectionsOf, Live
  <2> QED BY <1>1, <2>1
<1> QED BY <1>2, <1>3

(* Connections that the server refuses.                                    *)
LEMMA RefusedSound ==
    ASSUME IInv, NEW cs \in SUBSET Connections, client' = Refused(cs),
           \A c \in cs : Made(c)
    PROVE  /\ client' \in [Connections -> ClientStates]
           /\ \A d \in Connections : client[d].link = "reset" => client'[d].link = "reset"
           /\ \A d \in Connections : client[d].link # "away" => client'[d].link # "away"
<1>1. Lost \in ClientStates /\ Lost.link = "reset"
  BY EmptySeq DEF Lost, ClientStates
<1>2. client \in [Connections -> ClientStates]
  BY DEF IInv, Types
<1>3. client' = [d \in Connections |-> IF d \in cs THEN Lost ELSE client[d]]
  BY DEF Refused
<1> QED BY <1>1, <1>2, <1>3

LEMMA KnownAgain ==
    ASSUME Types',
           \A c \in Connections : conn'[c].reader # "none" => Made(c),
           \A i \in 1 .. Len(backlog') : Made(backlog'[i]),
           \A s \in Shards : \A c \in parked'[s] : Made(c),
           \A h \in handoffs' : Made(h.conn),
           \A s \in Shards : accept'[s].conn # 0 => Made(accept'[s].conn),
           \A d \in Connections : client[d].link # "away" => client'[d].link # "away"
    PROVE  Known'
<1>1. /\ \A i \in 1 .. Len(backlog') : backlog'[i] \in Connections
      /\ \A s \in Shards : parked'[s] \subseteq Connections
      /\ \A h \in handoffs' : h.conn \in Connections
      /\ \A s \in Shards : accept'[s].conn # 0 => accept'[s].conn \in Connections
  BY DEF Types
<1> QED BY <1>1 DEF Known, Made, Live

(* Servers that have ended are quiet after a step of shard s, if shard s   *)
(* has not, or just did.                                                   *)
LEMMA QuietAgain ==
    ASSUME IInv, NEW s \in Shards, UNCHANGED stopping,
           \A t \in Shards : t # s => accept'[t] = accept[t] /\ stopped'[t] = stopped[t],
           \A t \in Shards, c \in Connections :
               t # s /\ conn'[c].reader # "none" /\ conn'[c].at = t
                   => conn[c].reader # "none" /\ conn[c].at = t,
           stopped'[s] \in {0, 1},
           stopped'[s] = 1 => /\ stopping[s] /\ accept'[s].state \in {"none", "off"}
                              /\ {c \in Connections : conn'[c].reader # "none" /\ conn'[c].at = s} = {}
    PROVE  StoppedIsQuiet'
<1>1. StoppedIsQuiet /\ stopped \in [Shards -> {0, 1}]
  BY DEF IInv, Types
<1> SUFFICES ASSUME NEW t \in Shards
             PROVE  /\ stopped'[t] <= 1
                    /\ stopped'[t] = 1 =>
                         /\ stopping[t] /\ accept'[t].state \in {"none", "off"}
                         /\ {c \in Connections : conn'[c].reader # "none" /\ conn'[c].at = t} = {}
  BY DEF StoppedIsQuiet, BeingAccepted, ConnectionsOf, Live
<1>2. CASE t = s
  BY <1>2
<1>3. CASE t # s
  <2>1. stopped'[t] <= 1 /\ stopped'[t] = stopped[t] /\ accept'[t] = accept[t]
    BY <1>1, <1>3
  <2>2. stopped[t] = 1 =>
           /\ stopping[t] /\ accept[t].state \in {"none", "off"}
           /\ \A c \in Connections : ~(conn[c].reader # "none" /\ conn[c].at = t)
    BY <1>1 DEF StoppedIsQuiet, BeingAccepted, ConnectionsOf, Live
  <2>3. \A c \in Connections : conn'[c].reader # "none" /\ conn'[c].at = t
                                   => conn[c].reader # "none" /\ conn[c].at = t
    BY <1>3
  <2> QED BY <2>1, <2>2, <2>3
<1> QED BY <1>2, <1>3

LEMMA DeleteConnectionKeeps ==
    ASSUME IInv, NEW c \in Connections, DeleteConnection(c)
    PROVE  IInv'
<1>1. PICK s \in Shards : conn[c].at = s /\ MaybeIdle(s)
  BY DEF DeleteConnection
<1>2. /\ conn[c].reader # "none" /\ conn' = [conn EXCEPT ![c] = NoConnection]
      /\ client' = Refused({c})
      /\ UNCHANGED <<backlog, parked, handoffs, balance, accept, stopping>>
  BY DEF DeleteConnection, Live, sockets
<1>3. /\ Types /\ ConnectionsSound /\ Known /\ StoppedIsQuiet
      /\ conn \in [Connections -> ConnectionObjects] /\ stopped \in [Shards -> {0, 1}]
  BY DEF IInv, Types
<1>4. stopped[s] # 1
  BY <1>1, <1>2, <1>3 DEF StoppedIsQuiet, ConnectionsOf, Live
<1>5. /\ client' \in [Connections -> ClientStates]
      /\ \A d \in Connections : client[d].link = "reset" => client'[d].link = "reset"
      /\ \A d \in Connections : client[d].link # "away" => client'[d].link # "away"
  <2>1. Made(c)
    BY <1>2, <1>3 DEF Known, Live
  <2>2. {c} \in SUBSET Connections /\ \A d \in {c} : Made(d)
    BY <2>1
  <2> QED BY <1>2, <2>2, RefusedSound
<1>6. /\ conn' \in [Connections -> ConnectionObjects] /\ conn'[c].reader = "none"
      /\ \A d \in Connections : conn'[d].reader # "none" => d # c /\ conn'[d] = conn[d]
  <2>1. NoConnection.reader = "none"
    BY DEF NoConnection
  <2> QED BY <1>2, <1>3, <2>1, NoConnectionType
<1>7. /\ stopped' \in [Shards -> {0, 1}]
      /\ \A t \in Shards : t # s => stopped'[t] = stopped[t]
      /\ stopped'[s] = 1 => /\ stopping[s] /\ accept'[s].state \in {"none", "off"}
                            /\ {d \in Connections : conn'[d].reader # "none" /\ conn'[d].at = s} = {}
  BY <1>1, <1>4, MaybeIdleSound
<1>8. Types'
  BY <1>2, <1>3, <1>5, <1>6, <1>7 DEF Types
<1>9. ConnectionsSound'
  <2> SUFFICES ASSUME NEW d \in Connections, conn'[d].reader # "none"
               PROVE  ConnectionSound(conn'[d], client'[d].link # "reset" /\ ~conn'[d].shut)
    BY DEF ConnectionsSound, Live, Whole
  <2>1. conn'[d] = conn[d] /\ ConnectionSound(conn[d], client[d].link # "reset" /\ ~conn[d].shut)
    BY <1>3, <1>6 DEF ConnectionsSound, Live, Whole
  <2> QED BY <1>5, <2>1, WeakerWhole
<1>10. Known'
  <2>1. \A d \in Connections : conn'[d].reader # "none" => conn[d].reader # "none"
    BY <1>6
  <2>2. UNCHANGED <<backlog, accept, parked, handoffs>>
    BY <1>2
  <2> QED BY <1>3, <1>5, <2>1, <2>2, KnownKept
<1>11. StoppedIsQuiet'
  <2>1. \A t \in Shards, d \in Connections :
            t # s /\ conn'[d].reader # "none" /\ conn'[d].at = t
                => conn[d].reader # "none" /\ conn[d].at = t
    BY <1>6
  <2>2. \A t \in Shards : t # s => accept'[t] = accept[t] /\ stopped'[t] = stopped[t]
    BY <1>2, <1>7
  <2>3. stopped'[s] \in {0, 1}
    BY <1>7
  <2> QED BY <1>2, <1>7, <2>1, <2>2, <2>3, QuietAgain
<1> QED BY <1>8, <1>9, <1>10, <1>11 DEF IInv

LEMMA StopKeeps ==
    ASSUME IInv, NEW s \in Shards, Stop(s)
    PROVE  IInv'
<1>1. /\ stopping' = [stopping EXCEPT ![s] = TRUE] /\ ~stopping[s]
      /\ accept' = [accept EXCEPT ![s] = IF accept[s].state = "waiting"
                                         THEN [state |-> "failed", conn |-> 0] ELSE accept[s]]
      /\ parked' = [parked EXCEPT ![s] = {}]
      /\ client' = Refused(parked[s])
      /\ conn' = [c \in Connections |-> IF c \in ConnectionsOf(s)
                                        THEN [conn[c] EXCEPT !.shut = TRUE] ELSE conn[c]]
      /\ UNCHANGED <<backlog, handoffs, balance, stopped>>
  BY DEF Stop, Nobody
<1>2. /\ Types /\ ConnectionsSound /\ Known /\ StoppedIsQuiet
      /\ conn \in [Connections -> ConnectionObjects] /\ stopped \in [Shards -> {0, 1}]
      /\ stopping \in [Shards -> BOOLEAN] /\ parked \in [Shards -> SUBSET Connections]
      /\ accept \in [Shards -> [state : AcceptStates, conn : Connections \union {0}]]
  BY DEF IInv, Types, AcceptStates
<1>3. stopped[s] # 1
  BY <1>1, <1>2 DEF StoppedIsQuiet
<1>4. /\ client' \in [Connections -> ClientStates]
      /\ \A d \in Connections : client[d].link = "reset" => client'[d].link = "reset"
      /\ \A d \in Connections : client[d].link # "away" => client'[d].link # "away"
  <2>1. \A c \in parked[s] : Made(c)
    BY <1>2 DEF Known
  <2> QED BY <1>1, <1>2, <2>1, RefusedSound
<1>5. \A c \in Connections :
         \/ conn'[c] = conn[c]
         \/ /\ conn'[c] = [conn[c] EXCEPT !.shut = TRUE]
            /\ conn'[c] \in ConnectionObjects /\ conn'[c].shut = TRUE
            /\ conn'[c].at = conn[c].at /\ conn'[c].reader = conn[c].reader
            /\ conn'[c].replies = conn[c].replies /\ conn'[c].request = conn[c].request
            /\ conn'[c].responder = conn[c].responder
            /\ conn'[c].out = conn[c].out /\ conn'[c].wire = conn[c].wire
  <2> SUFFICES ASSUME NEW c \in ConnectionsOf(s), c \in Connections
               PROVE  /\ conn'[c] = [conn[c] EXCEPT !.shut = TRUE]
                      /\ conn'[c] \in ConnectionObjects /\ conn'[c].shut = TRUE
                      /\ conn'[c].at = conn[c].at /\ conn'[c].reader = conn[c].reader
                      /\ conn'[c].replies = conn[c].replies
                      /\ conn'[c].request = conn[c].request
                      /\ conn'[c].responder = conn[c].responder
                      /\ conn'[c].out = conn[c].out /\ conn'[c].wire = conn[c].wire
    BY <1>1
  <2>1. conn'[c] = [conn[c] EXCEPT !.shut = TRUE] /\ conn[c] \in ConnectionObjects
    BY <1>1, <1>2
  <2> QED BY <2>1 DEF ConnectionObjects
<1>6. /\ conn' \in [Connections -> ConnectionObjects]
      /\ \A c \in Connections : conn'[c].at = conn[c].at /\ conn'[c].reader = conn[c].reader
  BY <1>1, <1>2, <1>5
<1>7. \A t \in Shards : accept'[t] \in [state : AcceptStates, conn : Connections \union {0}]
                        /\ accept'[t].conn \in {accept[t].conn, 0}
                        /\ (t # s => accept'[t] = accept[t])
  BY <1>1, <1>2 DEF AcceptStates
<1>8. accept' \in [Shards -> [state : AcceptStates, conn : Connections \union {0}]]
  BY <1>1, <1>2, <1>7
<1>9. Types'
  <2>1. stopping' \in [Shards -> BOOLEAN] /\ parked' \in [Shards -> SUBSET Connections]
    BY <1>1, <1>2
  <2> QED BY <1>1, <1>2, <1>4, <1>6, <1>8, <2>1 DEF Types, AcceptStates
<1>10. ConnectionsSound'
  <2> SUFFICES ASSUME NEW d \in Connections, conn'[d].reader # "none"
               PROVE  ConnectionSound(conn'[d], client'[d].link # "reset" /\ ~conn'[d].shut)
    BY DEF ConnectionsSound, Live, Whole
  <2>1. ConnectionSound(conn[d], client[d].link # "reset" /\ ~conn[d].shut)
    BY <1>2, <1>6 DEF ConnectionsSound, Live, Whole
  <2>2. CASE conn'[d] = conn[d]
    BY <1>4, <2>1, <2>2, WeakerWhole
  <2>3. CASE conn'[d] # conn[d]
    <3>1. PICK k2 : k2 = conn'[d]
      OBVIOUS
    <3>2. /\ k2.shut = TRUE
          /\ k2.reader = conn[d].reader
          /\ k2.replies = conn[d].replies /\ k2.request = conn[d].request
          /\ k2.responder = conn[d].responder
          /\ k2.out = conn[d].out /\ k2.wire = conn[d].wire
      BY <1>5, <2>3, <3>1
    <3>3. QueueSound(k2)
      BY <2>1, <3>2 DEF ConnectionSound, QueueSound
    <3>4. StreamSound(k2, FALSE)
      BY <2>1, <3>2 DEF ConnectionSound, StreamSound
    <3>5. ConnectionSound(k2, FALSE)
      BY <3>3, <3>4 DEF ConnectionSound
    <3>6. ConnectionSound(k2, client'[d].link # "reset" /\ ~k2.shut)
      BY <3>2, <3>5, WeakerWhole
    <3> QED BY <3>1, <3>6
  <2> QED BY <2>2, <2>3
<1>11. Known'
  <2>1. /\ \A c \in Connections : conn'[c].reader # "none" => Made(c)
        /\ \A i \in 1 .. Len(backlog') : Made(backlog'[i])
        /\ \A h \in handoffs' : Made(h.conn)
    BY <1>1, <1>2, <1>6 DEF Known, Live
  <2>2. \A t \in Shards : \A c \in parked'[t] : Made(c)
    BY <1>1, <1>2 DEF Known
  <2>3. \A t \in Shards : accept'[t].conn # 0 => Made(accept'[t].conn)
    BY <1>2, <1>7 DEF Known
  <2> QED BY <1>4, <1>9, <2>1, <2>2, <2>3, KnownAgain
<1>12. StoppedIsQuiet'
  <2> SUFFICES ASSUME NEW t \in Shards
               PROVE  /\ stopped[t] <= 1
                      /\ stopped[t] = 1 =>
                           /\ stopping'[t] /\ accept'[t].state \in {"none", "off"}
                           /\ \A c \in Connections : ~(conn'[c].reader # "none" /\ conn'[c].at = t)
    BY <1>1 DEF StoppedIsQuiet, BeingAccepted, ConnectionsOf, Live
  <2>1. /\ stopped[t] <= 1
        /\ stopped[t] = 1 =>
             /\ stopping[t] /\ accept[t].state \in {"none", "off"}
             /\ \A c \in Connections : ~(conn[c].reader # "none" /\ conn[c].at = t)
    BY <1>2 DEF StoppedIsQuiet, BeingAccepted, ConnectionsOf, Live
  <2>2. stopped[t] = 1 => t # s
    BY <1>3
  <2>3. t # s => accept'[t] = accept[t] /\ stopping'[t] = stopping[t]
    BY <1>1, <1>2, <1>7
  <2> QED BY <1>6, <2>1, <2>2, <2>3
<1> QED BY <1>9, <1>10, <1>11, <1>12 DEF IInv

LEMMA AcceptedKeeps ==
    ASSUME IInv, NEW s \in Shards, Accepted(s)
    PROVE  IInv'
<1> DEFINE got == {accept[s].conn} \ {0}
<1>1. /\ accept[s].state \in {"got", "failed"}
      /\ UNCHANGED <<backlog, handoffs, balance, stopping>>
      /\ \/ /\ stopping[s]
            /\ accept' = [accept EXCEPT ![s] = [state |-> "off", conn |-> 0]]
            /\ client' = Refused(got)
            /\ UNCHANGED <<parked, conn>>
            /\ MaybeIdle(s)
         \/ /\ ~stopping[s] /\ got = {}
            /\ accept' = [accept EXCEPT ![s] = [state |-> "off", conn |-> 0]]
            /\ UNCHANGED <<client, parked, conn, stopped>>
         \/ /\ ~stopping[s] /\ got # {}
            /\ conn' = [c \in Connections |-> IF c \in got THEN NewConnection(s) ELSE conn[c]]
            /\ AwaitAccept(s)
            /\ UNCHANGED <<client, stopped>>
  BY DEF Accepted, Nobody
<1>2. /\ Types /\ ConnectionsSound /\ Known /\ StoppedIsQuiet
      /\ conn \in [Connections -> ConnectionObjects] /\ stopped \in [Shards -> {0, 1}]
      /\ accept \in [Shards -> [state : AcceptStates, conn : Connections \union {0}]]
  BY DEF IInv, Types, AcceptStates
<1>3. stopped[s] # 1
  BY <1>1, <1>2 DEF StoppedIsQuiet, BeingAccepted
<1>4. got \in SUBSET Connections /\ \A c \in got : Made(c)
  BY <1>2 DEF Known
<1> HIDE DEF got
<1>5. "off" \in AcceptStates
  BY DEF AcceptStates
<1>6. ASSUME accept' = [accept EXCEPT ![s] = [state |-> "off", conn |-> 0]]
      PROVE  /\ accept' \in [Shards -> [state : AcceptStates, conn : Connections \union {0}]]
             /\ \A t \in Shards : accept'[t].conn # 0 => Made(accept'[t].conn)
             /\ \A t \in Shards : stopped[t] = 1 => accept'[t].state \in {"none", "off"}
             /\ \A t \in Shards : t # s => accept'[t] = accept[t]
             /\ accept'[s].state = "off"
  <2>1. stopped[s] = 1 => accept[s].state \notin {"none", "off"}
    BY <1>3
  <2>2. /\ accept' \in [Shards -> [state : AcceptStates, conn : Connections \union {0}]]
        /\ \A t \in Shards : accept'[t].conn # 0 => Made(accept'[t].conn)
        /\ \A t \in Shards : stopped[t] = 1 => accept'[t].state \in {"none", "off"}
    BY <1>5, <1>6, <2>1, AcceptSet
  <2>3. /\ \A t \in Shards : t # s => accept'[t] = accept[t]
        /\ accept'[s].state = "off"
    BY <1>2, <1>6
  <2> QED BY <2>2, <2>3
<1>7. CASE /\ stopping[s]
           /\ accept' = [accept EXCEPT ![s] = [state |-> "off", conn |-> 0]]
           /\ client' = Refused(got)
           /\ UNCHANGED <<parked, conn>>
           /\ MaybeIdle(s)
  <2>1. /\ accept' \in [Shards -> [state : AcceptStates, conn : Connections \union {0}]]
        /\ \A t \in Shards : accept'[t].conn # 0 => Made(accept'[t].conn)
        /\ \A t \in Shards : t # s => accept'[t] = accept[t]
    BY <1>6, <1>7
  <2>2. /\ client' \in [Connections -> ClientStates]
        /\ \A d \in Connections : client[d].link = "reset" => client'[d].link = "reset"
        /\ \A d \in Connections : client[d].link # "away" => client'[d].link # "away"
    BY <1>4, <1>7, RefusedSound
  <2>3. /\ stopped' \in [Shards -> {0, 1}]
        /\ \A t \in Shards : t # s => stopped'[t] = stopped[t]
        /\ stopped'[s] = 1 => /\ stopping[s] /\ accept'[s].state \in {"none", "off"}
                              /\ {d \in Connections : conn'[d].reader # "none" /\ conn'[d].at = s} = {}
    BY <1>3, <1>7, MaybeIdleSound
  <2>4. Types'
    BY <1>1, <1>2, <1>7, <2>1, <2>2, <2>3 DEF Types, AcceptStates
  <2>5. ConnectionsSound'
    BY <1>2, <1>7, <2>2, ConnectionsKept
  <2>6. Known'
    <3>1. /\ \A c \in Connections : conn'[c].reader # "none" => Made(c)
          /\ \A i \in 1 .. Len(backlog') : Made(backlog'[i])
          /\ \A t \in Shards : \A c \in parked'[t] : Made(c)
          /\ \A h \in handoffs' : Made(h.conn)
      BY <1>1, <1>2, <1>7 DEF Known, Live
    <3> QED BY <2>1, <2>2, <2>4, <3>1, KnownAgain
  <2>7. StoppedIsQuiet'
    <3>1. \A t \in Shards, d \in Connections :
              t # s /\ conn'[d].reader # "none" /\ conn'[d].at = t
                  => conn[d].reader # "none" /\ conn[d].at = t
      BY <1>7
    <3>2. \A t \in Shards : t # s => accept'[t] = accept[t] /\ stopped'[t] = stopped[t]
      BY <2>1, <2>3
    <3>3. stopped'[s] \in {0, 1}
      BY <2>3
    <3> QED BY <1>1, <2>3, <3>1, <3>2, <3>3, QuietAgain
  <2> QED BY <2>4, <2>5, <2>6, <2>7 DEF IInv
<1>8. CASE /\ ~stopping[s] /\ got = {}
           /\ accept' = [accept EXCEPT ![s] = [state |-> "off", conn |-> 0]]
           /\ UNCHANGED <<client, parked, conn, stopped>>
  <2>1. /\ accept' \in [Shards -> [state : AcceptStates, conn : Connections \union {0}]]
        /\ \A t \in Shards : accept'[t].conn # 0 => Made(accept'[t].conn)
        /\ \A t \in Shards : stopped[t] = 1 => accept'[t].state \in {"none", "off"}
    BY <1>6, <1>8
  <2> QED BY <1>1, <1>8, <2>1, ListenersKnown, ListenersKeep DEF AcceptStates
<1>9. CASE /\ ~stopping[s] /\ got # {}
           /\ conn' = [c \in Connections |-> IF c \in got THEN NewConnection(s) ELSE conn[c]]
           /\ AwaitAccept(s)
           /\ UNCHANGED <<client, stopped>>
  <2>1. /\ accept' \in [Shards -> [state : AcceptStates, conn : Connections \union {0}]]
        /\ parked' \in [Shards -> SUBSET Connections]
        /\ \A t \in Shards : \A c \in parked'[t] : Made(c)
        /\ \A t \in Shards : accept'[t].conn # 0 => Made(accept'[t].conn)
        /\ \A t \in Shards : stopped[t] = 1 => accept'[t].state \in {"none", "off"}
    BY <1>9, AwaitAcceptKeeps
  <2>2. /\ NewConnection(s) \in ConnectionObjects
        /\ NewConnection(s).at = s /\ NewConnection(s).reader # "none"
    BY NewConnectionSound
  <2>3. conn' \in [Connections -> ConnectionObjects]
    BY <1>2, <1>9, <2>2
  <2>4. Types'
    BY <1>1, <1>2, <1>9, <2>1, <2>3 DEF Types, AcceptStates
  <2>5. ConnectionsSound'
    <3> SUFFICES ASSUME NEW d \in Connections, conn'[d].reader # "none"
                 PROVE  ConnectionSound(conn'[d], client'[d].link # "reset" /\ ~conn'[d].shut)
      BY DEF ConnectionsSound, Live, Whole
    <3>1. CASE d \in got
      <4>1. conn'[d] = NewConnection(s)
        BY <1>9, <3>1
      <4>2. ConnectionSound(NewConnection(s), client'[d].link # "reset" /\ ~NewConnection(s).shut)
        BY NewConnectionSound
      <4> QED BY <4>1, <4>2
    <3>2. CASE d \notin got
      <4>1. conn'[d] = conn[d] /\ client'[d] = client[d]
        BY <1>9, <3>2
      <4>2. ConnectionSound(conn[d], client[d].link # "reset" /\ ~conn[d].shut)
        BY <1>2, <4>1 DEF ConnectionsSound, Live, Whole
      <4> QED BY <4>1, <4>2
    <3> QED BY <3>1, <3>2
  <2>6. Known'
    <3>1. \A c \in Connections : conn'[c].reader # "none" => Made(c)
      <4>1. \A c \in Connections : c \in got \/ conn'[c] = conn[c]
        BY <1>9
      <4> QED BY <1>2, <1>4, <4>1 DEF Known, Live
    <3>2. /\ \A i \in 1 .. Len(backlog') : Made(backlog'[i])
          /\ \A h \in handoffs' : Made(h.conn)
      BY <1>1, <1>2 DEF Known
    <3>3. \A d \in Connections : client[d].link # "away" => client'[d].link # "away"
      BY <1>9
    <3> QED BY <2>1, <2>4, <3>1, <3>2, <3>3, KnownAgain
  <2>7. StoppedIsQuiet'
    <3>1. \A t \in Shards, d \in Connections :
              t # s /\ conn'[d].reader # "none" /\ conn'[d].at = t
                  => conn[d].reader # "none" /\ conn[d].at = t
      <4>1. \A d \in Connections : conn'[d] = NewConnection(s) \/ conn'[d] = conn[d]
        BY <1>9
      <4> QED BY <2>2, <4>1
    <3>2. \A t \in Shards : t # s => accept'[t] = accept[t] /\ stopped'[t] = stopped[t]
      <4>1. accept' = [accept EXCEPT ![s] = accept'[s]]
        <5>1. CASE s # 0 /\ parked[s] # {}
          <6>1. PICK c : accept' = [accept EXCEPT ![s] = [state |-> "got", conn |-> c]]
            BY <1>9, <5>1 DEF AwaitAccept
          <6> QED BY <1>2, <6>1
        <5>2. CASE ~(s # 0 /\ parked[s] # {})
          <6>1. accept' = [accept EXCEPT ![s] = [state |-> "waiting", conn |-> 0]]
            BY <1>9, <5>2 DEF AwaitAccept, Nobody
          <6> QED BY <1>2, <6>1
        <5> QED BY <5>1, <5>2
      <4> QED BY <1>2, <1>9, <4>1
    <3>3. stopped'[s] = 0
      BY <1>2, <1>3, <1>9
    <3> QED BY <1>1, <3>1, <3>2, <3>3, QuietAgain
  <2> QED BY <2>4, <2>5, <2>6, <2>7 DEF IInv
<1> QED BY <1>1, <1>7, <1>8, <1>9

-----------------------------------------------------------------------------
LEMMA InitSound == Init => IInv
<1> SUFFICES ASSUME Init PROVE IInv
  OBVIOUS
<1>1. \A c \in Connections : conn[c] = NoConnection /\ conn[c].reader = "none"
  BY DEF Init, NoConnection
<1>2. Types
  <2>1. client \in [Connections -> ClientStates]
    BY EmptySeq DEF Init, ClientStates
  <2>2. conn \in [Connections -> ConnectionObjects]
    BY NoConnectionType DEF Init
  <2>3. backlog \in Seq(Connections) /\ parked \in [Shards -> SUBSET Connections]
        /\ handoffs \subseteq [conn : Connections, to : Shards] /\ balance \in Nat
        /\ stopping \in [Shards -> BOOLEAN] /\ stopped \in [Shards -> {0, 1}]
    BY EmptySeq DEF Init
  <2>4. accept \in [Shards -> [state : {"none", "waiting", "ready", "got", "failed", "off"},
                               conn : Connections \union {0}]]
    BY DEF Init, Nobody
  <2> QED BY <2>1, <2>2, <2>3, <2>4 DEF Types
<1>3. ConnectionsSound
  BY <1>1 DEF ConnectionsSound, Live
<1>4. Known
  <2>1. Len(backlog) = 0 /\ handoffs = {} /\ \A s \in Shards : parked[s] = {} /\ accept[s].conn = 0
    BY EmptySeq DEF Init, Nobody
  <2> QED BY <1>1, <2>1 DEF Known, Live
<1>5. StoppedIsQuiet
  BY DEF Init, StoppedIsQuiet
<1> QED BY <1>2, <1>3, <1>4, <1>5 DEF IInv

LEMMA StepSound == IInv /\ [Next]_vars => IInv'
<1> SUFFICES ASSUME IInv, [Next]_vars PROVE IInv'
  OBVIOUS
<1>1. CASE Clients
  BY <1>1, ClientsKeep
<1>2. CASE Accepting
  BY <1>2, AcceptingKeeps
<1>3. CASE \E h \in handoffs : MoveConnectedSocket(h)
  BY <1>3, MoveConnectedSocketKeeps
<1>4. CASE \E s \in Shards : Listen(s) \/ Accepted(s) \/ Stop(s)
  BY <1>4, ListenKeeps, AcceptedKeeps, StopKeeps
<1>5. CASE \E c \in Connections : \/ Reader(c) \/ Responder(c) \/ FlushPoller(c)
                                  \/ Puts(c) \/ FailedPuts(c) \/ DeleteConnection(c)
  BY <1>5, ReaderKeeps, ResponderKeeps, PutsKeep, FailedPutsKeep, DeleteConnectionKeeps
<1>6. CASE UNCHANGED vars
  <2>1. UNCHANGED <<client, backlog, parked, handoffs, balance, accept, conn, stopping, stopped>>
    BY <1>6 DEF vars, sockets
  <2> QED BY <2>1 DEF IInv, Types, ConnectionsSound, Known, Made, StoppedIsQuiet,
                      Live, Whole, BeingAccepted, ConnectionsOf
<1> QED BY <1>1, <1>2, <1>3, <1>4, <1>5, <1>6 DEF Next

LEMMA InvHolds == Spec => []IInv
BY InitSound, StepSound, PTL DEF Spec

(* The queues keep their room and a server that has reported is done, in   *)
(* http_server (httpd.hh) and queue_ (queue_.hh), for every size of queue  *)
(* and any number of shards and connections.                               *)
THEOREM ServerExactHolds == Spec => []ServerExact
<1>1. IInv => ServerExact
  <2> SUFFICES ASSUME IInv, NEW c \in Connections
               PROVE  /\ Len(conn[c].replies.items) <= QueueMax
                      /\ Reading(c, "handling") => ~Full(conn[c].replies)
    BY DEF IInv, ServerExact, RoomIsKept
  <2>1. Len(conn[c].replies.items) <= QueueMax
    <3>1. conn[c] \in ConnectionObjects
      BY DEF IInv, Types
    <3> QED BY <3>1, ConnectionTypes, QueueTypes
  <2>2. Reading(c, "handling") => ~Full(conn[c].replies)
    BY ConnectionKnown DEF ConnectionSound, QueueSound, Reading
  <2> QED BY <2>1, <2>2
<1> QED BY <1>1, InvHolds, PTL

(* Whatever the flush poller and the responding fiber of a connection do   *)
(* beside each other, the socket gets what write() was given, once and in  *)
(* order, and a stream that is closed has sent all of it (stream.hh).      *)
THEOREM StreamExactHolds == Spec => []StreamExact
<1>1. IInv => StreamExact
  <2> SUFFICES ASSUME IInv, NEW c \in Connections, Live(c)
               PROVE  /\ OnePut(conn[c].out)
                      /\ conn[c].wire = UpToUnit(Len(conn[c].wire))
                      /\ Whole(c) => conn[c].wire \o Unsent(conn[c].out) = UpToUnit(conn[c].out.units)
                      /\ conn[c].responder = "finished" =>
                            /\ ~conn[c].out.inBatch
                            /\ Whole(c) => Len(conn[c].wire) = conn[c].out.units
    BY DEF StreamExact, UpToUnit, Whole
  <2>1. PICK k : k = conn[c]
    OBVIOUS
  <2>2. k \in ConnectionObjects /\ ConnectionSound(k, Whole(c))
    BY <2>1, ConnectionKnown
  <2>3. /\ k.out \in Streams /\ k.wire \in Seq(Units) /\ PutsSound(k.out)
        /\ k.wire = UpToUnit(Len(k.wire))
        /\ Whole(c) => Join(k.wire, Unsent(k.out)) = UpToUnit(k.out.units)
        /\ k.responder # "writing" => ~Writing(k.out)
        /\ k.responder \in {"draining", "finished"} /\ Whole(c)
               => k.out.flush \/ k.out.buffer = <<>>
        /\ k.responder = "finished" => ~k.out.inBatch
    BY <2>2, StreamFacts
  <2>4. OnePut(k.out)
    BY <2>3 DEF PutsSound
  <2>5. ASSUME k.responder = "finished", Whole(c)
        PROVE  Len(k.wire) = k.out.units
    <3>1. k.out.byFlush = <<>> /\ k.out.buffer = <<>> /\ ~Writing(k.out)
      BY <2>3, <2>5 DEF PutsSound
    <3>2. Unsent(k.out) = Join(<<>>, <<>>) /\ Join(<<>>, <<>>) = <<>> /\ <<>> \in Seq(Units)
      BY <2>3, <3>1, UnsentIdle, JoinEmpty, EmptySeq
    <3>3. k.out.units \in Nat
      BY <2>3, StreamTypes
    <3>4. Join(k.wire, <<>>) = UpToUnit(k.out.units)
      BY <2>3, <2>5, <3>2
    <3> QED BY <2>3, <3>2, <3>3, <3>4, UpToUnitPart
  <2>6. Whole(c) => k.wire \o Unsent(k.out) = UpToUnit(k.out.units)
    BY <2>3 DEF Join
  <2> QED BY <2>1, <2>3, <2>4, <2>5, <2>6
<1> QED BY <1>1, InvHolds, PTL
=============================================================================
