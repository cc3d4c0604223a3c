----------------------------- MODULE Memcached ------------------------------
(***************************************************************************)
(* One shard of the memcached server (memcache.cc): the cache of a         *)
(* reactor, and the connections that ask it, those of its own reactor      *)
(* directly and those of another one by messages (sharded_cache).  A       *)
(* connection handles one request at a time (ascii_protocol::handle()).    *)
(* The answer of a get holds references to items (item_ptr) until the      *)
(* output is sent, while the cache goes on changing.                       *)
(***************************************************************************)
EXTENDS MemCache
LOCAL INSTANCE SequencesExt
LOCAL INSTANCE FiniteSetsExt

CONSTANTS
    Conns,
    Remote,         \* the connections of the other reactor
    Sizes,          \* of the items stored
    Lifetimes,      \* the expirations asked for, besides none
    Limits,         \* page limits; 0 is a cache with the reclaimer
    MaxRequests,    \* bound: how many requests the connections send
    Horizon         \* bound: where the clock stops

ASSUME ServerAssumption ==
    /\ Remote \subseteq Conns
    /\ Sizes \subseteq Nat \ {0}
    /\ Lifetimes \subseteq Nat
    /\ Limits \subseteq Nat
    /\ MaxRequests \in Nat
    /\ Horizon \in Nat
    /\ \A life \in Lifetimes : Horizon + life < Never

VARIABLES
    cache,
    now,
    conn,       \* of every connection its phase, the answers it waits for
                \* and the references its output holds
    toShard,    \* messages from the other reactor, requests and releases
    toCore,     \* the answers to it
    requests    \* how many requests have been sent

vars == <<cache, now, conn, toShard, toCore, requests>>

Phases == {"idle", "waiting", "writing"}

Idle == [phase |-> "idle", awaits |-> 0, held |-> <<>>]

Init ==
    /\ \E limit \in Limits : cache = NewCache(limit)
    /\ now = 1
    /\ conn = [n \in Conns |-> Idle]
    /\ toShard = <<>>
    /\ toCore = <<>>
    /\ requests = 0

Alive == cache.died = "no"

(* Operators whose names end in _mut are wrong on purpose: each is a        *)
(* plausible mistake in the definition after it that a property catches.   *)

-----------------------------------------------------------------------------
(* Requests, and what the shard does with one.                             *)

Expiries == {Never} \cup {now + life : life \in Lifetimes}

Insertions(ops) ==
    [op : ops, key : Keys, size : Sizes, expiry : Expiries]

Requests ==
    Insertions({"set", "add", "replace"})
    \cup [op : {"cas"}, key : Keys, size : Sizes, expiry : Expiries,
          version : 1 .. requests]
    \cup [op : {"delete"}, key : Keys]
    \cup [op : {"incr"}, key : Keys, size : Sizes, numeric : BOOLEAN]
    \cup [op : {"flush_all"}]
    \cup [op : {"flush_at"}, time : Expiries \ {Never}]

Execute(c, r) ==
    CASE r.op = "set" -> Set(c, r)
      [] r.op = "add" -> Add(c, r)
      [] r.op = "replace" -> Replace(c, r)
      [] r.op = "cas" -> Cas(c, r, r.version)
      [] r.op = "delete" -> RemoveKey(c, r.key)
      [] r.op = "get" -> Get(c, r.key)
      [] r.op = "incr" -> Arith(c, r.key, r.size, r.numeric)
      [] r.op = "flush_all" -> Answer(FlushAll(c), "ok", NoObject)
      [] r.op = "flush_at" -> Answer(FlushAt(c, r.time), "ok", NoObject)

(* A reference to object o, with what the item was when it was taken.      *)
Reference(c, o) ==
    [obj |-> o, key |-> c.item[o].key, version |-> c.item[o].version]

MayAsk(n) ==
    /\ Alive
    /\ conn[n].phase = "idle"
    /\ requests < MaxRequests
    /\ requests' = requests + 1

(* incr and decr copy the value into the output and drop the reference.    *)
Dropped(done) ==
    IF done.obj # NoObject /\ done.answer \in {"changed", "not a number"}
    THEN Release(done.cache, done.obj) ELSE done.cache

(* A connection of the shard's own reactor.                                *)
AskHere(n) ==
    /\ MayAsk(n)
    /\ n \notin Remote
    /\ \E r \in Requests :
          /\ cache' = Dropped(Execute(cache, r))
          /\ conn' = [conn EXCEPT ![n].phase = "writing"]
    /\ UNCHANGED <<now, toShard, toCore>>

(* handle_get(): one key after the other.                                  *)
GetHere(n) ==
    /\ MayAsk(n)
    /\ n \notin Remote
    /\ \E keys \in SUBSET Keys \ {{}} :
          LET found == {cache.table[k] : k \in keys} \ {NoObject}
              items == SetToSeq(found)
          IN  /\ cache' = FoldLeft(AddRef, cache, items)
              /\ conn' = [conn EXCEPT ![n] =
                     [phase |-> "writing", awaits |-> 0,
                      held |-> [i \in DOMAIN items |->
                                    Reference(cache, items[i])]]]
    /\ UNCHANGED <<now, toShard, toCore>>

-----------------------------------------------------------------------------
(* A connection of the other reactor: invoke_on() sends a message.  The    *)
(* request stays where it is until the answer: the connection waits.       *)

Post(n, r) == [conn |-> n, request |-> r]

AskThere(n) ==
    /\ MayAsk(n)
    /\ n \in Remote
    /\ \E r \in Requests : toShard' = Append(toShard, Post(n, r))
    /\ conn' = [conn EXCEPT ![n].phase = "waiting", ![n].awaits = 1]
    /\ UNCHANGED <<cache, now, toCore>>

GetThere(n) ==
    /\ MayAsk(n)
    /\ n \in Remote
    /\ \E keys \in SUBSET Keys \ {{}} :
          /\ toShard' = toShard \o
                 SetToSeq({Post(n, [op |-> "get", key |-> k]) : k \in keys})
          /\ conn' = [conn EXCEPT ![n].phase = "waiting",
                                  ![n].awaits = Cardinality(keys)]
    /\ UNCHANGED <<cache, now, toCore>>

(* A foreign_ptr destroyed away from its home sends the release there.     *)
ReleaseMessage(ref) == [release |-> ref]

IsRelease(m) == "release" \in DOMAIN m

ShardRuns ==
    /\ Alive
    /\ toShard # <<>>
    /\ toShard' = Tail(toShard)
    /\ LET m == Head(toShard)
           done == Execute(cache, m.request)
       IN  IF IsRelease(m)
           THEN cache' = Release(cache, m.release.obj) /\ UNCHANGED toCore
           ELSE /\ cache' = done.cache
                /\ toCore' = Append(toCore,
                     [conn |-> m.conn, answer |-> done.answer,
                      refs |-> IF done.obj # NoObject /\ done.answer # "stored"
                               THEN <<Reference(done.cache, done.obj)>>
                               ELSE <<>>])
    /\ UNCHANGED <<now, conn, requests>>

(* The answer to the last message of a request is written to the output,   *)
(* by reference for a get and by value otherwise.                          *)
CoreReceives ==
    /\ Alive
    /\ toCore # <<>>
    /\ toCore' = Tail(toCore)
    /\ LET m == Head(toCore)
           n == m.conn
           byValue == m.answer \in {"changed", "not a number"}
           left == conn[n].awaits - 1
       IN  /\ conn' = [conn EXCEPT
                  ![n] = [phase |-> IF left = 0 THEN "writing" ELSE "waiting",
                          awaits |-> left,
                          held |-> IF byValue THEN @.held ELSE @.held \o m.refs]]
           /\ toShard' = IF byValue THEN Append(toShard, ReleaseMessage(m.refs[1]))
                         ELSE toShard
    /\ UNCHANGED <<cache, now, requests>>

-----------------------------------------------------------------------------
ReleaseHeld(c, held) == FoldLeft(LAMBDA d, ref : Release(d, ref.obj), c, held)

(* The output is flushed, or fails: either way its messages are destroyed. *)
Sent(n) ==
    /\ Alive
    /\ conn[n].phase = "writing"
    /\ IF n \in Remote
       THEN /\ toShard' = toShard \o [i \in DOMAIN conn[n].held |->
                                          ReleaseMessage(conn[n].held[i])]
            /\ UNCHANGED cache
       ELSE /\ cache' = ReleaseHeld(cache, conn[n].held)
            /\ UNCHANGED toShard
    /\ conn' = [conn EXCEPT ![n] = Idle]
    /\ UNCHANGED <<now, toCore, requests>>

ItemsExpire ==
    /\ Alive
    /\ cache.alarm <= now
    /\ cache' = Expire(cache, now)
    /\ UNCHANGED <<now, conn, toShard, toCore, requests>>

FlushTime ==
    /\ Alive
    /\ cache.flushAlarm <= now
    /\ cache' = FlushAll(cache)
    /\ UNCHANGED <<now, conn, toShard, toCore, requests>>

MemoryIsLow ==
    /\ Alive
    /\ cache.slab.reclaiming
    /\ cache' = Reclaim(cache)
    /\ UNCHANGED <<now, conn, toShard, toCore, requests>>

Tick ==
    /\ Alive
    /\ now < Horizon
    /\ now' = now + 1
    /\ UNCHANGED <<cache, conn, toShard, toCore, requests>>

Connection(n) ==
    AskHere(n) \/ GetHere(n) \/ AskThere(n) \/ GetThere(n) \/ Sent(n)

Next ==
    \/ \E n \in Conns : Connection(n)
    \/ ShardRuns
    \/ CoreReceives
    \/ ItemsExpire
    \/ FlushTime
    \/ MemoryIsLow
    \/ Tick

Spec == Init /\ [][Next]_vars

-----------------------------------------------------------------------------
(* Properties.                                                             *)

(* References outside the cache: in outputs, answers and releases.         *)
References ==
    UNION {ToSet(conn[n].held) : n \in Conns}
    \cup UNION {ToSet(toCore[i].refs) : i \in DOMAIN toCore}
    \cup {m.release : m \in {x \in ToSet(toShard) : IsRelease(x)}}

Held(o) == \E ref \in References : ref.obj = o

(* What a get answered stays what it was until the output has been sent:   *)
(* no object is reused while an answer refers to it, whatever is replaced, *)
(* deleted, evicted, reclaimed or expires in between.                      *)
AnswersKeepTheirItems ==
    Alive => \A ref \in References :
                 /\ cache.item[ref.obj].key = ref.key
                 /\ cache.item[ref.obj].version = ref.version

PlacesOf(p) == {o \in Objects : /\ PageOf(o) = p
                                /\ HasPage(cache.slab, o)
                                /\ o[2] < ObjectsIn(ClassOf(cache.slab, o))}

Locked(p) == {o \in PlacesOf(p) : cache.item[o].ref > 1}

Times(seq, x) == Cardinality({i \in DOMAIN seq : seq[i] = x})

(* Every object of a slab page is free, or in the LRU list, or locked; the *)
(* LRU list has the items with one reference, once; a page is for the      *)
(* reclaimer to take exactly when none of its items is locked.             *)
SlabExact ==
    Alive =>
    LET s == cache.slab IN
    \A p \in DOMAIN s.pages : s.pages[p] # GonePage =>
        LET page == s.pages[p] IN
        /\ \A o \in PlacesOf(p) :
              /\ o[2] \in page.free <=> cache.item[o].ref = 0
              /\ Times(s.lru[page.class], o) = IF IsUnlocked(cache, o) THEN 1 ELSE 0
        /\ s.reclaiming => /\ page.refcnt = Cardinality(Locked(p))
                           /\ Times(s.pageLru, p) = IF Locked(p) = {} THEN 1 ELSE 0
        /\ ObjectsIn(page.class) > 1 =>
              Times(s.freePages[page.class], p) = IF page.free = {} THEN 0 ELSE 1

(* The server can only die of an eviction when an answer still holds an    *)
(* item that is no longer in the cache: such an item is in the LRU list,   *)
(* and unlinking it from the cache again is what kills.  The other death   *)
(* is that of a class whose page has room for one object only.             *)
DiesOnlyOverAnswers ==
    /\ cache.died # "locked item evicted"
    /\ cache.died = "removed item evicted" =>
          \E o \in Objects : Held(o) /\ ~Cached(cache, o)
    /\ cache.died \in {"no free object", "listed page deleted"} =>
          \E p \in DOMAIN cache.slab.pages :
             cache.slab.pages[p] # GonePage /\ ObjectsIn(cache.slab.pages[p].class) = 1

CachedItems == {cache.table[k] : k \in Keys} \ {NoObject}

(* The cache's own records agree: every key finds its own item, _alive has *)
(* the cached items that expire, the byte count is that of the cached      *)
(* items, and the timer is set for the first of them to expire, or before. *)
CacheConsistent ==
    Alive =>
    /\ \A k \in Keys : Found(cache, k) =>
          /\ cache.item[cache.table[k]].key = k
          /\ cache.item[cache.table[k]].ref >= 1
    /\ cache.alive = {o \in CachedItems : cache.item[o].expiry # Never}
    /\ cache.bytes = MapThenSumSet(LAMBDA o : cache.item[o].size, CachedItems)
    /\ \A o \in cache.alive : cache.alarm <= cache.item[o].expiry

(* All that the slab allocator and the cache keep about an item agrees, in *)
(* whatever order it is stored, answered, expired, evicted and reclaimed.  *)
RecordsAgree == SlabExact /\ CacheConsistent

(* The items that answers hold (memcache.cc, item_ptr): they keep what the *)
(* client is sent, and nothing but their being held can kill the server.   *)
AnswersAreSafe == AnswersKeepTheirItems /\ DiesOnlyOverAnswers

CacheExact == RecordsAgree /\ AnswersAreSafe

(* The server implements the map: whatever happens, a key's version only   *)
(* goes up by one, starts again at one, or is lost.                        *)
Map == INSTANCE CacheMap WITH
           version <- [k \in Keys |-> IF Found(cache, k)
                                      THEN cache.item[cache.table[k]].version
                                      ELSE 0]

ImplementsMap == Map!Spec
=============================================================================
