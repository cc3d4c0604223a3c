------------------------------ MODULE MemCache ------------------------------
(***************************************************************************)
(* memcache::cache (memcache.cc): the items one reactor keeps.  A cache is *)
(* a record; its operations return the next record, and those that answer  *)
(* return [cache, answer, obj].                                            *)
(*                                                                         *)
(* What an item holds is reduced to what decides about its fate: its key,  *)
(* version, size, expiry and reference count.  Whether a value is a number *)
(* comes with the request.  The timer_set of the items (_alive) is used by *)
(* its contract, which the runs of ReactorTimers check.                    *)
(***************************************************************************)
EXTENDS Slab
LOCAL INSTANCE SequencesExt
LOCAL INSTANCE FiniteSetsExt

CONSTANTS
    Keys,
    Never       \* never_expire_timepoint

ASSUME NeverAssumption == Never \in Nat

NoObject == <<0, 0>>

NoItem == [key |-> Nil, version |-> 0, size |-> 0, expiry |-> Never, ref |-> 0]

NewCache(limit) ==
    [slab |-> NewSlab(limit),
     item |-> [o \in Objects |-> NoItem],
     table |-> [k \in Keys |-> NoObject],   \* _cache
     alive |-> {},                          \* _alive
     next |-> Never,                        \* _alive._next
     alarm |-> Never,                       \* _timer
     flushAlarm |-> Never,                  \* _flush_timer
     bytes |-> 0,                           \* _stats._bytes
     died |-> "no"]       \* how an assertion or an unlinked hook ended it

IsUnlocked(c, o) == c.item[o].ref = 1

Cached(c, o) == c.item[o].key \in Keys /\ c.table[c.item[o].key] = o

(* Operators whose names end in _mut are wrong on purpose: each is a        *)
(* plausible mistake in the definition after it that a property catches.   *)

-----------------------------------------------------------------------------
(* intrusive_ptr_add_ref() and intrusive_ptr_release().                    *)

AddRef(c, o) ==
    [c EXCEPT !.item[o].ref = @ + 1,
              !.slab = IF c.item[o].ref = 1 THEN LockItem(@, o) ELSE @]

(* An item whose last holder but one lets go is back in the LRU list,      *)
(* whether or not the cache is the holder that is left.                    *)
Release(c, o) ==
    CASE c.item[o].ref = 2 -> [c EXCEPT !.item[o].ref = 1,
                                        !.slab = UnlockItem(@, o)]
      [] c.item[o].ref = 1 -> [c EXCEPT !.item[o] = NoItem,
                                        !.slab = FreeItem(@, o)]
      [] OTHER -> [c EXCEPT !.item[o].ref = @ - 1]

-----------------------------------------------------------------------------
(* erase<>(): the item leaves _cache and, unless expire() has taken it     *)
(* from there, _alive.                                                     *)
Unlink(c, o) ==
    [c EXCEPT !.table[c.item[o].key] = NoObject,
              !.alive = @ \ {o},
              !.bytes = @ - c.item[o].size]

Erase_mut(c, o) == [Unlink(c, o) EXCEPT !.item[o] = NoItem,
                                       !.slab = FreeItem(@, o)]

Erase(c, o) == Release(Unlink(c, o), o)

Dies(c, how) == [c EXCEPT !.died = how]

(* An item is evicted only when unlocked, as an assertion says.  Then      *)
(* _erase_func unlinks it from _cache, where a removed item no longer is.  *)
Evict(c, o) ==
    CASE c.died # "no" -> c
      [] c.died = "no" /\ ~IsUnlocked(c, o) -> Dies(c, "locked item evicted")
      [] c.died = "no" /\ IsUnlocked(c, o) /\ ~Cached(c, o) ->
            Dies(c, "removed item evicted")
      [] OTHER -> [Unlink(c, o) EXCEPT !.item[o] = NoItem,
                                       !.slab = RemoveFromLru(@, o)]

(* slab_allocator::create().  obj is NoObject where it throws bad_alloc.   *)
Create(c, size) ==
    LET cl == GetSlabClass(size)
        s == c.slab
        Made(next, o) == [cache |-> next, obj |-> o]
    IN  CASE cl = Nil -> Made(c, NoObject)
          [] cl # Nil /\ HasFreePage(s, cl) ->
                IF FreePageHasRoom(s, cl)
                THEN Made([c EXCEPT !.slab = TakeFree(@, cl)], FreeObject(s, cl))
                ELSE Made(Dies(c, "no free object"), NoObject)
          [] cl # Nil /\ ~HasFreePage(s, cl) /\ CanAllocatePage(s, cl) ->
                IF Len(s.pages) < MaxPages
                THEN Made([c EXCEPT !.slab = TakeFromNewPage(@, cl)],
                          <<Len(s.pages) + 1, 0>>)
                ELSE Made(c, NoObject)
          [] OTHER ->
                LET v == Victim(s, cl)
                    left == Evict(c, v)
                IN  IF left.died # "no" THEN Made(left, NoObject)
                    ELSE Made([left EXCEPT !.slab = InsertIntoLru(@, v)], v)

(* Links the new object o as the item of ins and, where it lowers the      *)
(* next timeout, rearms the timer.                                         *)
Link(c, o, ins, version) ==
    LET it == [key |-> ins.key, version |-> version, size |-> ins.size,
               expiry |-> ins.expiry, ref |-> 1]
        lowers == ins.expiry < c.next
    IN  [c EXCEPT !.item[o] = it,
                  !.table[ins.key] = o,
                  !.alive = IF ins.expiry # Never THEN @ \cup {o} ELSE @,
                  !.next = IF lowers THEN ins.expiry ELSE @,
                  !.alarm = IF lowers THEN ins.expiry ELSE @,
                  !.bytes = @ + ins.size]

Answer(c, answer, o) == [cache |-> c, answer |-> answer, obj |-> o]

Stored(made, ins, version) ==
    IF made.obj = NoObject THEN Answer(made.cache, "out of memory", NoObject)
    ELSE Answer(Link(made.cache, made.obj, ins, version), "stored", made.obj)

AddNew(c, ins) == Stored(Create(c, ins.size), ins, 1)

(* The old item is gone before there is memory for the new one.            *)
AddOverriding(c, o, ins) ==
    Stored(Create(Erase(c, o), ins.size), ins, c.item[o].version + 1)

-----------------------------------------------------------------------------
(* The requests.  find() fails for a key without item.                     *)

Found(c, k) == c.table[k] # NoObject

Set(c, ins) ==
    IF Found(c, ins.key) THEN AddOverriding(c, c.table[ins.key], ins)
    ELSE AddNew(c, ins)

Add_mut(c, ins) == AddNew(c, ins)

Add(c, ins) ==
    IF Found(c, ins.key) THEN Answer(c, "not stored", NoObject)
    ELSE AddNew(c, ins)

Replace(c, ins) ==
    IF Found(c, ins.key) THEN AddOverriding(c, c.table[ins.key], ins)
    ELSE Answer(c, "not stored", NoObject)

Cas(c, ins, version) ==
    LET o == c.table[ins.key]
    IN  CASE o = NoObject -> Answer(c, "not found", NoObject)
          [] o # NoObject /\ c.item[o].version # version ->
                Answer(c, "exists", NoObject)
          [] OTHER -> AddOverriding(c, o, ins)

RemoveKey(c, k) ==
    IF Found(c, k) THEN Answer(Erase(c, c.table[k]), "deleted", NoObject)
    ELSE Answer(c, "not found", NoObject)

(* The answer of a get holds a reference to the item.                      *)
Get(c, k) ==
    IF Found(c, k) THEN Answer(AddRef(c, c.table[k]), "value", c.table[k])
    ELSE Answer(c, "miss", NoObject)

(* incr() and decr(), which differ in the arithmetic only: a new item with *)
(* the expiry of the old one, a reference to which is the answer.          *)
Arith(c, k, size, numeric) ==
    LET o == c.table[k]
        done == AddOverriding(c, o, [key |-> k, size |-> size,
                                     expiry |-> c.item[o].expiry])
    IN  CASE o = NoObject -> Answer(c, "not found", NoObject)
          [] o # NoObject /\ ~numeric -> Answer(AddRef(c, o), "not a number", o)
          [] o # NoObject /\ numeric /\ done.obj = NoObject -> done
          [] OTHER -> Answer(AddRef(done.cache, done.obj), "changed", done.obj)

(* The items in their order in _cache, which no property depends on.       *)
FlushAll(c) ==
    LET items == {c.table[k] : k \in Keys} \ {NoObject}
    IN  [FoldLeft(Erase, c, SetToSeq(items)) EXCEPT !.flushAlarm = Never]

FlushAt(c, time) == [c EXCEPT !.flushAlarm = time]

-----------------------------------------------------------------------------
(* What the timers and the memory reclaimer do.                            *)

Expire_mut(c, now) ==
    LET due == {o \in c.alive : c.item[o].expiry <= now}
        rest == c.alive \ due
        left == FoldLeft(Erase, [c EXCEPT !.alive = rest], SetToSeq(due))
    IN  [left EXCEPT !.next = Min({Never} \cup {c.item[o].expiry : o \in rest}),
                     !.alarm = Never]

(* expire().  Reading the list's first element after pop_front() reads     *)
(* freed memory; the pointer is still there when nothing has run since.    *)
Expire(c, now) ==
    LET due == {o \in c.alive : c.item[o].expiry <= now}
        rest == c.alive \ due
        next == Min({Never} \cup {c.item[o].expiry : o \in rest})
        left == FoldLeft(Erase, [c EXCEPT !.alive = rest], SetToSeq(due))
    IN  [left EXCEPT !.next = next, !.alarm = next]

(* reclaim(), which the memory allocator calls when it is low on pages.    *)
Reclaim(c) ==
    LET s == c.slab
        p == ReclaimedPage(s)
        left == FoldLeft(Evict, [c EXCEPT !.slab = Unlisted(s, p)],
                         ItemsIn(s, p))
        done == IF left.died = "no" THEN [left EXCEPT !.slab = DropPage(@, p)]
                ELSE left
    IN  CASE ~CanReclaim(s) -> [c EXCEPT !.slab.reclaimed = TRUE]
          [] CanReclaim(s) /\ ~UnlistedWhenFull(s, p) ->
                Dies(c, "listed page deleted")
          [] OTHER -> [done EXCEPT !.slab.reclaimed = TRUE]
=============================================================================
