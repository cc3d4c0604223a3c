-------------------------------- MODULE Slab --------------------------------
(***************************************************************************)
(* slab_allocator and slab_class (slab.hh), the allocator of the memcached *)
(* server: one per reactor.  A slab page is cut into the objects of one    *)
(* slab class.  Every class keeps a list of its pages with free objects    *)
(* and an LRU list of the items that may be evicted.                       *)
(*                                                                         *)
(* An allocator is a record with the fields of the two classes; its        *)
(* operations return the next record.  An object is named by the index of  *)
(* its page and its place there.  The front of a list is its head.         *)
(***************************************************************************)
EXTENDS Integers, Sequences, FiniteSets
LOCAL INSTANCE SequencesExt
LOCAL INSTANCE FiniteSetsExt

CONSTANTS
    InitialSize,    \* initial_size: 96 in the code
    Growth,         \* growth_factor
    MaxObjectSize,  \* also the size of a slab page
    MaxPages        \* bound: slab pages the system has memory for

ASSUME SlabAssumption ==
    /\ InitialSize \in Nat \ {0}
    /\ Growth \in Nat \ {0, 1}
    /\ MaxObjectSize \in Nat
    /\ MaxObjectSize >= InitialSize
    /\ MaxPages \in Nat

Nil == 0

-----------------------------------------------------------------------------
(* Slab classes.                                                           *)

GrownSize[i \in Nat \ {0}] ==
    IF i = 1 THEN InitialSize ELSE GrownSize[i - 1] * Growth

(* The last class has objects of a whole page.                             *)
Classes ==
    1 .. 1 + Cardinality({i \in 1 .. MaxObjectSize :
                              MaxObjectSize \div GrownSize[i] > 1})

SizeOf(c) ==
    IF c + 1 \in Classes THEN GrownSize[c] ELSE MaxObjectSize

ObjectsIn(c) == MaxObjectSize \div SizeOf(c)

(* get_slab_class(size): Nil when the size is too large for every class.   *)
GetSlabClass(size) ==
    IF size > MaxObjectSize THEN Nil
    ELSE Min({c \in Classes : SizeOf(c) >= size})

Pages == 1 .. MaxPages
Places == 0 .. MaxObjectSize \div InitialSize - 1
Objects == Pages \X Places
PageOf(o) == o[1]

-----------------------------------------------------------------------------
(* limit is in pages; with no limit the allocator registers a reclaimer.   *)
NewSlab(limit) ==
    [reclaiming |-> limit = 0, available |-> limit, reclaimed |-> FALSE,
     pages |-> <<>>,        \* _slab_pages_vector
     pageLru |-> <<>>,      \* _slab_page_desc_lru
     freePages |-> [c \in Classes |-> <<>>],
     lru |-> [c \in Classes |-> <<>>]]

GonePage == [class |-> Nil, free |-> {}, refcnt |-> 0]

NewPage(c) == [class |-> c, free |-> 1 .. ObjectsIn(c) - 1, refcnt |-> 0]

ClassOf(s, o) == s.pages[PageOf(o)].class

PushFront(seq, x) == <<x>> \o seq

(* get_slab_page_desc() asserts it.                                        *)
HasPage(s, o) == PageOf(o) \in DOMAIN s.pages /\ s.pages[PageOf(o)] # GonePage

(* Operators whose names end in _mut are wrong on purpose: each is a        *)
(* plausible mistake in the definition after it that a property catches.   *)

-----------------------------------------------------------------------------
(* The three ways create() finds an object for class c.                    *)

HasFreePage(s, c) == s.freePages[c] # <<>>

(* slab_class::create() asserts that the page has a free object.           *)
FreePageHasRoom(s, c) == s.pages[Last(s.freePages[c])].free # {}

FreeObject(s, c) ==
    LET p == Last(s.freePages[c]) IN <<p, Max(s.pages[p].free)>>

TakeFree(s, c) ==
    LET o == FreeObject(s, c)
        p == PageOf(o)
    IN  [s EXCEPT !.pages[p].free = @ \ {o[2]},
                  !.freePages[c] = IF s.pages[p].free = {o[2]}
                                   THEN Front(@) ELSE @,
                  !.lru[c] = PushFront(@, o)]

(* has_no_slab_pages() only looks at the LRU list.                         *)
CanAllocatePage(s, c) ==
    \/ s.reclaiming /\ ~s.reclaimed
    \/ s.available > 0
    \/ s.lru[c] = <<>>

(* The first object of the new page is taken; a page of one object joins   *)
(* the pages with free objects like any other.                             *)
TakeFromNewPage(s, c) ==
    LET p == Len(s.pages) + 1
    IN  [s EXCEPT !.pages = Append(@, NewPage(c)),
                  !.freePages[c] = PushFront(@, p),
                  !.pageLru = IF s.reclaiming THEN PushFront(@, p) ELSE @,
                  !.available = IF @ > 0 THEN @ - 1 ELSE @,
                  !.lru[c] = PushFront(@, <<p, 0>>)]

Victim(s, c) == Last(s.lru[c])

-----------------------------------------------------------------------------
(* Items in and out of the LRU list of their class.                        *)

RemoveFromLru(s, o) == [s EXCEPT !.lru[ClassOf(s, o)] = Remove(@, o)]

InsertIntoLru(s, o) == [s EXCEPT !.lru[ClassOf(s, o)] = PushFront(@, o)]

(* The page of a locked item cannot be reclaimed.                          *)
LockItem(s, o) ==
    LET p == PageOf(o)
        counted == [s EXCEPT !.pages[p].refcnt = @ + 1,
                             !.pageLru = IF s.pages[p].refcnt = 0
                                         THEN Remove(@, p) ELSE @]
    IN  RemoveFromLru(IF s.reclaiming THEN counted ELSE s, o)

UnlockItem(s, o) ==
    LET p == PageOf(o)
        counted == [s EXCEPT !.pages[p].refcnt = @ - 1,
                             !.pageLru = IF s.pages[p].refcnt = 1
                                         THEN PushFront(@, p) ELSE @]
    IN  InsertIntoLru(IF s.reclaiming THEN counted ELSE s, o)

(* slab_allocator::free().                                                 *)
FreeItem(s, o) ==
    LET p == PageOf(o)
        c == ClassOf(s, o)
    IN  [RemoveFromLru(s, o) EXCEPT
            !.pages[p].free = @ \cup {o[2]},
            !.freePages[c] = IF s.pages[p].free = {} THEN Append(@, p) ELSE @]

-----------------------------------------------------------------------------
(* evict_lru_slab_page(): gives the least recently used page back to the   *)
(* system, once its items are erased.                                      *)

CanReclaim(s) == s.pageLru # <<>>

ReclaimedPage(s) == Last(s.pageLru)

(* The items of page p, in the order of their addresses.                   *)
ItemsIn(s, p) ==
    LET taken == (0 .. ObjectsIn(s.pages[p].class) - 1) \ s.pages[p].free
    IN  [i \in 1 .. Cardinality(taken) |->
            <<p, CHOOSE x \in taken :
                     Cardinality({y \in taken : y < x}) = i - 1>>]

(* A page without free objects must not be in the list of those that have  *)
(* some: its descriptor is deleted.                                        *)
UnlistedWhenFull(s, p) ==
    s.pages[p].free = {} => p \notin ToSet(s.freePages[s.pages[p].class])

Unlisted(s, p) ==
    [s EXCEPT !.freePages[s.pages[p].class] = Remove(@, p),
              !.pageLru = Front(@)]

DropPage(s, p) == [s EXCEPT !.pages[p] = GonePage]
=============================================================================
