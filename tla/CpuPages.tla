------------------------------- MODULE CpuPages -------------------------------
(***************************************************************************)
(* The memory of one cpu (cpu_pages, future_all12.cc): its thread          *)
(* allocates and frees blocks of pages and small objects, reclaims what    *)
(* caches hold when it runs short, and takes back the blocks that other    *)
(* cpus freed, which those push on a list without a lock.                  *)
(*                                                                         *)
(* Every call of the owner is one action: nothing in it waits.  A free on  *)
(* another cpu is a load and a compare-and-swap.                           *)
(*                                                                         *)
(* The spans of pages: free spans are listed by the logarithm of their     *)
(* size, and the first and the last page of every span say whether it is   *)
(* free and how long it is, so that a span that is freed finds its         *)
(* neighbours.  The allocator is a record m, and a pointer is the number   *)
(* of its page.                                                            *)
(***************************************************************************)
EXTENDS Naturals, Sequences, FiniteSets
LOCAL INSTANCE FiniteSetsExt
LOCAL INSTANCE SequencesExt

CONSTANTS
    NrPages,    \* nr_pages; page 0 holds the page structures
    NrLists     \* nr_span_lists

ASSUME PagesAssumption == /\ NrPages \in Nat \ {0, 1}
                          /\ NrLists \in Nat \ {0}
                          /\ NrPages < 2 ^ NrLists

Nil == 0

Pages == 1 .. NrPages - 1

(* The page after the last one is a sentinel.                              *)
NoPage == [free |-> FALSE, size |-> 0,
           pool |-> FALSE,        \* pool # nullptr
           offset |-> 0,          \* offset_in_span
           used |-> 0,            \* nr_small_alloc
           freelist |-> <<>>]

(* index_of() rounds the logarithm down, index_of_conservative() up.       *)
IndexOf(n) == CHOOSE i \in 0 .. NrLists : 2 ^ i <= n /\ n < 2 ^ (i + 1)

IndexOfConservative(n) == Min({i \in 0 .. NrLists : n <= 2 ^ i})

-----------------------------------------------------------------------------
(* Operators whose names end in _mut are wrong on purpose: each is a        *)
(* plausible mistake in the definition after it that a property catches.   *)

Unlink(m, h) ==
    [m EXCEPT !.lists[IndexOf(m.page[h].size)] = Remove(@, h)]

(* The pages inside a span keep their free flags, which may be stale; the  *)
(* rest of what they say has a meaning only at the ends and is forgotten.  *)
FreeSpanNoMerge(m, start, n) ==
    LET end == start + n - 1
    IN  [m EXCEPT !.nrFree = @ + n,
                  !.page = [p \in DOMAIN @ |->
                              IF p \in {start, end}
                              THEN [NoPage EXCEPT !.free = TRUE, !.size = n]
                              ELSE IF p \in start .. end
                              THEN [NoPage EXCEPT !.free = m.page[p].free]
                              ELSE @[p]],
                  !.lists[IndexOf(n)] = <<start>> \o @]

(* A neighbour that is free leaves its list and becomes part of the span.  *)
Absorb(m, h) ==
    [Unlink(m, h) EXCEPT !.nrFree = @ - m.page[h].size]

FreeSpan(m, start, n) ==
    LET before == IF m.page[start - 1].free THEN m.page[start - 1].size ELSE 0
        after == IF m.page[start + n].free THEN m.page[start + n].size ELSE 0
        neighbours == (IF before > 0 THEN {start - before} ELSE {})
                      \union (IF after > 0 THEN {start + n} ELSE {})
    IN  FreeSpanNoMerge(FoldSet(LAMBDA h, acc : Absorb(acc, h), m, neighbours),
                        start - before, before + n + after)

(* find_and_unlink_span(), without the unlinking: the first span of the    *)
(* first list all of whose spans are long enough, or else a span that      *)
(* happens to be so in the list where n itself belongs.                    *)
FindSpan(m, n) ==
    LET from == IndexOfConservative(n)
        filled == {i \in from .. NrLists - 1 : m.lists[i] # <<>>}
        list == IF filled # {} THEN m.lists[Min(filled)]
                ELSE IF IndexOf(n) = from THEN <<>> ELSE m.lists[IndexOf(n)]
        found == SelectInSeq(list, LAMBDA h : m.page[h].size >= n)
    IN  IF found = 0 THEN Nil ELSE list[found]

(* The allocation of n pages at the given offset of a free span, whose     *)
(* ends go back to the lists.                                              *)
TakeSpan(m, h, offset, n) ==
    LET size == m.page[h].size
        start == h + offset
        taken == [Unlink(m, h) EXCEPT !.nrFree = @ - size]
        left == IF offset > 0 THEN FreeSpanNoMerge(taken, h, offset) ELSE taken
        both == IF n < size - offset
                THEN FreeSpanNoMerge(left, start + n, size - offset - n)
                ELSE left
    IN  [both EXCEPT
            !.page[start + n - 1] = [@ EXCEPT !.free = FALSE, !.size = n],
            !.page[start] = [@ EXCEPT !.free = FALSE, !.size = n,
                                      !.pool = FALSE]]

(* free_large().                                                           *)
FreeLarge(m, ptr) == FreeSpan(m, ptr, m.page[ptr].size)

(* shrink(): the pages after the first n go back.                          *)
Shrink(m, ptr, n) ==
    LET size == m.page[ptr].size
        cut == [m EXCEPT !.page[ptr].size = n,
                         !.page[ptr + n - 1] = [@ EXCEPT !.free = FALSE,
                                                         !.size = n]]
    IN  IF m.page[ptr].pool \/ n = size THEN m
        ELSE FreeSpan(cut, ptr + n, size - n)

-----------------------------------------------------------------------------
(* small_pool: objects of one size, cut from spans of pages.  Free objects *)
(* are in the pool's own list, up to a maximum, or in the list of their    *)
(* span; a span all of whose objects are there is given back.  An object is*)
(* one page here, so that its pointer is its page.                         *)
CONSTANTS
    PoolSpan,   \* _span_size
    MaxFree     \* _max_free

ASSUME PoolAssumption == /\ PoolSpan \in Nat \ {0}
                         /\ MaxFree \in Nat \ {0, 1}

MinFree == MaxFree \div 2

Goal == (MinFree + MaxFree) \div 2

(* f applied n times, for the loops whose body does nothing once it is     *)
(* done.                                                                   *)
Repeat(f(_), n, m) == FoldLeft(LAMBDA acc, i : f(acc), m, [i \in 1 .. n |-> i])

SpanOf(m, o) == o - m.page[o].offset

(* One turn of trim_free_list(): the first free object goes back to its    *)
(* span, and the span to the free spans when it has all of its objects.    *)
ToSpan(m, o, h) ==
    [m EXCEPT !.free = Tail(@),
              !.page[h].freelist = <<o>> \o @,
              !.page[h].used = @ - 1,
              !.spans = IF m.page[h].freelist = <<>> THEN <<h>> \o @ ELSE @]

GiveBack(m, h) ==
    IF m.page[h].used > 0 THEN m
    ELSE FreeSpan([m EXCEPT !.spans = Remove(@, h)], h, m.page[h].size)

TrimOne(m) ==
    IF Len(m.free) <= Goal THEN m
    ELSE GiveBack(ToSpan(m, Head(m.free), SpanOf(m, Head(m.free))),
                  SpanOf(m, Head(m.free)))

TrimFreeList(m) == Repeat(TrimOne, Len(m.free), m)

Deallocate(m, o) ==
    IF Len(m.free) + 1 >= MaxFree
    THEN TrimFreeList([m EXCEPT !.free = <<o>> \o @])
    ELSE [m EXCEPT !.free = <<o>> \o @]

(* One turn of the first loop of add_more_objects(): what a span has.      *)
TakeFromSpan(m) ==
    LET h == Head(m.spans)
        list == m.page[h].freelist
    IN  IF m.spans = <<>> \/ Len(m.free) >= Goal THEN m
        ELSE [m EXCEPT !.spans = Tail(@),
                       !.free = Reverse(list) \o @,
                       !.page[h].freelist = <<>>,
                       !.page[h].used = @ + Len(list)]

(* The end of a turn of the second loop: a new span is cut up.             *)
CutSpan(m, h) ==
    LET end == h + PoolSpan - 1
    IN  [m EXCEPT
            !.page = [p \in DOMAIN @ |->
                        IF p \notin h .. end THEN @[p]
                        ELSE [@[p] EXCEPT !.pool = TRUE, !.offset = p - h]],
            !.page[h].freelist = <<>>,
            !.page[h].used = PoolSpan,
            !.free = [i \in 1 .. PoolSpan |-> end + 1 - i] \o @]

-----------------------------------------------------------------------------
(* The pages, the pool and the caches of a cpu.                            *)
CONSTANTS
    MinFreePages,   \* min_free_pages
    Remotes,        \* other cpus that free blocks of this one
    LargeSizes,     \* the numbers of pages the program asks for
    Alignment,      \* align_pages of the aligned requests
    MaxLive,        \* bound on the blocks in use or on their way back
    MaxCached       \* bound on the blocks in caches

ASSUME CpuAssumption == /\ MinFreePages \in Nat
                        /\ LargeSizes \subseteq Nat \ {0}
                        /\ Alignment \in Nat \ {0}
                        /\ MaxLive \in Nat /\ MaxCached \in Nat

VARIABLES
    mem,        \* the allocator
    mine,       \* the blocks in use on this cpu
    remote      \* what each other cpu does: the block it frees, if any

vars == <<mem, mine, remote>>

Scopes == {"async", "sync"}     \* reclaimer_scope

-----------------------------------------------------------------------------
(* free(void* ptr).                                                        *)
Free(m, ptr) == IF m.page[ptr].pool THEN Deallocate(m, ptr) ELSE FreeLarge(m, ptr)

(* The blocks on xcpu_freelist, newest first.                              *)
CrossFreed(m) ==
    Repeat(LAMBDA a : IF a.at = Nil THEN a
                      ELSE [at |-> m.next[a.at], list |-> Append(a.list, a.at)],
           NrPages, [at |-> m.xhead, list |-> <<>>]).list

(* drain_cross_cpu_freelist().                                             *)
Drain(m) ==
    FoldLeft(Free, [m EXCEPT !.xhead = Nil, !.next = [p \in Pages |-> Nil]],
             CrossFreed(m))

(* A reclaimer gives its oldest block back.                                *)
Reclaim(m, scope) ==
    IF m.cache[scope] = <<>> THEN m
    ELSE Free([m EXCEPT !.cache[scope] = Tail(@)], Head(m.cache[scope]))

Cached(m) == Len(m.cache["async"]) + Len(m.cache["sync"])

(* Every turn asks each reclaimer of the scope, until there is enough or   *)
(* nobody has anything left.                                               *)
RunReclaimers(m, scope) ==
    LET target == Max({m.nrFree + 1, MinFreePages})
        asked == IF scope = "async" THEN <<"async", "sync">> ELSE <<"sync">>
        Turn(a) == IF a.nrFree >= target THEN a ELSE FoldLeft(Reclaim, a, asked)
    IN  Repeat(Turn, Cached(m), m)

(* schedule_reclaim() leaves the rest to a task.                           *)
ScheduleReclaim(m) ==
    IF m.nrFree >= m.minNow THEN m ELSE [m EXCEPT !.minNow = 0, !.scheduled = TRUE]

MaybeReclaim(m) ==
    IF m.nrFree >= m.minNow THEN m
    ELSE ScheduleReclaim(RunReclaimers(Drain(m), "sync"))

(* The task.                                                               *)
ScheduledReclaim(m) ==
    [(IF m.nrFree < MinFreePages THEN RunReclaimers(m, "async") ELSE m)
        EXCEPT !.minNow = MinFreePages, !.scheduled = FALSE]

(* find_and_unlink_span_reclaiming(), without the unlinking: the allocator *)
(* after the reclaims that it took.                                        *)
Reclaimed(m, need) ==
    Repeat(LAMBDA a : IF FindSpan(a, need) # Nil THEN a
                      ELSE RunReclaimers(a, "sync"),
           Cached(m), m)

(* The result of an allocation is the allocator and the block, Nil when    *)
(* there is none.                                                          *)
Result(m, ptr) == [mem |-> m, ptr |-> ptr]

AlignUp(p, align) == align * ((p + align - 1) \div align)

(* The trimmer keeps n pages of the span h, from the first aligned one.    *)
Trimmed(m, h, align, n) ==
    IF h = Nil THEN Result(m, Nil)
    ELSE Result(MaybeReclaim(TakeSpan(m, h, AlignUp(h, align) - h, n)),
                AlignUp(h, align))

AllocateFrom(m, align, n) ==
    Trimmed(m, FindSpan(m, n + align - 1), align, n)

(* allocate_large_and_trim().                                              *)
AllocateAligned(m, align, n) ==
    IF n + align - 1 >= NrPages THEN Result(m, Nil)
    ELSE AllocateFrom(Reclaimed(m, n + align - 1), align, n)

AllocateLarge(m, n) == AllocateAligned(m, 1, n)

(* The second loop of add_more_objects() ends when there is no span.       *)
CutUp(got) == IF got.ptr = Nil THEN got.mem ELSE CutSpan(got.mem, got.ptr)

AddSpan(m) == IF Len(m.free) >= Goal THEN m ELSE CutUp(AllocateLarge(m, PoolSpan))

AddMoreObjects(m) ==
    Repeat(AddSpan, Goal, Repeat(TakeFromSpan, Len(m.spans), m))

PopFree(m) ==
    IF m.free = <<>> THEN Result(m, Nil)
    ELSE Result([m EXCEPT !.free = Tail(@)], Head(m.free))

AllocateSmall(m) == PopFree(IF m.free = <<>> THEN AddMoreObjects(m) ELSE m)

-----------------------------------------------------------------------------
Idle == [state |-> "idle", ptr |-> Nil, seen |-> Nil]

NewCpu ==
    FreeSpanNoMerge(
        [page |-> [p \in 0 .. NrPages |-> NoPage],
         lists |-> [i \in 0 .. NrLists - 1 |-> <<>>],
         nrFree |-> 0, minNow |-> MinFreePages, scheduled |-> FALSE,
         free |-> <<>>, spans |-> <<>>,
         cache |-> [s \in Scopes |-> <<>>],
         xhead |-> Nil, next |-> [p \in Pages |-> Nil]],
        1, NrPages - 1)

Init ==
    /\ mem = NewCpu
    /\ mine = {}
    /\ remote = [r \in Remotes |-> Idle]

(* Where blocks are, each place with its blocks; a block in two of them,   *)
(* or twice in one, shows in the number of places.                         *)
CrossFreeing == {r \in Remotes : remote[r].state # "idle"}

Handed == {remote[r].ptr : r \in CrossFreeing} \union ToSet(CrossFreed(mem))
Live == mine \union Handed \union UNION {ToSet(mem.cache[s]) : s \in Scopes}

Places == Cardinality(mine) + Cardinality(CrossFreeing)
          + Len(CrossFreed(mem)) + Cached(mem)

Allocated(got) ==
    /\ Places < MaxLive
    /\ mem' = got.mem
    /\ mine' = IF got.ptr = Nil THEN mine ELSE mine \union {got.ptr}
    /\ UNCHANGED remote

AllocLarge == \E n \in LargeSizes : Allocated(AllocateLarge(mem, n))
AllocAligned == \E n \in LargeSizes : Allocated(AllocateAligned(mem, Alignment, n))
AllocSmall == Allocated(AllocateSmall(mem))

FreeOwn ==
    \E p \in mine :
       /\ mem' = Free(mem, p)
       /\ mine' = mine \ {p}
       /\ UNCHANGED remote

ShrinkOwn ==
    \E p \in mine, n \in LargeSizes :
       /\ n <= mem.page[p].size
       /\ mem' = Shrink(mem, p, n)
       /\ UNCHANGED <<mine, remote>>

(* A block becomes the content of a cache that a reclaimer can shrink.     *)
Cache ==
    \E p \in mine, s \in Scopes :
       /\ Cached(mem) < MaxCached
       /\ mem' = [mem EXCEPT !.cache[s] = Append(@, p)]
       /\ mine' = mine \ {p}
       /\ UNCHANGED remote

RunScheduled ==
    /\ mem.scheduled
    /\ mem' = ScheduledReclaim(mem)
    /\ UNCHANGED <<mine, remote>>

DrainPoller ==
    /\ mem.xhead # Nil
    /\ mem' = Drain(mem)
    /\ UNCHANGED <<mine, remote>>

-----------------------------------------------------------------------------
(* A block that travelled in a message is freed on another cpu.            *)
Give(r) ==
    /\ remote[r].state = "idle"
    /\ \E p \in mine : /\ mine' = mine \ {p}
                       /\ remote' = [remote EXCEPT ![r].state = "freeing", ![r].ptr = p]
    /\ UNCHANGED mem

(* free_cross_cpu(): the relaxed load,                                     *)
Load(r) ==
    /\ remote[r].state = "freeing"
    /\ remote' = [remote EXCEPT ![r].state = "loaded", ![r].seen = mem.xhead]
    /\ UNCHANGED <<mem, mine>>

Pushed(r) ==
    /\ mem' = [mem EXCEPT !.next[remote[r].ptr] = remote[r].seen,
                          !.xhead = remote[r].ptr]
    /\ remote' = [remote EXCEPT ![r] = Idle]
    /\ UNCHANGED mine

(* Wrong on purpose, as the name says: the head is stored, not compared.   *)
CompareExchange_mut(r) ==
    /\ remote[r].state = "loaded"
    /\ Pushed(r)

(* and the exchange, which loads again when it fails.                      *)
CompareExchange(r) ==
    /\ remote[r].state = "loaded"
    /\ \/ mem.xhead = remote[r].seen /\ Pushed(r)
       \/ /\ mem.xhead # remote[r].seen
          /\ remote' = [remote EXCEPT ![r].seen = mem.xhead]
          /\ UNCHANGED <<mem, mine>>

Next ==
    \/ AllocLarge \/ AllocAligned \/ AllocSmall
    \/ FreeOwn \/ ShrinkOwn \/ Cache
    \/ RunScheduled \/ DrainPoller
    \/ \E r \in Remotes : Give(r) \/ Load(r) \/ CompareExchange(r)

Spec == Init /\ [][Next]_vars

-----------------------------------------------------------------------------
LiveObjects == {p \in Live : mem.page[p].pool}
InSpans == FoldLeft(LAMBDA acc, h : acc \o mem.page[h].freelist, <<>>, mem.spans)
Objects == LiveObjects \union ToSet(mem.free) \union ToSet(InSpans)
PoolSpans == {SpanOf(mem, o) : o \in Objects}

FreeHeads == UNION {ToSet(mem.lists[i]) : i \in DOMAIN mem.lists}

(* Boundary tags and span lists (free_span, allocate_large_and_trim,       *)
(* shrink): the free spans, the large blocks in use and the pool's spans   *)
(* cover every page once; both ends of each say its length and whether it  *)
(* is free; a free span is in the list of its size, once, and never next   *)
(* to another; nr_free_pages is their sum; and a request is refused only   *)
(* when no free span is long enough.                                       *)
SpansExact ==
    LET free == FreeHeads
        pools == PoolSpans
        heads == free \union (Live \ LiveObjects) \union pools
        Size(h) == mem.page[h].size
        Sum(S) == FoldSet(LAMBDA h, n : Size(h) + n, 0, S)
    IN  /\ Pages = UNION {h .. h + Size(h) - 1 : h \in heads}
        /\ Sum(heads) = NrPages - 1
        /\ \A h \in heads : LET end == mem.page[h + Size(h) - 1]
                            IN  /\ mem.page[h].free = (h \in free)
                                /\ end.free = (h \in free)
                                /\ h \in pools \/ end.size = Size(h)
        /\ \A i \in DOMAIN mem.lists :
              /\ IsInjective(mem.lists[i])
              /\ \A h \in ToSet(mem.lists[i]) : IndexOf(Size(h)) = i
        /\ \A h \in free : h + Size(h) \notin free
        /\ mem.nrFree = Sum(free)
        /\ \A n \in 1 .. NrPages - 1 :
              (FindSpan(mem, n) = Nil) = (\A h \in free : Size(h) < n)

(* No block is lost or handed out twice, whatever the order of frees here, *)
(* frees on other cpus, drains and reclaims inside an allocation           *)
(* (free_cross_cpu, drain_cross_cpu_freelist, trim_free_list,              *)
(* add_more_objects): every block and every small object is in one place,  *)
(* a span counts its objects that are not in its own list, and it is in    *)
(* the pool's list exactly when it has some there and some elsewhere.      *)
ObjectsExact ==
    LET objects == Objects
        inSpans == InSpans
        SpanObjects(h) == h .. h + mem.page[h].size - 1
    IN  /\ Places = Cardinality(Live)
        /\ Cardinality(LiveObjects) + Len(mem.free) + Len(inSpans)
             = Cardinality(objects)
        /\ IsInjective(mem.spans)
        /\ \A h \in {SpanOf(mem, o) : o \in objects} :
              LET list == mem.page[h].freelist
              IN  /\ SpanObjects(h) \subseteq objects
                  /\ ToSet(list) \subseteq SpanObjects(h)
                  /\ mem.page[h].used = mem.page[h].size - Len(list)
                  /\ mem.page[h].used > 0
                  /\ (list # <<>>) = (h \in ToSet(mem.spans))

(* The memory of a cpu is accounted for, to the page and to the object,    *)
(* in every state between two operations of its owner (future_all12.cc     *)
(* 4880-5420): SpansExact and ObjectsExact.                                *)
MemoryExact == SpansExact /\ ObjectsExact
=============================================================================
