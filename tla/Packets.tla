------------------------------ MODULE Packets ------------------------------
(***************************************************************************)
(* net::packet (packet.hh): a list of fragments, each a part of a block of *)
(* memory, and one deleter that keeps all the blocks.  The first fragment  *)
(* may lie in the packet's own array _data, at its end, so that headers    *)
(* can be put in front of it without an allocation.                        *)
(*                                                                         *)
(* A packet p has p.data, the block that is its _data; a fragment f is the *)
(* f.size bytes from offset f.at of block f.block, store[b] is what block  *)
(* b holds.  p.under says that a header was written before _data, p.cut    *)
(* that trim_back() has cut internal data.                                 *)
(***************************************************************************)
EXTENDS Integers, Sequences, FiniteSets, SequencesExt

(* deleter (util/deleter.hh): a counted chain of actions that free the     *)
(* blocks of memory a packet or a temporary buffer reads.                  *)
(*                                                                         *)
(* A deleter value is 0 (none), -b (a tagged pointer: free block b, no     *)
(* impl needed) or a node.  Every operator takes the heap and returns the  *)
(* new one: node[n] is an impl, freed the blocks whose action has run,     *)
(* away what free_on_cpu() has sent to another cpu.  cut is history: the   *)
(* blocks that append() took away from the other owners of a shared chain. *)
(* twice is history too: an action has run a second time.                  *)
CONSTANTS MaxBlocks,    \* bound: blocks of memory that somebody still reads
          MaxNodes      \* bound: deleter::impl objects

Blocks == 1 .. MaxBlocks
Nodes == 1 .. MaxNodes
None == 0

Unused == [refs |-> 0, next |-> None, object |-> None, block |-> None,
           remote |-> FALSE]

IsRaw(d) == d < 0

UnusedNodes(h) == {n \in Nodes : h.node[n] = Unused}

(* The impl objects: one that frees a block and then destroys next, and    *)
(* one that carries an object, itself a deleter.                           *)
FreeNode(block, next) == [Unused EXCEPT !.refs = 1, !.block = block, !.next = next]
ObjectNode(object, next) == [Unused EXCEPT !.refs = 1, !.object = object, !.next = next]

(* A node is allocated.  [h, d] is the heap and the deleter that owns it.  *)
NextNode(h) == CHOOSE n \in UnusedNodes(h) : \A m \in UnusedNodes(h) : n <= m

Make(h, impl) == [h |-> [h EXCEPT !.node[NextNode(h)] = impl], d |-> NextNode(h)]

-----------------------------------------------------------------------------
(* The impl objects of a chain in the order of next, a raw deleter last.   *)
Chain(h, d) ==
    LET link[k \in Nat] ==      \* the first k + 1 links, None after the end
            IF k = 0 THEN <<d>>
            ELSE LET c == link[k - 1]
                 IN  IF Last(c) = None \/ IsRaw(Last(c)) THEN c
                     ELSE Append(c, h.node[Last(c)].next)
    IN  SelectSeq(link[MaxNodes], LAMBDA x : x # None)

(* What the chain owns, also through the objects it carries, and the       *)
(* blocks it would free if it had no other owner.                          *)
Owned(h, d) ==
    LET within[k \in Nat] ==
            IF k = 0 THEN {d}
            ELSE LET s == within[k - 1]
                 IN  s \cup UNION {{h.node[n].next, h.node[n].object} :
                                     n \in {n \in s : n > 0}}
    IN  within[MaxNodes]

Guards(h, d) ==
    {-x : x \in {x \in Owned(h, d) : IsRaw(x)}}
      \cup ({h.node[n].block : n \in {n \in Owned(h, d) : n > 0}} \ {None})

-----------------------------------------------------------------------------
(* ~deleter(): the last owner runs the action, then destroys the object    *)
(* carried, then the rest of the chain.  A node of free_on_cpu() sends its *)
(* object away instead.                                                    *)

Free(h, bs) == [h EXCEPT !.freed = @ \cup bs, !.twice = @ \/ bs \cap h.freed # {}]

(* One step: d, and then todo, are still to be destroyed.                  *)
DropFirst(h, d, todo) ==
    CASE d = None -> [h |-> h, todo |-> todo]
      [] IsRaw(d) -> [h |-> Free(h, {-d}), todo |-> todo]
      [] d > 0 /\ h.node[d].refs > 1 ->
            [h |-> [h EXCEPT !.node[d].refs = @ - 1], todo |-> todo]
      [] d > 0 /\ h.node[d].refs = 1 /\ ~h.node[d].remote ->
            [h |-> Free([h EXCEPT !.node[d] = Unused], {h.node[d].block} \ {None}),
             todo |-> <<h.node[d].object, h.node[d].next>> \o todo]
      [] d > 0 /\ h.node[d].refs = 1 /\ h.node[d].remote ->
            [h |-> [h EXCEPT !.away = @ \cup {d}, !.node[d].next = None],
             todo |-> <<h.node[d].next>> \o todo]

DropStep(a) == IF a.todo = <<>> THEN a ELSE DropFirst(a.h, Head(a.todo), Tail(a.todo))

Drop(h, d) ==
    LET after[k \in Nat] == IF k = 0 THEN [h |-> h, todo |-> <<d>>]
                            ELSE DropStep(after[k - 1])
    IN  after[2 * MaxNodes + 1].h

(* share(): a raw deleter gets an impl first, to be counted.               *)
Counted(h, d) == IF IsRaw(d) THEN Make(h, FreeNode(-d, None)) ELSE [h |-> h, d |-> d]

OneMore(r) == [r EXCEPT !.h.node[r.d].refs = @ + 1]

ShareDeleter(h, d) ==
    IF d = None THEN [h |-> h, d |-> None] ELSE OneMore(Counted(h, d))

(* append(): e goes to the end of the chain.  A raw deleter gets an impl;  *)
(* a node with other owners is not extended: a new one takes its place,    *)
(* and takes over what was behind it.                                      *)
AppendDeleter(h, d, e) ==
    LET Link(x, acc) ==
            CASE IsRaw(x) -> Make(acc.h, FreeNode(-x, acc.d))
              [] x > 0 /\ h.node[x].refs = 1 ->
                    [h |-> [acc.h EXCEPT !.node[x].next = acc.d], d |-> x]
              [] x > 0 /\ h.node[x].refs > 1 ->
                    Make([acc.h EXCEPT !.node[x].next = None,
                                       !.cut = @ \cup Guards(h, h.node[x].next)],
                         ObjectNode(x, acc.d))
    IN  IF e = None THEN [h |-> h, d |-> d]
        ELSE FoldRight(Link, Chain(h, d), [h |-> h, d |-> e])

(* It asserts that e is not in the chain: two shares of the same data      *)
(* cannot be joined.                                                       *)
Meets(h, d, e) == e # None /\ e \in Range(Chain(h, d))

(* free_on_cpu(): a message to its cpu destroys the old chain.             *)
SendHome(h, d) == Make(h, [ObjectNode(d, None) EXCEPT !.remote = TRUE])

DropHome(h, n) ==
    Drop([h EXCEPT !.away = @ \ {n}, !.node[n] = Unused], h.node[n].object)

-----------------------------------------------------------------------------
(* Packets.                                                                *)

CONSTANTS InternalSize,   \* internal_data_size, in units of data
          DefaultFrags,   \* default_nr_frags
          MaxLen          \* bound: units of data in a packet or a buffer

Places == 0 .. (IF MaxLen > InternalSize THEN MaxLen ELSE InternalSize) - 1

Blank == [o \in Places |-> 0]

(* A block is allocated, with data from offset at on.  Data that are new   *)
(* there are named after the block.                                        *)
NextBlock(h) == CHOOSE b \in h.spare : \A c \in h.spare : b <= c

WriteAt(h, b, at, data) ==
    [h EXCEPT !.store[b] = [o \in Places |->
        IF o \in at .. at + Len(data) - 1 THEN data[o - at + 1] ELSE @[o]]]

Allocate(h, at, data) ==
    [WriteAt(h, NextBlock(h), at, data) EXCEPT
        !.spare = @ \ {NextBlock(h)}, !.freed = @ \ {NextBlock(h)}]

Names(b, n) == [i \in 1 .. n |-> 10 * b + i]

NewData(h, n) == Names(NextBlock(h), n)

ReadFragment(h, f) == [i \in 1 .. f.size |-> h.store[f.block][f.at + i - 1]]

ReadFragments(h, fs) == FlattenSeq([i \in DOMAIN fs |-> ReadFragment(h, fs[i])])

-----------------------------------------------------------------------------
(* r = [h, p] is a heap and a packet in it.  impl::allocate() and copy():  *)
(* a new impl has a _data of its own; an internal fragment moves there, to *)
(* where _headroom says.                                                   *)

Frags(nr) == IF nr > DefaultFrags THEN nr ELSE DefaultFrags

NewImpl(h, nr) ==
    [h |-> Allocate(h, 0, <<>>),
     p |-> [frags |-> <<>>, d |-> None, len |-> 0, headroom |-> InternalSize,
            data |-> NextBlock(h), under |-> FALSE, cut |-> FALSE,
            room |-> Frags(nr)]]

UsesInternal(p) ==
    /\ p.frags # <<>>
    /\ p.frags[1].block = p.data
    /\ p.frags[1].at \in 0 .. InternalSize - 1

MoveFirst(p, b, at) == [p EXCEPT !.frags[1].block = b, !.frags[1].at = at, !.cut = FALSE]

CopyImpl(r, nr) ==
    IF UsesInternal(r.p)
    THEN [h |-> Free(Allocate(r.h, r.p.headroom, ReadFragment(r.h, r.p.frags[1])),
                     {r.p.data}),
          p |-> [MoveFirst(r.p, NextBlock(r.h), r.p.headroom) EXCEPT
                    !.data = NextBlock(r.h), !.room = Frags(nr)]]
    ELSE [h |-> Free(Allocate(r.h, 0, <<>>), {r.p.data}),
          p |-> [r.p EXCEPT !.data = NextBlock(r.h), !.room = Frags(nr)]]

(* allocate_if_needed()                                                    *)
Larger(m, n) == IF m > n THEN m ELSE n

Grow(r, extra) ==
    IF r.p.room >= Len(r.p.frags) + extra THEN r
    ELSE CopyImpl(r, Larger(Len(r.p.frags) + extra, 2 * Len(r.p.frags)))

(* x = [h, d] becomes the deleter of p; or p's is made to free b too.      *)
WithDeleter(p, x) == [h |-> x.h, p |-> [p EXCEPT !.d = x.d]]

Keep(r, b) == WithDeleter(r.p, Make(r.h, FreeNode(b, r.p.d)))

(* unuse_internal_data(): the internal fragment moves to a block.          *)
Externalise(r) ==
    IF ~UsesInternal(r.p) THEN r
    ELSE WithDeleter([MoveFirst(r.p, NextBlock(r.h), 0) EXCEPT !.headroom = InternalSize],
                     AppendDeleter(Allocate(r.h, 0, ReadFragment(r.h, r.p.frags[1])),
                                   r.p.d, -NextBlock(r.h)))

-----------------------------------------------------------------------------
(* packet(data, size) copies, inside if it fits; packet(fragment, deleter) *)
(* does not copy.                                                          *)

Fragment(b, at, n) == [block |-> b, at |-> at, size |-> n]

Alone(r, f, d) == [r EXCEPT !.p.frags = <<f>>, !.p.len = f.size, !.p.d = d]

FromFragment(h, f, d) == Alone(NewImpl(h, 1), f, d)

CopyIn(h, n) ==
    LET b == NextBlock(h)
        c == CHOOSE c \in h.spare \ {b} : \A x \in h.spare \ {b} : c <= x
        inside == [NewImpl(h, 1) EXCEPT !.p.headroom = InternalSize - n]
        outside == [h |-> Allocate(NewImpl(h, 1).h, 0, Names(c, n)), p |-> NewImpl(h, 1).p]
    IN  IF n <= InternalSize
        THEN Alone([inside EXCEPT !.h = WriteAt(@, b, InternalSize - n, Names(b, n))],
                   Fragment(b, InternalSize - n, n), None)
        ELSE Alone(outside, Fragment(c, 0, n), -c)

(* packet(packet&&, fragment): the new fragment is copied.                 *)
PutBehind(r, n) ==
    Keep([h |-> Allocate(r.h, 0, NewData(r.h, n)),
          p |-> [r.p EXCEPT !.frags = Append(@, Fragment(NextBlock(r.h), 0, n)),
                            !.len = @ + n]],
         NextBlock(r.h))

AppendCopy(r, n) == PutBehind(Grow(r, 1), n)

(* packet(packet&&, fragment, deleter)                                     *)
AddFragment(r, f, d) ==
    WithDeleter([r.p EXCEPT !.frags = Append(@, f), !.len = @ + f.size],
                AppendDeleter(r.h, d, r.p.d))

AppendFragment(r, f, d) == AddFragment(Grow(r, 1), f, d)

(* append(): an empty packet is replaced.                                  *)
DropPacket(h, p) == Free(Drop(h, p.d), {p.data})

AddFragments(r, s) ==    \* those of packet s.p; s.h is the heap
    WithDeleter([r.p EXCEPT !.frags = @ \o s.p.frags, !.len = @ + s.p.len],
                AppendDeleter(Free(s.h, {s.p.data}), s.p.d, r.p.d))

GrownBefore(r, q) == AddFragments(r, Externalise([h |-> r.h, p |-> q]))

AppendPacket(r, q) ==
    IF r.p.len = 0 THEN [h |-> DropPacket(r.h, r.p), p |-> q]
    ELSE GrownBefore(Grow(r, Len(q.frags)), q)

-----------------------------------------------------------------------------
(* Headers.  allocate_headroom() takes them from the end of the free part  *)
(* of _data, without a look at where the fragment now begins.              *)

EmptyFirst(r) ==
    [r EXCEPT !.p.frags = <<Fragment(r.p.data, InternalSize, 0)>> \o @]

Extend(r, n) ==
    [r EXCEPT !.p.len = @ + n, !.p.headroom = @ - n,
              !.p.frags[1].at = @ - n, !.p.frags[1].size = @ + n,
              !.p.under = r.p.frags[1].at < n]

AllocateHeadroom(r, n) ==
    Extend(IF UsesInternal(r.p) THEN r ELSE EmptyFirst(Grow(r, 1)), n)

PutInFront(r, n) ==
    Keep([h |-> Allocate(r.h, 0, <<>>),
          p |-> [r.p EXCEPT !.frags = <<Fragment(NextBlock(r.h), 0, n)>> \o @,
                            !.len = @ + n]],
         NextBlock(r.h))

InNewBlock(r, n) == PutInFront(Grow(r, 1), n)

(* The bytes of a header have names of their own.                          *)
FillFront(r, n) ==
    [r EXCEPT !.h = WriteAt(@, r.p.frags[1].block, r.p.frags[1].at, Names(9, n))]

(* packet(fragment, packet&&)                                              *)
Prepend(r, n) ==
    FillFront(IF r.p.headroom >= n THEN AllocateHeadroom(r, n)
              ELSE InNewBlock(Externalise(r), n), n)

(* prepend_uninitialized_header(), then filled by the caller.              *)
TryAgain(r, n) ==
    IF r.p.headroom >= n THEN AllocateHeadroom(r, n) ELSE InNewBlock(r, n)

PrependHeader(r, n) ==
    FillFront(IF r.p.headroom >= n THEN AllocateHeadroom(r, n)
              ELSE TryAgain(Externalise(r), n), n)

-----------------------------------------------------------------------------
(* The units from offset on, n of them, of a list of fragments.            *)
SizeOf(fs) ==
    LET sum[k \in 0 .. Len(fs)] == IF k = 0 THEN 0 ELSE sum[k - 1] + fs[k].size
    IN  sum[Len(fs)]

Part(fs, offset, n) ==
    LET start == [k \in DOMAIN fs |-> SizeOf(SubSeq(fs, 1, k - 1))]
        from == [k \in DOMAIN fs |-> IF offset > start[k] THEN offset - start[k] ELSE 0]
        to == [k \in DOMAIN fs |-> IF offset + n - start[k] < fs[k].size
                                   THEN offset + n - start[k] ELSE fs[k].size]
    IN  SelectSeq([k \in DOMAIN fs |-> [fs[k] EXCEPT !.at = @ + from[k],
                                                     !.size = to[k] - from[k]]],
                  LAMBDA f : f.size > 0)

TrimFront(p, n) ==
    LET q == [p EXCEPT !.frags = Part(@, n, p.len - n), !.len = @ - n]
    IN  IF ~UsesInternal(q) THEN [q EXCEPT !.headroom = InternalSize, !.cut = FALSE]
        ELSE [q EXCEPT !.headroom = @ + n]

(* A cut inside internal data counts as headroom although it is behind.    *)
TrimBack(p, n) ==
    LET fs == Part(p.frags, 0, p.len - n)
        cut == p.frags[1].size - fs[1].size
        q == [p EXCEPT !.frags = fs, !.len = @ - n]
    IN  IF Len(fs) = 1 /\ UsesInternal(p) /\ cut > 0
        THEN [q EXCEPT !.headroom = @ + cut, !.cut = TRUE]
        ELSE q

(* linearize(): the fragments from the one at index on that hold n units   *)
(* become one.  The old chain is dropped when all of the packet is copied. *)

(* Wrong on purpose, as the name says: a plausible mistake in the         *)
(* definition after it, which a property catches.                          *)
DropsOldChain_mut(p, index, n) == index = 1

DropsOldChain(p, index, n) == index = 1 /\ n = p.len

(* The packet r after the fragments index .. last of r were copied to one. *)
Collapse(r, index, last, alone) ==
    LET bytes == ReadFragments(r.h, SubSeq(r.p.frags, index, last))
        h == Allocate(r.h, 0, bytes)
        p == [r.p EXCEPT !.frags = SubSeq(@, 1, index - 1)
                                     \o <<Fragment(NextBlock(r.h), 0, Len(bytes))>>
                                     \o SubSeq(@, last + 1, Len(@))]
    IN  Keep(IF alone THEN [h |-> Drop(h, p.d), p |-> [p EXCEPT !.d = None]]
             ELSE [h |-> h, p |-> p], NextBlock(r.h))

Linearize(r, index, n) ==
    LET enough == {k \in index .. Len(r.p.frags) : n <= SizeOf(SubSeq(r.p.frags, index, k))}
    IN  Collapse(Externalise(r), index, CHOOSE k \in enough : \A j \in enough : k <= j,
                 DropsOldChain(r.p, index, n))

(* get_header(): the fragment that holds unit offset, made long enough.    *)
GetHeader(r, offset, n) ==
    LET before(k) == SizeOf(SubSeq(r.p.frags, 1, k - 1))
        index == CHOOSE k \in DOMAIN r.p.frags : before(k) <= offset /\ offset < before(k + 1)
        needed == offset - before(index) + n
    IN  IF needed <= r.p.frags[index].size THEN r ELSE Linearize(r, index, needed)

(* share(): [h, p, q], the packet and its new share.                       *)
NewShare(r, s, fs, n) ==   \* s = [h, d] is the shared deleter
    LET new == Grow(NewImpl(s.h, 1), Len(r.p.frags))
    IN  [h |-> new.h, p |-> [r.p EXCEPT !.d = s.d],
         q |-> [new.p EXCEPT !.frags = fs, !.len = n, !.d = s.d]]

ShareOf(r, offset, n) ==
    NewShare(r, ShareDeleter(r.h, r.p.d), Part(r.p.frags, offset, n), n)

SharePacket(r, offset, n) == ShareOf(Externalise(r), offset, n)

(* free_on_cpu() copies the impl too.                                      *)
FreeOnCpu(r) == CopyImpl(WithDeleter(r.p, SendHome(r.h, r.p.d)), Len(r.p.frags))

=============================================================================
