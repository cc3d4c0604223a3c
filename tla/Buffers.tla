------------------------------ MODULE Buffers ------------------------------
(***************************************************************************)
(* The holders of data: packets and temporary buffers (temp_buffer.hh),    *)
(* shared, cut, joined and turned into one another by their owners in any  *)
(* order, as streams, sockets and the users of both do.                    *)
(*                                                                         *)
(* want is what a holder's own calls say it holds: no other holder's calls *)
(* may change that.                                                        *)
(***************************************************************************)
EXTENDS Packets

CONSTANTS PacketSlots, BufferSlots,   \* the holders, sets of numbers
          NewSizes,                   \* of new packets and buffers
          HeaderSizes,                \* of what is put in front or behind
          MaxCalls                    \* bound

VARIABLES heap, packet, buffer, calls

vars == <<heap, packet, buffer, calls>>

Nothing == [len |-> 0]

NoPacket(i) == packet[i] = Nothing
HasPacket(i) == packet[i] # Nothing /\ ~packet[i].under
NoBuffer(j) == buffer[j] = Nothing
HasBuffer(j) == buffer[j] # Nothing /\ ~buffer[j].early

FragmentOf(b) == [block |-> b.block, at |-> b.at, size |-> b.size]

Held(ps, bs) ==
    UNION {{ps[i].frags[k].block : k \in DOMAIN ps[i].frags} \cup {ps[i].data} :
             i \in {i \in PacketSlots : ps[i] # Nothing}}
      \cup {bs[j].block : j \in {j \in BufferSlots : bs[j] # Nothing}}

In(i) == [h |-> heap, p |-> packet[i]]

(* Holders are alike: a new one is the first that is free.                 *)
FirstFree(i) == NoPacket(i) /\ \A k \in PacketSlots : k < i => ~NoPacket(k)
FirstFreeBuffer(j) == NoBuffer(j) /\ \A k \in BufferSlots : k < j => ~NoBuffer(k)

(* The program goes on with these holders: what nobody holds is forgotten. *)
Commit(h, ps, bs) ==
    LET spare == h.freed \ Held(ps, bs)
    IN  /\ heap' = [h EXCEPT !.spare = spare, !.cut = @ \ spare,
                             !.store = [b \in Blocks |->
                                          IF b \in spare THEN Blank ELSE @[b]]]
        /\ packet' = ps
        /\ buffer' = bs
        /\ calls' = calls + 1

SetPacket(r, i, want) ==
    Commit(r.h, [packet EXCEPT ![i] = [want |-> want] @@ r.p], buffer)

(* Bounds: blocks and nodes enough for any one call.                       *)
Room == Cardinality(heap.spare) >= 3 /\ Cardinality(UnusedNodes(heap)) >= 4

Fits(n) == n <= MaxLen

Init ==
    /\ heap = [node |-> [n \in Nodes |-> Unused], freed |-> Blocks, away |-> {},
               cut |-> {}, twice |-> FALSE, spare |-> Blocks,
               store |-> [b \in Blocks |-> Blank]]
    /\ packet = [i \in PacketSlots |-> Nothing]
    /\ buffer = [j \in BufferSlots |-> Nothing]
    /\ calls = 0

-----------------------------------------------------------------------------
(* Buffers                                                                 *)

NewBuffer(j, n) ==
    /\ FirstFreeBuffer(j) /\ Room
    /\ Commit(Allocate(heap, 0, NewData(heap, n)), packet,
              [buffer EXCEPT ![j] = [block |-> NextBlock(heap), at |-> 0, size |-> n,
                                     d |-> -NextBlock(heap), len |-> n, early |-> FALSE,
                                     want |-> NewData(heap, n)]])

(* share(pos, len), then trim_front(pos) on the old one: what read_up_to() *)
(* and read_exactly() do with the head of a buffer.                        *)
SplitBuffer(j, k, n) ==
    LET b == buffer[j]
    IN  /\ HasBuffer(j) /\ FirstFreeBuffer(k) /\ n < b.size /\ Room
        /\ \E s \in {ShareDeleter(heap, b.d)} :
              Commit(s.h, packet,
                     [buffer EXCEPT
                        ![k] = [b EXCEPT !.d = s.d, !.size = n, !.len = n,
                                         !.want = SubSeq(@, 1, n)],
                        ![j] = [b EXCEPT !.d = s.d, !.at = @ + n, !.size = @ - n,
                                         !.len = @ - n, !.want = SubSeq(@, n + 1, b.len)]])

TrimBuffer(j, n) ==
    /\ HasBuffer(j) /\ n < buffer[j].size
    /\ Commit(heap, packet, [buffer EXCEPT ![j].size = n, ![j].len = n,
                                           ![j].want = SubSeq(@, 1, n)])

DropBuffer(j) ==
    /\ ~NoBuffer(j)
    /\ Commit(Drop(heap, buffer[j].d), packet, [buffer EXCEPT ![j] = Nothing])

-----------------------------------------------------------------------------
(* Packets                                                                 *)

NewPacket(i, n) ==
    /\ FirstFree(i) /\ Room
    /\ \E r \in {CopyIn(heap, n)} : SetPacket(r, i, ReadFragments(r.h, r.p.frags))

(* packet(temporary_buffer), and appended to a packet                      *)
WrapBuffer(i, j) ==
    LET b == buffer[j]
        Put(r, before) ==
            Commit(r.h, [packet EXCEPT ![i] = [want |-> before \o b.want] @@ r.p],
                   [buffer EXCEPT ![j] = Nothing])
    IN  /\ HasBuffer(j) /\ Room /\ Fits(packet[i].len + b.len)
        /\ \/ FirstFree(i) /\ Put(FromFragment(heap, FragmentOf(b), b.d), <<>>)
           \/ /\ HasPacket(i) /\ ~Meets(heap, b.d, packet[i].d)
              /\ Put(AppendFragment(In(i), FragmentOf(b), b.d), packet[i].want)

CopyBehind(i, n) ==
    /\ HasPacket(i) /\ Room /\ Fits(packet[i].len + n)
    /\ \E r \in {AppendCopy(In(i), n)} :
          SetPacket(r, i, packet[i].want \o ReadFragment(r.h, Last(r.p.frags)))

CopyInFront(i, n) ==
    /\ HasPacket(i) /\ Room /\ Fits(packet[i].len + n)
    /\ \E r \in {Prepend(In(i), n), PrependHeader(In(i), n)} :
          SetPacket(r, i, Names(9, n) \o packet[i].want)

Join(i, k) ==
    /\ i # k /\ HasPacket(i) /\ HasPacket(k) /\ Room
    /\ Fits(packet[i].len + packet[k].len)
    /\ ~Meets(heap, packet[k].d, packet[i].d)
    /\ \E r \in {AppendPacket(In(i), packet[k])} :
          Commit(r.h, [packet EXCEPT ![i] = [want |-> @.want \o packet[k].want] @@ r.p,
                                     ![k] = Nothing], buffer)

(* packet(packet&&, deleter): on_delete() of a scattered message; here the *)
(* deleter is that of a buffer.                                            *)
OnDelete(i, j) ==
    /\ HasPacket(i) /\ HasBuffer(j) /\ Room
    /\ ~Meets(heap, packet[i].d, buffer[j].d)
    /\ \E x \in {AppendDeleter(heap, packet[i].d, buffer[j].d)} :
          Commit(x.h, [packet EXCEPT ![i].d = x.d], [buffer EXCEPT ![j] = Nothing])

Trim(i, n) ==
    LET p == packet[i]
    IN  /\ HasPacket(i) /\ n <= p.len /\ n > 0
        /\ \/ SetPacket([h |-> heap, p |-> TrimFront(p, n)], i, SubSeq(p.want, n + 1, p.len))
           \/ SetPacket([h |-> heap, p |-> TrimBack(p, n)], i, SubSeq(p.want, 1, p.len - n))

Header(i, offset, n) ==
    /\ HasPacket(i) /\ Room /\ offset + n <= packet[i].len
    /\ SetPacket(GetHeader(In(i), offset, n), i, packet[i].want)

Share(i, k, offset, n) ==
    LET p == packet[i]
    IN  /\ HasPacket(i) /\ FirstFree(k) /\ Room /\ n > 0 /\ offset + n <= p.len
        /\ \E r \in {SharePacket(In(i), offset, n)} :
              Commit(r.h, [packet EXCEPT
                             ![i] = r.p,
                             ![k] = [want |-> SubSeq(p.want, offset + 1, offset + n)] @@ r.q],
                     buffer)

(* packet_data_source::get(): a buffer on fragment f, whose deleter is a   *)
(* share of the packet.  share() may move the fragment out of _data: the   *)
(* compiler may read the fragment's address before that, or after.         *)
Source(i, j, f) ==
    LET p == packet[i]
        from == SizeOf(SubSeq(p.frags, 1, f - 1))
        Give(g, r, x) ==
            Commit(x.h, [packet EXCEPT ![i] = r.p],
                   [buffer EXCEPT ![j] =
                      [block |-> g.block, at |-> g.at, size |-> g.size,
                       d |-> x.d, len |-> g.size, early |-> g # r.p.frags[f],
                       want |-> SubSeq(p.want, from + 1, from + g.size)]])
    IN  /\ HasPacket(i) /\ FirstFreeBuffer(j) /\ Room /\ f \in DOMAIN p.frags
        /\ \E r \in {SharePacket(In(i), 0, p.len)} :
              \E g \in {p.frags[f], r.p.frags[f]} :
                 Give(g, r, Make(Free(r.h, {r.q.data}), ObjectNode(r.q.d, None)))

(* release(): the buffer of fragment f; who gets the others drops them.     *)
Release(i, j, f) ==
    LET p == packet[i]
        g == p.frags[f]
        from == SizeOf(SubSeq(p.frags, 1, f - 1))
        Give(h, ps, b, d) ==
            Commit(h, ps, [buffer EXCEPT ![j] =
                      [block |-> b, at |-> IF d < 0 THEN 0 ELSE g.at, size |-> g.size,
                       d |-> d, len |-> g.size, early |-> FALSE,
                       want |-> SubSeq(p.want, from + 1, from + g.size)]])
    IN  /\ HasPacket(i) /\ FirstFreeBuffer(j) /\ Room /\ f \in DOMAIN p.frags
        /\ \/ /\ UsesInternal(p) /\ f = 1
              /\ Give(Allocate(heap, 0, ReadFragment(heap, g)), packet,
                      NextBlock(heap), -NextBlock(heap))
           \/ /\ ~UsesInternal(p) \/ f > 1
              /\ \E s \in {ShareDeleter(heap, p.d)} :
                    Give(s.h, [packet EXCEPT ![i].d = s.d], g.block, s.d)

SendAway(i) ==
    /\ HasPacket(i) /\ Room
    /\ SetPacket(FreeOnCpu(In(i)), i, packet[i].want)

HomeDrops(n) == n \in heap.away /\ Commit(DropHome(heap, n), packet, buffer)

Destroy(i) ==
    /\ ~NoPacket(i)
    /\ Commit(DropPacket(heap, packet[i]), [packet EXCEPT ![i] = Nothing], buffer)

BufferCalls(j) ==
    \/ \E n \in NewSizes : NewBuffer(j, n)
    \/ \E n \in 1 .. MaxLen : TrimBuffer(j, n) \/ \E k \in BufferSlots : SplitBuffer(j, k, n)
    \/ DropBuffer(j)

PacketCalls(i) ==
    \/ \E n \in NewSizes : NewPacket(i, n)
    \/ \E n \in HeaderSizes : CopyBehind(i, n) \/ CopyInFront(i, n)
    \/ \E j \in BufferSlots : WrapBuffer(i, j) \/ OnDelete(i, j)
    \/ \E j \in BufferSlots, f \in 1 .. MaxLen :
          Source(i, j, f) \/ Release(i, j, f)
    \/ \E k \in PacketSlots : Join(i, k)
    \/ \E offset \in 0 .. MaxLen, n \in 1 .. MaxLen :
          Header(i, offset, n) \/ \E k \in PacketSlots : Share(i, k, offset, n)
    \/ \E n \in 1 .. MaxLen : Trim(i, n)
    \/ SendAway(i)
    \/ Destroy(i)

Next ==
    /\ calls < MaxCalls
    /\ \/ \E j \in BufferSlots : BufferCalls(j)
       \/ \E i \in PacketSlots : PacketCalls(i)
       \/ \E n \in Nodes : HomeDrops(n)

Spec == Init /\ [][Next]_vars

-----------------------------------------------------------------------------

Packs == {packet[i] : i \in {i \in PacketSlots : HasPacket(i)}}
Bufs == {buffer[j] : j \in {j \in BufferSlots : HasBuffer(j)}}

(* A fragment's memory is there, and is what its holder put there.         *)
ReadsAs(fs, want) ==
    \/ \E k \in DOMAIN fs : fs[k].block \in heap.freed \cap heap.cut
    \/ /\ \A k \in DOMAIN fs : fs[k].block \notin heap.freed
       /\ ReadFragments(heap, fs) = want

(* Whatever else is done with the data, each holder reads the bytes its own *)
(* calls gave it, in order and in memory that is not freed, as long as it   *)
(* holds them, unless they were behind a node of a shared chain to which    *)
(* append() was applied, or a buffer that packet_data_source::get() made    *)
(* has the address of data that share() moved.                              *)
HoldersReadTheirData ==
    /\ \A p \in Packs : ReadsAs(p.frags, p.want) /\ p.len = Len(p.want)
    /\ \A b \in Bufs : b.early \/ ReadsAs(<<FragmentOf(b)>>, b.want)

(* A header is put outside of _data only after trim_back() cut data there.  *)
HeadersFit == \A i \in PacketSlots : ~NoPacket(i) /\ packet[i].under => packet[i].cut

(* Nothing is freed twice, and what is not freed has an owner.              *)
FreedOnce ==
    /\ ~heap.twice
    /\ Blocks \ heap.freed =
          UNION {{packet[i].data} \cup Guards(heap, packet[i].d) :
                          i \in {i \in PacketSlots : ~NoPacket(i)}}
            \cup UNION {Guards(heap, buffer[j].d) :
                          j \in {j \in BufferSlots : ~NoBuffer(j)}}
            \cup UNION {Guards(heap, heap.node[n].object) : n \in heap.away}

(* A holder's data stay what its own calls made them, its headers fit, and  *)
(* memory is freed once, when its last owner is gone.                       *)
DataExact == HoldersReadTheirData /\ HeadersFit /\ FreedOnce

=============================================================================
