----------------------------- MODULE UdpChannel -----------------------------
(***************************************************************************)
(* posix_udp_channel, and the UDP server of memcached on it.  A channel    *)
(* has one message header for all calls that receive and one for all that  *)
(* send, which the system call looks at in a later task; and one promise   *)
(* for all that wait in a direction.  So a call that comes while another   *)
(* is under way may take its header, or its promise: then the other never  *)
(* ends, and its buffer is never freed.  The server makes its calls one    *)
(* after another.                                                          *)
(*                                                                         *)
(* A datagram is its number, in the order of arrival; a call is its place  *)
(* in calls, and so is the buffer it allocates or the packet it sends.     *)
(***************************************************************************)
EXTENDS Naturals, Sequences, FiniteSets

CONSTANTS
    MaxUdpCalls,     \* bound: calls of the fibers
    MaxDatagrams,    \* bound: datagrams that arrive
    Room,            \* bound: datagrams the kernel takes before they leave
    MaxParts         \* bound: datagrams of one answer

ASSUME UdpAssumption ==
    MaxUdpCalls \in Nat /\ MaxDatagrams \in Nat /\ Room \in Nat /\ MaxParts \in Nat

VARIABLES
    chan,      \* the channel, with its descriptor and its two headers
    kernel,    \* datagrams that have come, room for others, and those sent
    calls,     \* receive() and send()
    tasks,     \* calls whose next continuation is in the task list
    buffers,   \* of each call: the datagram inside, and how often it was freed
    server     \* the fiber of udp_server::start()

udpVars == <<chan, kernel, calls, tasks, buffers, server>>

Directions == {"in", "out"}
Direction(op) == IF op = "receive" THEN "in" ELSE "out"

UdpInit ==
    /\ chan = [open |-> TRUE, alive |-> TRUE, known |-> {}, waiting |-> [d \in Directions |-> 0],
               buffer |-> 0, from |-> 0, packet |-> 0, crashed |-> "no",
               overtaken |-> FALSE, replaced |-> FALSE, cut |-> FALSE, late |-> FALSE]
    /\ kernel = [inbox |-> <<>>, came |-> 0, kind |-> <<>>, room |-> Room, sent |-> <<>>]
    /\ calls = <<>> /\ tasks = <<>> /\ buffers = <<>>
    /\ server \in {[at |-> "none"], [at |-> "loop", call |-> 0, request |-> 0, part |-> 0,
                                      parts |-> 0, answered |-> <<>>]}

Going == chan.crashed = "no"
Serving == server.at # "none"

UdpWorld == [chan |-> chan, calls |-> calls, tasks |-> tasks, buffers |-> buffers]

UdpBecomes(w) ==
    /\ chan' = w.chan /\ calls' = w.calls /\ tasks' = w.tasks /\ buffers' = w.buffers

UdpCrash(w, why) == [w EXCEPT !.chan.crashed = why]

Scheduled(w, c, where) == [w EXCEPT !.calls[c].at = where, !.tasks = Append(@, c)]
Failed(w, c, error) == Scheduled([w EXCEPT !.calls[c].result = error], c, "failed")

(* A promise is assigned to the one that a call may wait for: abandoned()  *)
(* tells nobody, and all continuations of that call are destroyed.         *)
Overwritten(w, d) ==
    LET c == w.chan.waiting[d]
    IN  IF c = 0 THEN w ELSE [w EXCEPT !.calls[c].at = "lost"]

(* readable() and writeable(): one promise for each direction              *)
WaitFor(w, c) ==
    LET d == Direction(w.calls[c].op)
    IN  IF d \in w.chan.known THEN Scheduled([w EXCEPT !.chan.known = @ \ {d}], c, "ready")
        ELSE [Overwritten(w, d) EXCEPT !.calls[c].at = "waiting", !.chan.waiting[d] = c]

Freed(w, b) ==
    IF w.buffers[b].freed > 0 THEN UdpCrash(w, "freed twice") ELSE [w EXCEPT !.buffers[b].freed = 1]

-----------------------------------------------------------------------------
(* Calls on the channel.  After close() its descriptor is a null pointer.  *)

NewCall(w, op, load) ==
    [w EXCEPT !.calls = Append(@, [op |-> op, at |-> "made", load |-> load, result |-> "none",
                                   moved |-> 0, from |-> 0, buffer |-> 0]),
              !.buffers = Append(@, [data |-> 0, freed |-> 0])]

(* Does a new call get ahead of another, which still counts on the header? *)
Overtakes(w, op) ==
    \E c \in 1 .. Len(w.calls) :
       /\ w.calls[c].op = op
       /\ \/ w.calls[c].at \in {"ready", "called"}
          \/ w.calls[c].at = "waiting" /\ Direction(op) \in w.chan.known

Receive(w) ==
    LET c == Len(w.calls) + 1
        prepared == [NewCall(w, "receive", [length |-> 0]) EXCEPT !.chan.buffer = c,
                                                        !.chan.overtaken = @ \/ Overtakes(w, "receive")]
    IN  IF ~w.chan.open THEN UdpCrash([w EXCEPT !.chan.late = TRUE], "null") ELSE WaitFor(prepared, c)

(* A packet goes into the channel's header, a string does not *)
Send(w, op, load) ==
    LET c == Len(w.calls) + 1
        new == NewCall(w, op, load)
        prepared == IF op # "packet" THEN new
                    ELSE [new EXCEPT !.chan.packet = c, !.chan.replaced = @ \/ Overtakes(w, op)]
    IN  IF ~w.chan.open THEN UdpCrash([w EXCEPT !.chan.late = TRUE], "null") ELSE WaitFor(prepared, c)

(* abort_fd() *)
Aborted(w, d) ==
    LET c == w.chan.waiting[d]
    IN  IF c = 0 THEN w ELSE [Failed(w, c, "aborted") EXCEPT !.chan.waiting[d] = 0]

(* abort_reader(), abort_writer(); tasks that will use the descriptor stay *)
Closed(w) ==
    [Aborted(Aborted(w, "in"), "out")
        EXCEPT !.chan.open = FALSE, !.chan.known = {},
               !.chan.cut = @ \/ \E c \in 1 .. Len(w.calls) : w.calls[c].at = "ready"]

Close(w) == IF w.chan.open THEN Closed(w) ELSE UdpCrash([w EXCEPT !.chan.late = TRUE], "null")

DestroyChannel(w) ==
    LET closed == IF w.chan.open THEN Closed(w) ELSE w
        used == \E c \in 1 .. Len(w.calls) : w.calls[c].op = "receive" /\ w.calls[c].at = "called"
    IN  [closed EXCEPT !.chan.alive = FALSE, !.chan.cut = @ \/ used]

-----------------------------------------------------------------------------
(* Continuations, the oldest in the task list first *)

Turn == Head(tasks)
Resumes(where) == Going /\ tasks # <<>> /\ calls[Turn].at = where
Popped == [UdpWorld EXCEPT !.tasks = Tail(@)]

Speculates(w, d) == [w EXCEPT !.chan.known = @ \union {d}]

(* The continuation of readable() in recvmsg() *)
RecvMsg ==
    /\ Resumes("ready") /\ calls[Turn].op = "receive" /\ chan.open
    /\ \/ /\ kernel.inbox = <<>>
          /\ UdpBecomes(WaitFor(Popped, Turn))
          /\ UNCHANGED kernel
       \/ /\ UdpBecomes(Failed(Popped, Turn, "error"))
          /\ UNCHANGED kernel
       \/ /\ kernel.inbox # <<>>
          /\ LET d == Head(kernel.inbox)
                 filled == [Popped EXCEPT !.calls[Turn].moved = d, !.chan.from = d,
                                          !.buffers[chan.buffer].data = d]
             IN  UdpBecomes(IF buffers[chan.buffer].freed > 0 THEN UdpCrash(Popped, "used after free")
                         ELSE Speculates(Scheduled(filled, Turn, "called"), "in"))
          /\ kernel' = [kernel EXCEPT !.inbox = Tail(@)]
    /\ UNCHANGED server

(* That of writeable() in sendmsg() and sendto().  Whole datagrams are     *)
(* sent, so that more room is always expected.                             *)
SendMsg ==
    /\ Resumes("ready") /\ calls[Turn].op # "receive" /\ chan.open
    /\ \/ /\ kernel.room = 0
          /\ UdpBecomes(WaitFor(Popped, Turn))
          /\ UNCHANGED kernel
       \/ /\ UdpBecomes(Failed(Popped, Turn, "error"))
          /\ UNCHANGED kernel
       \/ /\ kernel.room > 0
          /\ LET p == IF calls[Turn].op = "packet" THEN chan.packet ELSE Turn
             IN  /\ UdpBecomes(Speculates(Scheduled([Popped EXCEPT !.calls[Turn].moved = p],
                                                 Turn, "called"), "out"))
                 /\ kernel' = [kernel EXCEPT !.room = @ - 1, !.sent = Append(@, p)]
    /\ UNCHANGED server

DescriptorGone ==
    /\ Resumes("ready") /\ ~chan.open
    /\ UdpBecomes(UdpCrash(Popped, "dangling"))
    /\ UNCHANGED <<kernel, server>>

(* receive() makes the datagram of what is in the header by now *)
MakeDatagram ==
    /\ Resumes("called") /\ calls[Turn].op = "receive"
    /\ UdpBecomes(IF ~chan.alive THEN UdpCrash(Popped, "dangling")
               ELSE [Popped EXCEPT !.calls[Turn].at = "ended", !.calls[Turn].result = "ok",
                                   !.calls[Turn].buffer = chan.buffer,
                                   !.calls[Turn].from = chan.from])
    /\ UNCHANGED <<kernel, server>>

Length(c) == calls[c].load.length

(* assert(size == len) *)
CheckLength ==
    /\ Resumes("called") /\ calls[Turn].op # "receive"
    /\ UdpBecomes(IF Length(calls[Turn].moved) # Length(Turn) THEN UdpCrash(Popped, "assert")
               ELSE [Popped EXCEPT !.calls[Turn].at = "ended", !.calls[Turn].result = "ok"])
    /\ UNCHANGED <<kernel, server>>

(* Operators whose names end in _mut are wrong on purpose: each is a       *)
(* plausible mistake in the definition after it that a property catches.   *)
OwnBuffer_mut(c) == chan.buffer

(* handle_exception() frees what receive() had allocated *)
OwnBuffer(c) == c

CallFails ==
    /\ Resumes("failed")
    /\ LET w == [Popped EXCEPT !.calls[Turn].at = "ended"]
       IN  UdpBecomes(IF calls[Turn].op = "receive" THEN Freed(w, OwnBuffer(Turn)) ELSE w)
    /\ UNCHANGED <<kernel, server>>

(* wait_and_process(), when there is no task *)
Answer(d) ==
    LET c == chan.waiting[d]
    IN  /\ Going /\ tasks = <<>> /\ c # 0
        /\ IF d = "in" THEN kernel.inbox # <<>> ELSE kernel.room > 0
        /\ UdpBecomes([Scheduled(UdpWorld, c, "ready") EXCEPT !.chan.waiting[d] = 0,
                                                              !.chan.known = @ \ {d}])
        /\ UNCHANGED <<kernel, server>>

(* The network.  A request is too short, or one of several datagrams, or   *)
(* whole.                                                                  *)
DatagramArrives(kind) ==
    /\ Going /\ kernel.came < MaxDatagrams
    /\ Serving \/ kind = "whole"
    /\ kernel' = [kernel EXCEPT !.came = @ + 1, !.inbox = Append(@, kernel.came + 1),
                                !.kind = Append(@, kind)]
    /\ UNCHANGED <<chan, calls, tasks, buffers, server>>

Leaves ==
    /\ Going /\ kernel.room < Room
    /\ kernel' = [kernel EXCEPT !.room = Room]
    /\ UNCHANGED <<chan, calls, tasks, buffers, server>>

-----------------------------------------------------------------------------
(* Any fibers, which may have several calls under way *)

(* The end of the life of a datagram *)
Drop(c) ==
    LET w == Freed(UdpWorld, calls[c].buffer)
    IN  [w EXCEPT !.calls[c].at = "dropped"]

FiberSteps ==
    /\ Going /\ ~Serving /\ chan.alive
    /\ \/ /\ Len(calls) < MaxUdpCalls
          /\ \/ UdpBecomes(Receive(UdpWorld))
             \/ \E length \in 1 .. 2 : UdpBecomes(Send(UdpWorld, "packet", [length |-> length]))
             \/ UdpBecomes(Send(UdpWorld, "string", [length |-> 1]))
       \/ UdpBecomes(Close(UdpWorld))
       \/ UdpBecomes(DestroyChannel(UdpWorld))
    /\ UNCHANGED <<kernel, server>>

DatagramDropped ==
    /\ Going /\ ~Serving
    /\ \E c \in 1 .. Len(calls) :
          /\ calls[c].op = "receive" /\ calls[c].at = "ended" /\ calls[c].result = "ok"
          /\ UdpBecomes(Drop(c))
    /\ UNCHANGED <<kernel, server>>

-----------------------------------------------------------------------------
(* udp_server::start(): one request after another, for ever *)

Ended(result) ==
    /\ Going /\ server.at \in {"receives", "sends"}
    /\ calls[server.call].at = "ended" /\ calls[server.call].result = result

ServerReceives ==
    /\ Going /\ server.at = "loop"
    /\ UdpBecomes(Receive(UdpWorld))
    /\ server' = [server EXCEPT !.at = "receives", !.call = Len(calls) + 1]
    /\ UNCHANGED kernel

(* handle() and the flush of the answer into packets: one for the error,   *)
(* none when no reply is asked for.  The datagram goes with the request.   *)
ServerHandles(n) ==
    /\ server.at = "receives" /\ Ended("ok")
    /\ LET d == calls[server.call].from
       IN  /\ kernel.kind[d] = "many" => n = 1
           /\ kernel.kind[d] = "short" => n = 0
           /\ server' = [server EXCEPT !.at = "responds", !.request = d, !.part = 0, !.parts = n]
    /\ UNCHANGED <<chan, kernel, calls, tasks, buffers>>

(* connection::respond(): the header is the request's number, that of the  *)
(* packet, and how many there are.                                         *)
ServerResponds ==
    /\ Going /\ server.at = "responds" /\ server.part < server.parts
    /\ UdpBecomes(Send(UdpWorld, "packet",
                    [length |-> 1, to |-> server.request, part |-> server.part, parts |-> server.parts]))
    /\ server' = [server EXCEPT !.at = "sends", !.call = Len(calls) + 1]
    /\ UNCHANGED kernel

PartSent ==
    /\ server.at = "sends" /\ Ended("ok")
    /\ server' = [server EXCEPT !.at = "responds", !.part = @ + 1]
    /\ UNCHANGED <<chan, kernel, calls, tasks, buffers>>

(* The connection of a request, and its datagram, end with it *)
RequestDropped ==
    UdpBecomes(Drop(CHOOSE c \in 1 .. Len(calls) :
                    calls[c].op = "receive" /\ calls[c].from = server.request))

(* The header of each datagram of an answer *)
PartsOf(request, n, all) == [i \in 1 .. n |-> <<request, i - 1, all>>]

RequestDone ==
    /\ Going /\ server.at = "responds" /\ server.part = server.parts
    /\ RequestDropped
    /\ server' = [server EXCEPT !.at = "loop", !.request = 0, !.part = 0, !.parts = 0,
                                !.answered = @ \o PartsOf(server.request, server.parts, server.parts)]
    /\ UNCHANGED kernel

(* or_terminate(): the server is over, the program goes on *)
ServerFails ==
    /\ \E error \in {"aborted", "error"} : Ended(error)
    /\ server' = [server EXCEPT !.at = "over"]
    /\ IF server.at = "sends" THEN RequestDropped ELSE UNCHANGED <<chan, calls, tasks, buffers>>
    /\ UNCHANGED kernel

UdpServer ==
    /\ Serving
    /\ \/ ServerReceives \/ ServerResponds \/ PartSent \/ RequestDone \/ ServerFails
       \/ \E n \in 0 .. MaxParts : ServerHandles(n)

UdpNext ==
    \/ RecvMsg \/ SendMsg \/ DescriptorGone \/ MakeDatagram \/ CheckLength \/ CallFails
    \/ \E d \in Directions : Answer(d)
    \/ \E kind \in {"short", "many", "whole"} : DatagramArrives(kind)
    \/ Leaves \/ FiberSteps \/ DatagramDropped \/ UdpServer

UdpSpec == UdpInit /\ [][UdpNext]_udpVars

-----------------------------------------------------------------------------
(* Properties *)

Received == {c \in 1 .. Len(calls) : calls[c].op = "receive" /\ calls[c].result = "ok"}
WasSent(c) == \E i \in 1 .. Len(kernel.sent) : kernel.sent[i] = c
Buffers == {c \in 1 .. Len(calls) : calls[c].op = "receive"}

(* Whoever receives gets a datagram of his own, whole, with its sender,    *)
(* and in order; every buffer is freed with its datagram or its error, and *)
(* that of a call which lost its promise never is.                         *)
ReceivedExact ==
    /\ \A c \in Received :
          /\ calls[c].from = calls[c].moved
          /\ calls[c].at = "ended" => buffers[calls[c].buffer] = [data |-> calls[c].moved, freed |-> 0]
    /\ \A c, e \in Received : c < e => calls[c].moved < calls[e].moved
    /\ \A c \in Buffers :
          buffers[c].freed = 1 <=>
              calls[c].at = "dropped" \/ (calls[c].at = "ended" /\ calls[c].result # "ok")

(* What was sent is what the calls that succeeded were given, once each *)
SentExact ==
    /\ \A i, j \in DOMAIN kernel.sent : kernel.sent[i] = kernel.sent[j] => i = j
    /\ \A c \in 1 .. Len(calls) :
          calls[c].op # "receive" =>
              (WasSent(c) <=> calls[c].at = "called" \/ calls[c].result = "ok")

(* The server's datagrams: for each request all parts of its answer in     *)
(* order, and then those of the request at hand.                           *)
AnswersExact ==
    LET sent == [i \in 1 .. Len(kernel.sent) |->
                    LET load == calls[kernel.sent[i]].load IN <<load.to, load.part, load.parts>>]
        isSent == server.at # "responds" /\ WasSent(server.call)
        now == IF server.request = 0 THEN <<>>
               ELSE PartsOf(server.request, server.part + (IF isSent THEN 1 ELSE 0), server.parts)
    IN  sent = server.answered \o now

(* A call that has not ended is carried on by exactly one thing: it holds  *)
(* the promise of its direction, or has one task.  Only one that another   *)
(* call of its direction came after is carried on by nothing.              *)
CallsExact ==
    \A c \in 1 .. Len(calls) :
        LET d == Direction(calls[c].op)
            turns == {i \in DOMAIN tasks : tasks[i] = c}
        IN  /\ calls[c].at = "waiting" <=> chan.waiting[d] = c
            /\ Cardinality(turns) = (IF calls[c].at \in {"ready", "called", "failed"} THEN 1 ELSE 0)
            /\ calls[c].at = "lost" =>
                   \E e \in 1 .. Len(calls) : e # c /\ Direction(calls[e].op) = d

(* Datagrams are never mixed up, lost by the channel, or freed twice, but  *)
(* by calls that overtake each other between readiness and the system      *)
(* call, or a close() there, and calls are lost only to other calls that   *)
(* wait at the same time; the server does none of this.                    *)
DatagramsExact ==
    /\ Going => CallsExact
    /\ ~chan.overtaken /\ Going => ReceivedExact
    /\ ~chan.replaced /\ Going => SentExact
    /\ chan.crashed \in {"freed twice", "used after free"} => chan.overtaken
    /\ chan.crashed = "assert" => chan.replaced
    /\ chan.crashed = "dangling" => chan.cut
    /\ chan.crashed = "null" => chan.late
    /\ Serving => AnswersExact /\ Going /\ ~chan.overtaken /\ ~chan.replaced /\ ~chan.cut
    /\ Serving => \A c \in 1 .. Len(calls) : calls[c].at # "lost"

=============================================================================
