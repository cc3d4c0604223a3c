----------------------------- MODULE HttpServer -----------------------------
(***************************************************************************)
(* http_server (httpd.hh) on every reactor of a sharded service, over the  *)
(* posix sockets without SO_REUSEPORT (future_all12.cc): reactor 0 accepts *)
(* all connections and hands them round-robin to the others.               *)
(*                                                                         *)
(* A connection runs two fibers, read() and respond(), with a bounded      *)
(* queue of replies between them; a null reply tells the second to end.    *)
(* Continuations run as later tasks, so a step of a fiber is one action.   *)
(* The parser, the routes and the handlers are reduced to what they decide *)
(* for the connection, a reply to the sizes of its two writes, a socket to *)
(* what its reads and writes may return.                                   *)
(***************************************************************************)
EXTENDS OutputStream

(* queue_<T> (queue_.hh): a bounded queue between two fibers of a reactor. *)
(* A queue is a record: its items, and whether a promise _not_empty or     *)
(* _not_full is outstanding.  The fiber that waits for one of them runs on *)
(* when it is fulfilled, as a later task: the promise is gone by then and  *)
(* the queue may have changed again.                                       *)
CONSTANT QueueMax       \* _max

ASSUME QueueMaxAssumption == QueueMax \in Nat \ {0}

NewQueue == [items |-> <<>>, notEmpty |-> FALSE, notFull |-> FALSE]

Empty(q) == q.items = <<>>

(* Operators whose names end in _mut are wrong on purpose: each is a        *)
(* plausible mistake in the definition after it that a property catches.   *)

Full_mut(q) == Len(q.items) > QueueMax

Full(q) == Len(q.items) >= QueueMax

(* push(): refused when the queue is full.                                 *)
Push(q, x) ==
    IF Full(q) THEN q
    ELSE [q EXCEPT !.items = Append(@, x), !.notEmpty = FALSE]

(* The continuation of push_eventually(): it does not look again.          *)
PushAnyway(q, x) ==
    [q EXCEPT !.items = Append(@, x), !.notEmpty = FALSE]

(* pop(): only a queue that is exactly full has somebody waiting for room. *)
Pop_mut(q) == [q EXCEPT !.items = Tail(@)]

Pop(q) ==
    [q EXCEPT !.items = Tail(@),
              !.notFull = @ /\ Len(q.items) # QueueMax]

AwaitItem(q) == [q EXCEPT !.notEmpty = TRUE]

AwaitRoom(q) == [q EXCEPT !.notFull = TRUE]

-----------------------------------------------------------------------------
(* The server.                                                             *)

CONSTANTS
    NrShards,       \* smp::count
    NrConnections,  \* bound: connections that clients make
    MaxDemand       \* bound: connections made and requests sent, together

ASSUME HttpAssumption == /\ NrShards \in Nat \ {0}
                         /\ NrConnections \in Nat
                         /\ MaxDemand \in Nat

Shards == 0 .. NrShards - 1

Connections == 1 .. NrConnections

(* What a client may send: a request with a long reply, one with a short   *)
(* reply that asks to close, and bytes that are no complete request.       *)
Requests == {"long", "last", "broken"}

BodySize(request) == IF request = "long" THEN BufferSize ELSE 0

ShouldClose(request) == request \in {"last", "broken"}

VARIABLES
    client,     \* connection -> what its client did, what it sent
    backlog,    \* connections the kernel has for the listening socket
    accept,     \* shard -> state of do_accepts()
    parked,     \* shard -> get_conn_q()
    handoffs,   \* connections on their way to their shard
    balance,    \* the static counter of posix_server_socket_impl::accept()
    conn,       \* connection -> the connection object
    stopping,   \* shard -> _stopping
    stopped,    \* shard -> set_value() calls of _all_connections_stopped
    demand      \* connections and requests so far, for the bound

sockets == <<backlog, parked, handoffs, balance>>

vars == <<client, sockets, accept, conn, stopping, stopped, demand>>

NoReply == "eof"

NoConnection ==
    [at |-> 0, reader |-> "none", request |-> "none",
     replies |-> NewQueue, responder |-> "none", writes |-> <<>>,
     out |-> NewStream, wire |-> <<>>, shut |-> FALSE]

(* do_response_loop() takes a reply or waits for one.                      *)
NextReply(k) ==
    IF Empty(k.replies)
    THEN [k EXCEPT !.replies = AwaitItem(@), !.responder = "hungry"]
    ELSE [k EXCEPT !.responder = "popping"]

NewConnection(s) ==
    NextReply([NoConnection EXCEPT !.at = s, !.reader = "parsing"])

Nobody(state) == [state |-> state, conn |-> 0]

Init ==
    /\ client = [c \in Connections |-> [link |-> "away", sent |-> <<>>]]
    /\ backlog = <<>>
    /\ accept = [s \in Shards |-> Nobody("none")]
    /\ parked = [s \in Shards |-> {}]
    /\ handoffs = {}
    /\ balance = 0
    /\ conn = [c \in Connections |-> NoConnection]
    /\ stopping = [s \in Shards |-> FALSE]
    /\ stopped = [s \in Shards |-> 0]
    /\ demand = 0

Live(c) == conn[c].reader # "none"

ConnectionsOf(s) == {c \in Connections : Live(c) /\ conn[c].at = s}

(* _connections_being_accepted, with one listener per server.              *)
BeingAccepted(s) == accept[s].state \notin {"none", "off"}

-----------------------------------------------------------------------------
(* Clients (external): they connect, send requests, close, or reset.       *)

Connect(c) ==
    /\ client[c].link = "away"
    /\ c > 1 => client[c - 1].link # "away"
    /\ accept[0].state # "none" /\ stopped[0] = 0
    /\ demand < MaxDemand
    /\ demand' = demand + 1
    /\ client' = [client EXCEPT ![c].link = "open"]
    /\ backlog' = Append(backlog, c)
    /\ UNCHANGED <<accept, parked, handoffs, balance, conn, stopping, stopped>>

Ask(c, request) ==
    /\ client[c].link = "open"
    /\ demand < MaxDemand
    /\ demand' = demand + 1
    /\ client' = [client EXCEPT ![c].sent = Append(@, request)]
    /\ UNCHANGED <<sockets, accept, conn, stopping, stopped>>

HangUp(c) ==
    /\ client[c].link = "open"
    /\ client' = [client EXCEPT ![c].link = "closed"]
    /\ UNCHANGED <<sockets, accept, conn, stopping, stopped, demand>>

(* What has not been read is lost.                                         *)
Lost == [link |-> "reset", sent |-> <<>>]

Reset(c) ==
    /\ client[c].link = "open"
    /\ client' = [client EXCEPT ![c] = Lost]
    /\ UNCHANGED <<sockets, accept, conn, stopping, stopped, demand>>

(* The server closes connections it will not serve.                        *)
Refused(cs) == [c \in Connections |-> IF c \in cs THEN Lost ELSE client[c]]

-----------------------------------------------------------------------------
(* Accepting.                                                              *)

(* accept() of a server's listener: reactor 0 waits for its socket to be   *)
(* readable, the others take a parked connection or wait for a handoff.    *)
AwaitAccept(s) ==
    IF s # 0 /\ parked[s] # {}
    THEN LET c == CHOOSE p \in parked[s] : TRUE
         IN  /\ accept' = [accept EXCEPT ![s] = [state |-> "got", conn |-> c]]
             /\ parked' = [parked EXCEPT ![s] = @ \ {c}]
    ELSE /\ accept' = [accept EXCEPT ![s] = Nobody("waiting")]
         /\ UNCHANGED parked

Listen(s) ==
    /\ accept[s].state = "none" /\ ~stopping[s]
    /\ AwaitAccept(s)
    /\ UNCHANGED <<client, backlog, handoffs, balance, conn, stopping,
                   stopped, demand>>

(* epoll reports the listening socket.                                     *)
ListenerReadable ==
    /\ accept[0].state = "waiting" /\ backlog # <<>>
    /\ accept' = [accept EXCEPT ![0] = Nobody("ready")]
    /\ UNCHANGED <<client, sockets, conn, stopping, stopped, demand>>

(* A connection for another reactor is sent there, and the listener waits  *)
(* again, whatever has happened since it was readable.                     *)
AcceptConnection ==
    /\ accept[0].state = "ready" /\ backlog # <<>>
    /\ LET c == Head(backlog)
           cpu == balance % NrShards
       IN  IF cpu = 0
           THEN /\ accept' = [accept EXCEPT ![0] = [state |-> "got",
                                                   conn |-> c]]
                /\ UNCHANGED handoffs
           ELSE /\ accept' = [accept EXCEPT ![0] = Nobody("waiting")]
                /\ handoffs' = handoffs \union {[conn |-> c, to |-> cpu]}
    /\ backlog' = Tail(backlog)
    /\ balance' = balance + 1
    /\ UNCHANGED <<client, parked, conn, stopping, stopped, demand>>

(* accept4() fails: no descriptor is free, the connection is gone.         *)
AcceptFails ==
    /\ accept[0].state = "ready"
    /\ accept' = [accept EXCEPT ![0] = Nobody("failed")]
    /\ UNCHANGED <<client, sockets, conn, stopping, stopped, demand>>

MoveConnectedSocket(h) ==
    /\ handoffs' = handoffs \ {h}
    /\ IF accept[h.to].state = "waiting"
       THEN /\ accept' = [accept EXCEPT ![h.to] = [state |-> "got",
                                                  conn |-> h.conn]]
            /\ UNCHANGED parked
       ELSE /\ parked' = [parked EXCEPT ![h.to] = @ \union {h.conn}]
            /\ UNCHANGED accept
    /\ UNCHANGED <<client, backlog, balance, conn, stopping, stopped, demand>>

(* Wrong on purpose, as the name says: a plausible mistake in the         *)
(* definition after it, which a property catches.                          *)
MaybeIdle_mut(s) ==
    stopped' = IF stopping[s] /\ ConnectionsOf(s)' = {}
               THEN [stopped EXCEPT ![s] = @ + 1] ELSE stopped

(* maybe_idle(), at the end of a step.                                     *)
MaybeIdle(s) ==
    stopped' = IF stopping[s] /\ ~BeingAccepted(s)' /\ ConnectionsOf(s)' = {}
               THEN [stopped EXCEPT ![s] = @ + 1] ELSE stopped

(* The continuation of accept() in do_accepts().                           *)
Accepted(s) ==
    /\ accept[s].state \in {"got", "failed"}
    /\ LET got == {accept[s].conn} \ {0}
       IN  \/ /\ stopping[s]
              /\ accept' = [accept EXCEPT ![s] = Nobody("off")]
              /\ client' = Refused(got)
              /\ UNCHANGED <<parked, conn>>
              /\ MaybeIdle(s)
           \/ /\ ~stopping[s] /\ got = {}      \* the exception ends the loop
              /\ accept' = [accept EXCEPT ![s] = Nobody("off")]
              /\ UNCHANGED <<client, parked, conn, stopped>>
           \/ /\ ~stopping[s] /\ got # {}
              /\ conn' = [c \in Connections |->
                            IF c \in got THEN NewConnection(s) ELSE conn[c]]
              /\ AwaitAccept(s)
              /\ UNCHANGED <<client, stopped>>
    /\ UNCHANGED <<backlog, handoffs, balance, stopping, demand>>

(* stop(): an accept that waits is aborted, every socket is shut down.     *)
Stop(s) ==
    /\ ~stopping[s]
    /\ stopping' = [stopping EXCEPT ![s] = TRUE]
    /\ accept' = [accept EXCEPT ![s] = IF @.state = "waiting"
                                       THEN Nobody("failed") ELSE @]
    /\ parked' = [parked EXCEPT ![s] = {}]
    /\ client' = Refused(parked[s])
    /\ conn' = [c \in Connections |->
                  IF c \in ConnectionsOf(s)
                  THEN [conn[c] EXCEPT !.shut = TRUE] ELSE conn[c]]
    /\ UNCHANGED <<backlog, handoffs, balance, stopped, demand>>

-----------------------------------------------------------------------------
(* read(): the fiber that reads requests and makes their replies.          *)

Only(c, k) ==
    /\ conn' = [conn EXCEPT ![c] = k]
    /\ UNCHANGED <<sockets, accept, stopping, stopped, demand>>

Reading(c, state) == Live(c) /\ conn[c].reader = state

NoMoreInput(c) == client[c].link = "closed" \/ conn[c].shut

AskForRoom(k) == [k EXCEPT !.replies = IF Full(@) THEN AwaitRoom(@) ELSE @]

(* The parser has a request.  Bytes that are none keep it reading until    *)
(* the input ends, and are then answered like a request.                   *)
ReadRequest(c) ==
    /\ Reading(c, "parsing") /\ client[c].sent # <<>>
    /\ LET request == Head(client[c].sent)
       IN  /\ request = "broken" => NoMoreInput(c)
           /\ client' = [client EXCEPT ![c].sent =
                            IF request = "broken" THEN <<>> ELSE Tail(@)]
           /\ Only(c, [AskForRoom(conn[c]) EXCEPT
                           !.reader = IF Full(conn[c].replies) THEN "room"
                                      ELSE "handling",
                           !.request = request])

(* After its loop read() queues the null reply and closes the input.       *)
EndOfReplies(k) ==
    IF Full(k.replies) THEN [AskForRoom(k) EXCEPT !.reader = "pushing"]
    ELSE [k EXCEPT !.replies = PushAnyway(@, NoReply), !.reader = "finished"]

(* The parser sees the end of the input, or the read fails.                *)
ReadEnds(c) ==
    /\ Reading(c, "parsing") /\ client[c].sent = <<>>
    /\ NoMoreInput(c) \/ client[c].link = "reset"
    /\ Only(c, EndOfReplies(conn[c]))
    /\ UNCHANGED client

(* There is room again: generate_reply() calls the handler.                *)
GenerateReply(c) ==
    /\ Reading(c, "room") /\ ~conn[c].replies.notFull
    /\ Only(c, [conn[c] EXCEPT !.reader = "handling"])
    /\ UNCHANGED client

PushReply(c) ==
    /\ Reading(c, "handling")
    /\ LET request == conn[c].request
           k == [conn[c] EXCEPT !.replies = Push(@, request),
                                !.request = "none",
                                !.reader = "parsing"]
       IN  Only(c, IF ShouldClose(request) THEN EndOfReplies(k) ELSE k)
    /\ UNCHANGED client

(* The null reply, when push_eventually() had to wait.                     *)
PushEof(c) ==
    /\ Reading(c, "pushing") /\ ~conn[c].replies.notFull
    /\ Only(c, [conn[c] EXCEPT !.replies = PushAnyway(@, NoReply),
                               !.reader = "finished"])
    /\ UNCHANGED client

-----------------------------------------------------------------------------
(* respond(): the fiber that writes the replies.                           *)

Responding(c, state) == Live(c) /\ conn[c].responder = state

(* respond() closes the stream after its loop: a last flush, and a wait    *)
(* for the batch.                                                          *)
CloseOutput(k) ==
    [k EXCEPT !.out = Flush(@), !.writes = <<>>, !.responder = "draining"]

(* A null reply ends the loop; another one is written in two calls of      *)
(* write(), its headers and its body.                                      *)
TakeReply(c) ==
    /\ \/ Responding(c, "popping") /\ ~Empty(conn[c].replies)
       \/ Responding(c, "hungry") /\ ~conn[c].replies.notEmpty
    /\ LET reply == Head(conn[c].replies.items)
           k == [conn[c] EXCEPT !.replies = Pop(@)]
       IN  Only(c, IF reply = NoReply THEN CloseOutput(k)
                   ELSE [k EXCEPT !.responder = "writing",
                                  !.writes = <<1, BodySize(reply)>>])
    /\ UNCHANGED client

WriteReply(c) ==
    /\ Responding(c, "writing") /\ conn[c].writes # <<>>
    /\ ~Writing(conn[c].out)
    /\ Only(c, [conn[c] EXCEPT !.out = Write(@, Head(conn[c].writes)),
                               !.writes = Tail(@)])
    /\ UNCHANGED client

(* The flush after the body; it may deliver the error of an earlier one.   *)
FlushReply(c) ==
    /\ Responding(c, "writing") /\ conn[c].writes = <<>>
    /\ ~Writing(conn[c].out)
    /\ LET k == [conn[c] EXCEPT !.out = Flush(@)]
       IN  Only(c, IF FlushFails(conn[c].out) THEN CloseOutput(k)
                   ELSE NextReply(k))
    /\ UNCHANGED client

OutputClosed(c) ==
    /\ Responding(c, "draining") /\ ~conn[c].out.inBatch
    /\ Only(c, [conn[c] EXCEPT !.responder = "finished"])
    /\ UNCHANGED client

-----------------------------------------------------------------------------
(* The stream's puts, and the flush poller.                                *)

FlushPoller(c) ==
    /\ Live(c) /\ Listed(conn[c].out)
    /\ Only(c, [conn[c] EXCEPT !.out = PollFlush(@)])
    /\ UNCHANGED client

HeldPut(c) ==
    /\ Live(c) /\ CanPutHeld(conn[c].out)
    /\ Only(c, [conn[c] EXCEPT !.out = PutHeld(@)])
    /\ UNCHANGED client

(* The socket takes what a put holds.                                      *)
CanSend(c) == client[c].link \in {"open", "closed"} /\ ~conn[c].shut

Sent(c, data, out) == [conn[c] EXCEPT !.wire = @ \o data, !.out = out]

FlushSent(c) ==
    /\ Live(c) /\ conn[c].out.flushing
    /\ conn[c].out.byFlush # <<>> => CanSend(c)
    /\ Only(c, Sent(c, conn[c].out.byFlush, FlushDone(conn[c].out)))
    /\ UNCHANGED client

WriterSent(c) ==
    /\ Live(c) /\ conn[c].out.byWriter # <<>> /\ CanSend(c)
    /\ Only(c, Sent(c, conn[c].out.byWriter, WriterPutDone(conn[c].out)))
    /\ UNCHANGED client

(* A socket whose other side is gone, or that is shut down, takes a part   *)
(* at most, and nothing after it.                                          *)
Broken(c) == client[c].link # "open" \/ conn[c].shut

Parts(c, data) ==
    {SubSeq(data, 1, n) : n \in IF CanSend(c) THEN 0 .. Len(data) - 1 ELSE {0}}

CutOff(c) == client' = IF CanSend(c) THEN Refused({c}) ELSE client

FlushSendFails(c) ==
    /\ Live(c) /\ conn[c].out.byFlush # <<>> /\ Broken(c)
    /\ \E part \in Parts(c, conn[c].out.byFlush) :
          Only(c, Sent(c, part, FlushPutFailed(conn[c].out)))
    /\ CutOff(c)

(* The error reaches respond(), which closes the stream.                   *)
WriterSendFails(c) ==
    /\ Live(c) /\ conn[c].out.byWriter # <<>> /\ Broken(c)
    /\ \E part \in Parts(c, conn[c].out.byWriter) :
          Only(c, CloseOutput(Sent(c, part, WriterPutFailed(conn[c].out))))
    /\ CutOff(c)

(* Both fibers have ended: the connection is deleted.                      *)
DeleteConnection(c) ==
    /\ Live(c)
    /\ conn[c].reader = "finished" /\ conn[c].responder = "finished"
    /\ conn' = [conn EXCEPT ![c] = NoConnection]
    /\ client' = Refused({c})
    /\ UNCHANGED <<sockets, accept, stopping, demand>>
    /\ \E s \in Shards : conn[c].at = s /\ MaybeIdle(s)

-----------------------------------------------------------------------------
Clients == \E c \in Connections : \/ Connect(c)
                                 \/ HangUp(c)
                                 \/ Reset(c)
                                 \/ \E r \in Requests : Ask(c, r)

Reader(c) == \/ ReadRequest(c) \/ ReadEnds(c) \/ GenerateReply(c)
             \/ PushReply(c) \/ PushEof(c)

Responder(c) == \/ TakeReply(c) \/ WriteReply(c) \/ FlushReply(c)
                \/ OutputClosed(c)

Puts(c) == HeldPut(c) \/ FlushSent(c) \/ WriterSent(c)

FailedPuts(c) == FlushSendFails(c) \/ WriterSendFails(c)

Accepting == ListenerReadable \/ AcceptConnection \/ AcceptFails

Next ==
    \/ Clients
    \/ Accepting
    \/ \E h \in handoffs : MoveConnectedSocket(h)
    \/ \E s \in Shards : Listen(s) \/ Accepted(s) \/ Stop(s)
    \/ \E c \in Connections : \/ Reader(c) \/ Responder(c) \/ FlushPoller(c)
                             \/ Puts(c) \/ FailedPuts(c)
                             \/ DeleteConnection(c)

(* What the reactors do by themselves: tasks and pollers run, handlers     *)
(* finish, a socket that cannot be written to any more says so.            *)
ReactorStep ==
    \/ Accepting
    \/ \E s \in Shards : Accepted(s)
    \/ \E c \in Connections : \/ Reader(c) \/ Responder(c) \/ FlushPoller(c)
                             \/ HeldPut(c) \/ FailedPuts(c)
                             \/ (FlushSent(c) /\ conn[c].out.byFlush = <<>>)
                             \/ DeleteConnection(c)

(* They do not stop as long as there is something to do.  Nothing is       *)
(* assumed of clients, not even that they read what they asked for, nor    *)
(* that a handoff arrives.                                                 *)
Spec == Init /\ [][Next]_vars /\ WF_vars(ReactorStep)

-----------------------------------------------------------------------------
(* What the stream of a connection was given reaches the socket once and   *)
(* in order, whatever the flush poller and the responding fiber do beside  *)
(* each other: never two puts at a time, nothing skipped, and a stream     *)
(* that is closed has sent all and left the reactor's list, which its      *)
(* destructor asserts (stream.hh:1119).                                    *)
StreamExact ==
    \A c \in Connections : Live(c) =>
        LET k == conn[c]
            intact == client[c].link # "reset" /\ ~k.shut
            upto(n) == [i \in 1 .. n |-> i]
        IN  /\ OnePut(k.out)
            /\ k.wire = upto(Len(k.wire))
            /\ intact => k.wire \o Unsent(k.out) = upto(k.out.units)
            /\ k.responder = "finished" =>
                 /\ ~k.out.inBatch
                 /\ intact => Len(k.wire) = k.out.units

(* The queue of replies never holds more than its maximum, though the null *)
(* reply is pushed after a wait without a look (queue_.hh:138), and the    *)
(* room that not_full() promised is still there when the handler is done   *)
(* ("Caller guarantees enough room", httpd.hh:349): no reply is dropped.   *)
RoomIsKept ==
    \A c \in Connections :
        /\ Len(conn[c].replies.items) <= QueueMax
        /\ Reading(c, "handling") => ~Full(conn[c].replies)

(* A server reports that it has stopped once, when it accepts nothing and  *)
(* has no connection, and never has one again: it is destroyed then.       *)
StoppedIsQuiet ==
    \A s \in Shards :
        /\ stopped[s] <= 1
        /\ stopped[s] = 1 => /\ stopping[s]
                             /\ ~BeingAccepted(s)
                             /\ ConnectionsOf(s) = {}

(* Promised room is kept, and a server that has reported is done.          *)
ServerExact == RoomIsKept /\ StoppedIsQuiet

(* The writing fiber has failed while the queue of replies is full: nobody *)
(* takes a reply any more, and the reading fiber waits for room for ever.  *)
Orphaned(c) ==
    /\ Reading(c, "room") \/ Reading(c, "pushing")
    /\ conn[c].responder = "finished" /\ conn[c].replies.notFull

(* abort_accept() came between the readiness of the listener and the       *)
(* accept(), which then handed its connection over and waits again.        *)
AbortMissed(s) == stopping[s] /\ accept[s].state = "waiting"

(* A connection whose client hung up, or whose server stops, is deleted;   *)
(* a server that is stopped while it accepts or has connections reports so.*)
(* There is no other way to miss that than the two above.                  *)
EverythingEnds ==
    /\ \A c \in Connections :
          (Live(c) /\ Broken(c)) ~> (~Live(c) \/ Orphaned(c))
    /\ \A s \in Shards :
          (stopping[s] /\ (BeingAccepted(s) \/ ConnectionsOf(s) # {}))
          ~> \/ stopped[s] = 1
             \/ AbortMissed(s)
             \/ \E c \in ConnectionsOf(s) : Orphaned(c)

=============================================================================
