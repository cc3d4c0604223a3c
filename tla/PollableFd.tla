----------------------------- MODULE PollableFd -----------------------------
(***************************************************************************)
(* pollable_fd and the epoll backend of the reactor (future_all12.cc,      *)
(* future_all12.hh).  A fiber that reads or writes first waits until its   *)
(* descriptor is ready: at once when the last call suggested that it still *)
(* is (events_known), or through epoll.  epoll is level-triggered: what it *)
(* watches and nobody waits for would be reported again and again, so that *)
(* wait_and_process() takes it off the list when it is.                    *)
(*                                                                         *)
(* A descriptor carries units: bytes or datagrams that can be read, room   *)
(* for what is written, connections that can be accepted.                  *)
(***************************************************************************)
EXTENDS Naturals

CONSTANTS
    Sockets,    \* connections
    Listener,   \* the descriptor of a listening socket
    MaxUnits,   \* bound: units of a connection, and of one call
    MaxBacklog  \* bound: connections to be accepted

ASSUME DescriptorsAssumption ==
    /\ Listener \notin Sockets
    /\ MaxUnits \in Nat \ {0} /\ MaxBacklog \in Nat \ {0}

VARIABLES
    pfd,       \* the pollable_fd_state of every descriptor
    watched,   \* the kernel: the events of its entry in the epoll set; {}
               \* when it has none
    units,     \* the kernel: what can be moved in each direction
    shut,      \* the kernel: directions that are shut down, or broken
    fiber,     \* the fiber that uses a descriptor in a direction
    poller     \* _epoll_poller: "none"; "queued": its registration task is
               \* in the task list; "registered"

fdVars == <<pfd, watched, units, shut, fiber, poller>>

Fds == Sockets \cup {Listener}
Dirs == {"in", "out"}

(* pollable_fd_state(), with what it is guessed to be ready for *)
NewState(guess) == [open |-> TRUE, requested |-> {}, epoll |-> {}, known |-> guess]
Closed == [open |-> FALSE, requested |-> {}, epoll |-> {}, known |-> {}]

(* A fiber between two operations; at is "idle", "waiting" for its         *)
(* promise, or "ready" once its continuation is in the task list.          *)
Idle == [at |-> "idle", op |-> "none", left |-> 0]

Ready(f, d) == units[f][d] > 0 \/ d \in shut[f]

FdInit ==
    /\ pfd = [f \in Fds |-> IF f = Listener THEN NewState({}) ELSE Closed]
    /\ watched = [f \in Fds |-> {}]
    /\ units = [f \in Fds |-> [d \in Dirs |-> 0]]
    /\ shut = [f \in Fds |-> {}]
    /\ fiber = [f \in Fds |-> [d \in Dirs |-> Idle]]
    /\ poller = "none"

-----------------------------------------------------------------------------
(* reactor_backend_epoll *)

(* Operators whose names end in _mut are wrong on purpose: each is a       *)
(* plausible mistake in the definition after it that a property catches.   *)
GetEpollFuture_mut(f, d, op) ==
    LET known == d \in pfd[f].known
        old == pfd[f].epoll
        ctl == ~known /\ old = {}
    IN  /\ pfd' = IF known THEN [pfd EXCEPT ![f].known = @ \ {d}]
                  ELSE [pfd EXCEPT ![f].requested = @ \cup {d}, ![f].epoll = @ \cup {d}]
        /\ watched' = [watched EXCEPT ![f] = IF ctl THEN old \cup {d} ELSE @]
        /\ poller' = IF ctl /\ poller = "none" THEN "queued" ELSE poller
        /\ fiber' = [fiber EXCEPT ![f][d] =
               [op EXCEPT !.at = IF known THEN "ready" ELSE "waiting"]]

(* get_epoll_future(): op may go on at once, or waits.  An event that is   *)
(* not watched yet is added, and with the first of all the poller is       *)
(* started (start_epoll()).                                                *)
GetEpollFuture(f, d, op) ==
    LET known == d \in pfd[f].known
        old == pfd[f].epoll
        ctl == ~known /\ d \notin old
    IN  /\ pfd' = IF known THEN [pfd EXCEPT ![f].known = @ \ {d}]
                  ELSE [pfd EXCEPT ![f].requested = @ \cup {d}, ![f].epoll = @ \cup {d}]
        /\ watched' = [watched EXCEPT ![f] = IF ctl THEN old \cup {d} ELSE @]
        /\ poller' = IF ctl /\ poller = "none" THEN "queued" ELSE poller
        /\ fiber' = [fiber EXCEPT ![f][d] =
               [op EXCEPT !.at = IF known THEN "ready" ELSE "waiting"]]

(* abort_fd(): the error goes through the fiber's continuations            *)
AbortFd(f, d) ==
    /\ pfd[f].open
    /\ pfd' = [pfd EXCEPT ![f].requested = @ \ {d}, ![f].epoll = @ \ {d},
                          ![f].known = @ \ {d}]
    /\ watched' = [watched EXCEPT ![f] = IF d \in pfd[f].epoll THEN pfd'[f].epoll ELSE @]
    /\ fiber' = IF d \in pfd[f].requested THEN [fiber EXCEPT ![f][d] = Idle] ELSE fiber
    /\ UNCHANGED <<units, shut, poller>>

(* registration_task::run() *)
RegisterPoller ==
    /\ poller = "queued"
    /\ poller' = "registered"
    /\ UNCHANGED <<pfd, watched, units, shut, fiber>>

(* The tasks all run before the reactor polls *)
NoTaskIsLeft ==
    /\ poller # "queued"
    /\ \A f \in Fds, d \in Dirs : fiber[f][d].at # "ready"

Reported(f) == {d \in watched[f] : Ready(f, d)}
Served(f) == Reported(f) \cap pfd[f].requested
Unwanted(f) == Reported(f) \ pfd[f].requested

(* wait_and_process(), from the poller or in sleep(): waiters first, then  *)
(* what was reported with nobody waiting when it was.                      *)
WaitAndProcess ==
    /\ NoTaskIsLeft
    /\ \E f \in Fds : Reported(f) # {}
    /\ pfd' = [f \in Fds |-> [pfd[f] EXCEPT !.requested = @ \ Served(f),
                                            !.known = @ \ Served(f),
                                            !.epoll = @ \ Unwanted(f)]]
    /\ watched' = [f \in Fds |-> IF Unwanted(f) = {} THEN watched[f] ELSE pfd'[f].epoll]
    /\ fiber' = [f \in Fds |-> [d \in Dirs |->
           IF d \in Served(f) THEN [fiber[f][d] EXCEPT !.at = "ready"] ELSE fiber[f][d]]]
    /\ UNCHANGED <<units, shut, poller>>

-----------------------------------------------------------------------------
(* What fibers do, one operation at a time in each direction               *)

Begin(f, d, op, n) ==
    /\ pfd[f].open /\ fiber[f][d] = Idle
    /\ GetEpollFuture(f, d, [at |-> "idle", op |-> op, left |-> n])
    /\ UNCHANGED <<units, shut>>

Runs(f, d, op) == fiber[f][d].at = "ready" /\ fiber[f][d].op = op

(* The call would block: EAGAIN, and another wait *)
TryAgain(f, d, op) ==
    /\ Runs(f, d, op) /\ ~Ready(f, d)
    /\ GetEpollFuture(f, d, fiber[f][d])
    /\ UNCHANGED <<units, shut>>

(* What a call of this fiber moves *)
Moved(f, d) ==
    IF units[f][d] <= fiber[f][d].left THEN units[f][d] ELSE fiber[f][d].left

(* speculate_epoll() *)
Speculate(f, d, guess) == pfd' = [pfd EXCEPT ![f].known = IF guess THEN @ \cup {d} ELSE @]

Finish(f, d, n, guess) ==
    /\ units' = [units EXCEPT ![f][d] = @ - n]
    /\ fiber' = [fiber EXCEPT ![f][d] = Idle]
    /\ Speculate(f, d, guess)
    /\ UNCHANGED <<watched, shut, poller>>

(* read_some(): as much as there is, and perhaps more to come if the       *)
(* buffer is full.  Nothing at all is the end of the stream.               *)
ReadSome(f) ==
    \/ TryAgain(f, "in", "read")
    \/ /\ Runs(f, "in", "read") /\ Ready(f, "in")
       /\ Finish(f, "in", Moved(f, "in"), Moved(f, "in") = fiber[f]["in"].left)

(* recvmsg(): one datagram, and always perhaps another *)
RecvMsg(f) ==
    \/ TryAgain(f, "in", "recv")
    \/ /\ Runs(f, "in", "recv") /\ Ready(f, "in")
       /\ Finish(f, "in", Moved(f, "in"), TRUE)

(* A part of what write_all() has to write: it goes on with the rest, but  *)
(* a broken connection ends it with an error.                              *)
WritePart(f, op) ==
    \/ TryAgain(f, "out", op)
    \/ /\ Runs(f, "out", op) /\ "out" \in shut[f]
       /\ Finish(f, "out", 0, FALSE)
    \/ /\ Runs(f, "out", op) /\ "out" \notin shut[f] /\ units[f]["out"] > 0
       /\ Moved(f, "out") = fiber[f]["out"].left
       /\ Finish(f, "out", Moved(f, "out"), TRUE)
    \/ /\ Runs(f, "out", op) /\ "out" \notin shut[f] /\ units[f]["out"] > 0
       /\ Moved(f, "out") < fiber[f]["out"].left
       /\ units' = [units EXCEPT ![f]["out"] = 0]
       /\ GetEpollFuture(f, "out", [fiber[f]["out"] EXCEPT !.left = @ - Moved(f, "out")])
       /\ UNCHANGED shut

(* write_all() of a buffer and of a packet *)
WriteAll(f) == WritePart(f, "write")
WritePacket(f) == WritePart(f, "packet")

(* sendmsg() and sendto(): a datagram is sent whole *)
SendMsg(f) ==
    \/ TryAgain(f, "out", "send")
    \/ /\ Runs(f, "out", "send") /\ "out" \in shut[f]
       /\ Finish(f, "out", 0, FALSE)
    \/ /\ Runs(f, "out", "send") /\ "out" \notin shut[f] /\ units[f]["out"] > 0
       /\ Finish(f, "out", Moved(f, "out"), TRUE)

(* posix_connect(): the descriptor is writeable once it is connected *)
Connected(f) ==
    /\ Runs(f, "out", "connect")
    /\ Finish(f, "out", 0, FALSE)

(* accept() does not wait again: it throws when there is no connection,    *)
(* and when the process has no descriptor left.                            *)
Accept ==
    /\ Runs(Listener, "in", "accept")
    /\ IF Ready(Listener, "in") /\ \E f \in Sockets : ~pfd[f].open
       THEN LET f == CHOOSE f \in Sockets : ~pfd[f].open
            IN  /\ pfd' = [pfd EXCEPT ![f] = NewState({"out"})]
                /\ units' = [units EXCEPT ![Listener]["in"] = @ - 1,
                                          ![f] = [d \in Dirs |-> IF d = "out" THEN MaxUnits ELSE 0]]
                /\ shut' = [shut EXCEPT ![f] = {}]
       ELSE UNCHANGED <<pfd, units, shut>>
    /\ fiber' = [fiber EXCEPT ![Listener]["in"] = Idle]
    /\ UNCHANGED <<watched, poller>>

(* make_pollable_fd() and connect() *)
Connect ==
    \E f \in Sockets :
       /\ ~pfd[f].open
       /\ pfd' = [pfd EXCEPT ![f] = [NewState({}) EXCEPT !.requested = {"out"}, !.epoll = {"out"}]]
       /\ watched' = [watched EXCEPT ![f] = {"out"}]
       /\ poller' = IF poller = "none" THEN "queued" ELSE poller
       /\ fiber' = [fiber EXCEPT ![f]["out"] = [at |-> "waiting", op |-> "connect", left |-> 0]]
       /\ units' = [units EXCEPT ![f] = [d \in Dirs |-> 0]]
       /\ shut' = [shut EXCEPT ![f] = {}]

(* ~pollable_fd_state() and forget(), when no fiber uses the descriptor *)
Close(f) ==
    /\ pfd[f].open /\ \A d \in Dirs : fiber[f][d] = Idle
    /\ pfd' = [pfd EXCEPT ![f] = Closed]
    /\ watched' = [watched EXCEPT ![f] = IF pfd[f].epoll # {} THEN {} ELSE @]
    /\ units' = [units EXCEPT ![f] = [d \in Dirs |-> 0]]
    /\ shut' = [shut EXCEPT ![f] = {}]
    /\ UNCHANGED <<fiber, poller>>

(* shutdown() by this side, or the other has closed or broken off *)
ShutDown(f, d) ==
    /\ pfd[f].open /\ d \notin shut[f]
    /\ shut' = [shut EXCEPT ![f] = @ \cup {d}]
    /\ UNCHANGED <<pfd, watched, units, fiber, poller>>

(* The network *)
Arrives(f, d) ==
    /\ pfd[f].open
    /\ units[f][d] < (IF f = Listener THEN MaxBacklog ELSE MaxUnits)
    /\ units' = [units EXCEPT ![f][d] = @ + 1]
    /\ UNCHANGED <<pfd, watched, shut, fiber, poller>>

Operations(f) ==
    \/ \E n \in 1 .. MaxUnits : Begin(f, "in", "read", n) \/ Begin(f, "out", "write", n)
    \/ Begin(f, "out", "packet", MaxUnits)
    \/ Begin(f, "in", "recv", 1) \/ Begin(f, "out", "send", 1)

(* The task of a fiber that got its promise *)
RunTask ==
    \/ RegisterPoller \/ Accept
    \/ \E f \in Sockets :
          ReadSome(f) \/ RecvMsg(f) \/ WriteAll(f) \/ WritePacket(f) \/ SendMsg(f) \/ Connected(f)

FdNext ==
    \/ RunTask \/ WaitAndProcess
    \/ Begin(Listener, "in", "accept", 1) \/ AbortFd(Listener, "in")
    \/ Arrives(Listener, "in") \/ Connect
    \/ \E f \in Sockets : Operations(f) \/ Close(f)
    \/ \E f \in Sockets, d \in Dirs : ShutDown(f, d) \/ AbortFd(f, d) \/ Arrives(f, d)

FdSpec == FdInit /\ [][FdNext]_fdVars

-----------------------------------------------------------------------------
(* Through every order of operations, answers from epoll, guesses, aborts  *)
(* and closing (future_all12.cc:1360 to 1456): the set of the kernel is    *)
(* what events_epoll says, so that the asserts on epoll_ctl() hold; every  *)
(* fiber that waits is requested and watched, with the poller started, and *)
(* so is answered by the next wait_and_process() once its descriptor is    *)
(* ready; and accept(), which does not try again, finds a connection.      *)
WaitersWatched ==
    /\ \A f \in Fds :
          /\ watched[f] = pfd[f].epoll
          /\ pfd[f].requested = {d \in Dirs : fiber[f][d].at = "waiting"}
          /\ pfd[f].requested \subseteq watched[f] \ pfd[f].known
          /\ watched[f] # {} => poller # "none"
    /\ fiber[Listener]["in"].at = "ready" => Ready(Listener, "in")
=============================================================================
