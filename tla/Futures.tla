------------------------------ MODULE Futures ------------------------------
(***************************************************************************)
(* Promises, futures and continuations (future.hh, future_all12.hh).  A    *)
(* promise and its future are two objects that point at each other and     *)
(* are moved about freely: into variables, into the lambda of a            *)
(* continuation, out of a function.  The outcome travels between them      *)
(* through pointers: it is in the future's own state, in the promise's, or *)
(* in that of the continuation that waits for it.                          *)
(*                                                                         *)
(* The objects are the slots of a heap, and the operators below transform  *)
(* it as the members of the classes do.  The program is any sequence of    *)
(* uses of the interface within its asserts.  What promises and futures    *)
(* are for is said by cells: a cell is created with a promise and resolves *)
(* once, either with an outcome of its own or as another cell does.        *)
(***************************************************************************)
EXTENDS Naturals, Sequences, FiniteSets

CONSTANTS
    Promises,   \* where the program keeps promises
    Futures,    \* where it keeps futures
    Conts,      \* continuations; each has a promise in its lambda
    MaxCells    \* bound: promises and ready futures made in all

None == "none"
Dead == [dead |-> TRUE]

ASSUME SlotsAssumption ==
    /\ IsFiniteSet(Conts)
    /\ Promises \cap Conts = {}
    /\ None \notin Promises \cup Conts \cup Futures /\ "own" \notin Conts
    /\ MaxCells \in Nat

VARIABLES
    heap,   \* the objects, the task list, and the errors someone saw
    cells   \* what each promise made so far stands for

futureVars == <<heap, cells>>

Places == Promises \cup Conts

(* future_state: the outcome carries the cell in which it arose *)
Pending == <<"future">>
Invalid == <<"invalid">>
Result(k) == <<"result", k>>
Error(k) == <<"error", k>>
Available(s) == s[1] \in {"result", "error"}
Failed(s) == s[1] = "error"

-----------------------------------------------------------------------------
(* The heap *)

Live(objects) == {x \in DOMAIN objects : objects[x] # Dead}

(* future_state of a promise: its own, or that of its continuation *)
PromiseState(h, p) ==
    IF h.promise[p].state = "own" THEN h.promise[p].own
    ELSE h.cont[h.promise[p].state].state

(* future::state() *)
State(h, f) ==
    IF h.future[f].promise = None THEN h.future[f].own
    ELSE PromiseState(h, h.future[f].promise)

(* The outcome is moved out of where it was *)
TakeState(h, f) ==
    LET p == h.future[f].promise
    IN  CASE p = None -> [h EXCEPT !.future[f].own = Invalid]
          [] p # None /\ h.promise[p].state = "own" ->
                [h EXCEPT !.promise[p].own = Invalid]
          [] OTHER -> [h EXCEPT !.cont[h.promise[p].state].state = Invalid]

Report(h, s) == IF Failed(s) THEN [h EXCEPT !.seen = @ \cup {s}] ELSE h

(* get_future(), and the constructor of a future with a promise *)
GetFuture(h, p, f) ==
    [h EXCEPT !.promise[p].future = f,
              !.future[f] = [promise |-> p, own |-> Pending,
                             cell |-> h.promise[p].cell]]

Detach(h, f) ==
    [h EXCEPT !.promise = [p \in Places |->
                  IF p = h.future[f].promise
                  THEN [h.promise[p] EXCEPT !.future = None] ELSE h.promise[p]],
              !.future[f].promise = None]

(* Operators whose names end in _mut are wrong on purpose: each is a       *)
(* plausible mistake in the definition after it that a property catches.   *)
DropFuture_mut(h, f) == [Detach(h, f) EXCEPT !.future[f] = Dead]

(* ~future(): it leaves its promise first and then reports an error, which *)
(* stays where it is.                                                      *)
DropFuture(h, f) ==
    Report([Detach(h, f) EXCEPT !.future[f] = Dead], State(h, f))

MoveFuture(h, f, g) ==
    LET p == h.future[f].promise
        there == [h EXCEPT !.future[g] = h.future[f], !.future[f] = Dead]
    IN  IF p = None THEN there ELSE [there EXCEPT !.promise[p].future = g]

(* promise(promise&&): the state moves with it unless a continuation has   *)
(* it, and the future is told.  The producer of what stands at q is the    *)
(* same as before when q is an assignment's left-hand side.                *)
MovePromise(h, p, q) ==
    LET f == h.promise[p].future
        there == [h EXCEPT !.promise[q] = h.promise[p], !.promise[p] = Dead]
    IN  IF f = None THEN there ELSE [there EXCEPT !.future[f].promise = q]

(* The promises that die with p: its task dies, and with the task the      *)
(* promise in its lambda, and so on: they are in every set that has p and  *)
(* these.                                                                  *)
DiesToo(h, so) == \A q \in so \cap Live(h.promise) : h.promise[q].task \in so \cup {None}
Doomed(h, p) == {q \in Places : \A so \in SUBSET Places : p \in so /\ DiesToo(h, so) => q \in so}

(* ~promise() and abandoned(): a future takes the state over, set or not *)
DropPromise(h, p) ==
    LET doomed == Doomed(h, p)
        orphans == {f \in Live(h.future) : h.future[f].promise \in doomed}
        unseen == {q \in doomed : /\ h.promise[q].future = None
                                  /\ h.promise[q].state # None
                                  /\ Failed(PromiseState(h, q))}
    IN  [h EXCEPT !.promise = [q \in Places |->
                      IF q \in doomed THEN Dead ELSE h.promise[q]],
                  !.cont = [c \in Conts |->
                      IF c \in doomed \ {p} THEN Dead ELSE h.cont[c]],
                  !.future = [f \in Futures |->
                      IF f \in orphans
                      THEN [h.future[f] EXCEPT !.promise = None, !.own = State(h, f)]
                      ELSE h.future[f]],
                  !.seen = @ \cup {PromiseState(h, q) : q \in unseen}]

(* set_value() or set_exception(), and make_ready() *)
Set(h, p, s) ==
    LET c == h.promise[p].task
    IN  IF c = None
        THEN [h EXCEPT !.promise[p].own = s]
        ELSE [h EXCEPT !.cont[c].state = s, !.tasks = Append(@, c),
                       !.promise[p].state = None, !.promise[p].task = None]

(* future::schedule(): the continuation takes the outcome, or its state    *)
(* becomes that of the promise.                                            *)
Schedule(h, f, c) ==
    IF Available(State(h, f))
    THEN [TakeState(h, f) EXCEPT !.cont[c].state = State(h, f), !.tasks = Append(@, c)]
    ELSE Detach([h EXCEPT !.promise[h.future[f].promise].state = c,
                          !.promise[h.future[f].promise].task = c], f)

(* future::forward_to(): p is resolved with the outcome, or takes the      *)
(* place of the promise whose future this was.  Both are gone afterwards.  *)
ForwardTo(h, f, p) ==
    IF Available(State(h, f))
    THEN DropPromise(DropFuture(Set(TakeState(h, f), p, State(h, f)), f), p)
    ELSE LET q == h.future[f].promise
         IN  [MovePromise(DropFuture(h, f), p, q) EXCEPT
                 !.promise[q].sets = h.promise[q].sets]

-----------------------------------------------------------------------------
(* Cells: what is promised *)

NewPromise(k) ==
    [future |-> None, state |-> "own", own |-> Pending, task |-> None,
     cell |-> k, sets |-> k, given |-> FALSE]

NextCell == Len(cells) + 1
FreshCell == [outcome |-> Pending, like |-> 0, broken |-> FALSE]

(* The cell whose outcome decides that of k *)
Root(cs, k) == IF cs[k].like = 0 THEN k ELSE cs[k].like

Outcome(k) == cells[Root(cells, k)].outcome

Resolve(cs, k, s) == [cs EXCEPT ![k].outcome = s]

(* From now on k, and what does as k does, does as the other does *)
Follow(cs, k, other) ==
    [j \in DOMAIN cs |-> IF Root(cs, j) = k THEN [cs[j] EXCEPT !.like = Root(cs, other)] ELSE cs[j]]

(* Cells that wait for k, directly or not: nobody may return one of them   *)
(* as the outcome of k, or both would wait for ever.                       *)
WaitsToo(h, cs, so) ==
    /\ \A j \in DOMAIN cs : cs[j].like \in so => j \in so
    /\ \A c \in Live(h.cont) : h.cont[c].awaits \in so => h.promise[c].sets \in so
WaitingFor(h, cs, k) ==
    {j \in DOMAIN cs : \A so \in SUBSET DOMAIN cs : k \in so /\ WaitsToo(h, cs, so) => j \in so}

Free(objects) == {x \in DOMAIN objects : objects[x] = Dead}
Slot(objects) == CHOOSE x \in Free(objects) : TRUE

FutureInit ==
    /\ heap = [promise |-> [p \in Places |-> Dead], future |-> [f \in Futures |-> Dead],
               cont |-> [c \in Conts |-> Dead], tasks |-> <<>>, seen |-> {}]
    /\ cells = <<>>

-----------------------------------------------------------------------------
(* The program *)

MakePromise ==
    /\ NextCell <= MaxCells
    /\ \E p \in Promises : heap.promise[p] = Dead
    /\ LET p == CHOOSE p \in Promises : heap.promise[p] = Dead
       IN  heap' = [heap EXCEPT !.promise[p] = NewPromise(NextCell)]
    /\ cells' = Append(cells, FreshCell)

(* get_future(), once, before or after the outcome is there *)
AskFuture(p) ==
    /\ heap.promise[p] # Dead /\ ~heap.promise[p].given
    /\ Free(heap.future) # {}
    /\ heap' = [GetFuture(heap, p, Slot(heap.future)) EXCEPT !.promise[p].given = TRUE]
    /\ UNCHANGED cells

(* make_ready_future(), make_exception_future() *)
MakeReady ==
    /\ NextCell <= MaxCells
    /\ Free(heap.future) # {}
    /\ \E s \in {Result(NextCell), Error(NextCell)} :
          /\ heap' = [heap EXCEPT !.future[Slot(heap.future)] =
                         [promise |-> None, own |-> s, cell |-> NextCell]]
          /\ cells' = Append(cells, [FreshCell EXCEPT !.outcome = s])

SetPromise(p) ==
    /\ heap.promise[p] # Dead /\ heap.promise[p].state # None
    /\ PromiseState(heap, p) = Pending
    /\ LET k == heap.promise[p].sets
       IN  \E s \in {Result(k), Error(k)} :
              /\ heap' = Set(heap, p, s)
              /\ cells' = Resolve(cells, k, s)

(* A promise that dies unset breaks its cell and those that only its tasks *)
(* would have resolved.                                                    *)
EndPromise(p) ==
    /\ heap.promise[p] # Dead
    /\ heap' = DropPromise(heap, p)
    /\ LET gone == {heap.promise[q].sets : q \in Doomed(heap, p)}
       IN  cells' = [k \in DOMAIN cells |->
                        IF k \in gone /\ cells[k].outcome = Pending
                        THEN [cells[k] EXCEPT !.broken = TRUE] ELSE cells[k]]

(* A promise or future is moved to another variable *)
RelocatePromise(p) ==
    /\ heap.promise[p] # Dead
    /\ \E q \in Promises :
          /\ heap.promise[q] = Dead
          /\ heap' = MovePromise(heap, p, q)
    /\ UNCHANGED cells

RelocateFuture(f) ==
    /\ heap.future[f] # Dead
    /\ \E g \in Futures :
          /\ heap.future[g] = Dead
          /\ heap' = MoveFuture(heap, f, g)
    /\ UNCHANGED cells

EndFuture(f) ==
    /\ heap.future[f] # Dead
    /\ heap' = DropFuture(heap, f)
    /\ UNCHANGED cells

(* get(), get_exception(): the caller has the outcome now *)
Consume(f) ==
    /\ heap.future[f] # Dead /\ Available(State(heap, f))
    /\ heap' = DropFuture(TakeState(Report(heap, State(heap, f)), f), f)
    /\ UNCHANGED cells

(* A pending future whose promise is gone: then() asserts, forward_to()    *)
(* follows a null pointer.  The program must not use one.                  *)
Usable(f) ==
    /\ heap.future[f] # Dead
    /\ Available(State(heap, f)) \/ heap.future[f].promise # None

(* then() and then_wrapped(): need_preempt() is always true, so that even  *)
(* an available outcome is handed over in a task.                          *)
Then(f) ==
    /\ Usable(f)
    /\ NextCell <= MaxCells
    /\ Free(heap.cont) # {}
    /\ LET c == Slot(heap.cont)
           made == [heap EXCEPT !.promise[c] = [NewPromise(NextCell) EXCEPT !.given = TRUE],
                        !.cont[c] = [wrapped |-> FALSE, state |-> Pending,
                                     awaits |-> heap.future[f].cell]]
           gone == DropFuture(Schedule(made, f, c), f)
       IN  \E wrapped \in BOOLEAN :
              heap' = GetFuture([gone EXCEPT !.cont[c].wrapped = wrapped],
                                c, Slot(gone.future))
    /\ cells' = Append(cells, FreshCell)

(* forward_to() by the program, as async() and when_all() do *)
Forward(f, p) ==
    /\ Usable(f)
    /\ heap.promise[p] # Dead /\ heap.promise[p].state # None
    /\ PromiseState(heap, p) = Pending
    /\ heap.future[f].cell \notin WaitingFor(heap, cells, heap.promise[p].sets)
    /\ heap' = ForwardTo(heap, f, p)
    /\ cells' = Follow(cells, heap.promise[p].sets, heap.future[f].cell)

-----------------------------------------------------------------------------
(* A task runs, and is destroyed afterwards *)

Ends(h, c) == [DropPromise(h, c) EXCEPT !.cont[c] = Dead]

(* futurize::apply(): a value or an exception becomes a ready future *)
Settle(h, c, s) == Ends(Set(h, c, s), c)

(* What a body does with its argument: the value goes to it, and of a      *)
(* future it takes the outcome or keeps the object, as finally() does      *)
Takes(h, c) ==
    LET s == h.cont[c].state
        Kept(f) == [h EXCEPT !.future[f] =
                       [promise |-> None, own |-> s, cell |-> h.cont[c].awaits]]
    IN  IF ~h.cont[c].wrapped THEN {h}
        ELSE {Report(h, s)} \cup {Kept(f) : f \in Free(h.future)}

(* task::run() of the first task *)
Run ==
    /\ heap.tasks # <<>>
    /\ LET c == Head(heap.tasks)
           h == [heap EXCEPT !.tasks = Tail(@)]
           k == h.promise[c].sets
           s == h.cont[c].state
           skipped == Failed(s) /\ ~h.cont[c].wrapped
       IN  \* the body is not called, or a wrapped one returns its argument
           \/ /\ skipped \/ h.cont[c].wrapped
              /\ heap' = Settle(h, c, s)
              /\ cells' = Resolve(cells, k, s)
           \* the body returns a value or throws
           \/ /\ ~skipped
              /\ \E taken \in Takes(h, c), out \in {Result(k), Error(k)} :
                    /\ heap' = Settle(taken, c, out)
                    /\ cells' = Resolve(cells, k, out)
           \* the body returns a future
           \/ /\ ~skipped
              /\ \E taken \in Takes(h, c), f \in Live(h.future) :
                    /\ Usable(f)
                    /\ h.future[f].cell \notin WaitingFor(h, cells, k)
                    /\ LET done == ForwardTo(taken, f, c)
                       IN  heap' = [done EXCEPT !.cont[c] = Dead]
                    /\ cells' = Follow(cells, k, h.future[f].cell)

FutureNext ==
    \/ MakePromise \/ MakeReady \/ Run
    \/ \E p \in Promises :
          AskFuture(p) \/ SetPromise(p) \/ EndPromise(p) \/ RelocatePromise(p)
    \/ \E f \in Futures :
          EndFuture(f) \/ RelocateFuture(f) \/ Consume(f) \/ Then(f)
    \/ \E f \in Futures, p \in Promises : Forward(f, p)

FutureSpec == FutureInit /\ [][FutureNext]_futureVars

-----------------------------------------------------------------------------
(* A promise and its future know each other, wherever they were moved:     *)
(* the parts of CellsAgree, first.                                         *)
Linked ==
    /\ \A f \in Live(heap.future) : LET p == heap.future[f].promise IN
          p # None => heap.promise[p] # Dead /\ heap.promise[p].future = f
    /\ \A p \in Live(heap.promise) : LET f == heap.promise[p].future IN
          f # None => heap.future[f] # Dead /\ heap.future[f].promise = p

(* A future shows the outcome of its cell, and is cut off from a promise   *)
(* before only if whoever would resolve it died without.                   *)
FuturesTell ==
    \A f \in Live(heap.future) :
       LET k == Root(cells, heap.future[f].cell) IN
       /\ State(heap, f) = cells[k].outcome
       /\ cells[k].outcome = Pending =>
             (heap.future[f].promise = None <=> cells[k].broken)

(* A continuation is owned by one promise until what it waits for is       *)
(* resolved, and is then in the task list, once, with that outcome.        *)
ContinuationsTell ==
    \A c \in Live(heap.cont) :
       LET owners == {p \in Live(heap.promise) : heap.promise[p].task = c}
           queued == {i \in DOMAIN heap.tasks : heap.tasks[i] = c}
           s == Outcome(heap.cont[c].awaits)
       IN  /\ heap.cont[c].state = s
           /\ Cardinality(owners) = (IF s = Pending THEN 1 ELSE 0)
           /\ Cardinality(queued) = (IF s = Pending THEN 0 ELSE 1)
           /\ \A p \in owners : heap.promise[p].state = c

(* Through every move of promises and futures, every chain of then() and   *)
(* forward_to() (future.hh), in whichever order a promise is set, given a  *)
(* future, and a continuation attached: each future and each continuation  *)
(* gets the outcome of the promise it stands for, once, as soon as it is   *)
(* there, and no pointer of one leads to an object that is gone.           *)
CellsAgree == Linked /\ FuturesTell /\ ContinuationsTell

(* Some state still holds the outcome *)
Held(s) ==
    \/ \E f \in Live(heap.future) : State(heap, f) = s
    \/ \E p \in Live(heap.promise) : heap.promise[p].state # None /\ PromiseState(heap, p) = s
    \/ \E c \in Live(heap.cont) : heap.cont[c].state = s

(* An exception put in a promise or thrown by a continuation is on its way *)
(* to somebody until somebody takes it or report_failed_future() is told   *)
(* of it: none disappears with the object that held it.                    *)
NoErrorIsLost ==
    \A k \in DOMAIN cells :
       cells[k].outcome = Error(k) => Error(k) \in heap.seen \/ Held(Error(k))

(* What futures promise: the right outcome to each, and no error lost.     *)
FuturesExact == CellsAgree /\ NoErrorIsLost
=============================================================================
