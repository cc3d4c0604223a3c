--------------------------- MODULE FuturesProofs ---------------------------
(***************************************************************************)
(* Promises, futures and continuations, for any number of them.            *)
(*                                                                         *)
(* FuturesExact says where the outcome of each cell can be read.  What     *)
(* keeps it true is the invariant Sound: who resolves a cell (one promise, *)
(* Distinct), to whom that promise's state belongs (PromiseSound), and     *)
(* what the future and the continuation that stand for the cell know of it *)
(* (FutureSound, ContSound).  An action is several members of the classes  *)
(* in a row, between which a continuation waits for nothing yet, a state   *)
(* was taken from a future that is still there, or an error is in the      *)
(* hands of the running code only: those are parameters of Sound, and      *)
(* there is a lemma for each member, one for each step composes them.      *)
(***************************************************************************)
EXTENDS Futures, SequenceCounts

Numbers == 1 .. MaxCells
Outcomes == {Result(k) : k \in Numbers} \union {Error(k) : k \in Numbers}
States == Outcomes \union {Pending, Invalid}

PromiseObjects ==
    [future : Futures \union {None}, state : Conts \union {"own", None}, own : States,
     task : Conts \union {None}, cell : Numbers, sets : Numbers, given : BOOLEAN]
FutureObjects == [promise : Places \union {None}, own : States, cell : Numbers]
ContObjects == [wrapped : BOOLEAN, state : States, awaits : Numbers]

Heaps ==
    [promise : [Places -> PromiseObjects \union {Dead}],
     future : [Futures -> FutureObjects \union {Dead}],
     cont : [Conts -> ContObjects \union {Dead}],
     tasks : Seq(Conts), seen : SUBSET States]

CellObjects == [outcome : Outcomes \union {Pending}, like : 0 .. MaxCells, broken : BOOLEAN]

OutcomeIn(cs, k) == cs[Root(cs, k)].outcome

(* A cell does as itself or as one that does as itself, and then has no    *)
(* outcome of its own.                                                     *)
CellsSound(cs) ==
    /\ cs \in Seq(CellObjects) /\ Len(cs) <= MaxCells
    /\ \A k \in DOMAIN cs : cs[k].like # 0 =>
          /\ cs[k].like \in DOMAIN cs /\ cs[cs[k].like].like = 0
          /\ cs[k].outcome = Pending

(* A promise resolves a cell of its own, and has no outcome before that.   *)
PromiseSound(h, cs, p, spent) ==
    LET x == h.promise[p]
    IN  /\ x.sets \in DOMAIN cs /\ x.cell \in DOMAIN cs
        /\ cs[x.sets].like = 0 /\ ~cs[x.sets].broken /\ Root(cs, x.cell) = x.sets
        /\ x.task = IF x.state \in Conts THEN x.state ELSE None
        /\ x.state = "own" => \/ x.own = cs[x.sets].outcome
                              \/ x.own = Invalid /\ cs[x.sets].outcome # Pending
        /\ x.state = None => cs[x.sets].outcome # Pending
        /\ x.state \in Conts =>
              /\ cs[x.sets].outcome = Pending
              /\ h.cont[x.state] # Dead /\ h.cont[x.state].state = Pending
              /\ Root(cs, h.cont[x.state].awaits) = x.sets
        /\ x.future # None =>
              /\ x.state = "own" /\ x.given /\ (x.own = Invalid => x.future \in spent)
              /\ h.future[x.future] # Dead /\ h.future[x.future].promise = p
        /\ ~x.given => x.state = "own" /\ x.own # Invalid

(* No two promises resolve the same cell.                                  *)
Distinct(h) ==
    \A p, q \in Places :
        h.promise[p] # Dead /\ h.promise[q] # Dead /\ h.promise[p].sets = h.promise[q].sets => p = q

FutureSound(h, cs, f, spent) ==
    LET x == h.future[f]
    IN  /\ x.cell \in DOMAIN cs
        /\ x.promise # None =>
              /\ h.promise[x.promise] # Dead
              /\ h.promise[x.promise].future = f /\ h.promise[x.promise].cell = x.cell
              /\ x.own = Pending
        /\ x.promise = None /\ f \notin spent =>
              /\ x.own = OutcomeIn(cs, x.cell)
              /\ x.own = Pending => cs[Root(cs, x.cell)].broken

ContSound(h, cs, c, run, loose) ==
    LET x == h.cont[c]
    IN  /\ h.promise[c] # Dead
        /\ c \in run => x.state # Pending
        /\ c \notin run => cs[h.promise[c].sets].outcome = Pending
        /\ x.awaits \in DOMAIN cs
        /\ c \in loose => /\ x.state = Pending
                         /\ \A p \in Places : h.promise[p] # Dead => h.promise[p].state # c
        /\ c \notin loose =>
              /\ x.state = OutcomeIn(cs, x.awaits)
              /\ x.state = Pending => \E p \in Places : h.promise[p] # Dead /\ h.promise[p].task = c

Queued(h, c, run, loose) ==
    h.cont[c] # Dead /\ h.cont[c].state # Pending /\ c \notin run /\ c \notin loose

(* Where an outcome is.                                                    *)
HeldIn(h, run, s) ==
    \/ \E f \in Futures : h.future[f] # Dead /\ State(h, f) = s
    \/ \E p \in Places : h.promise[p] # Dead /\ h.promise[p].state # None /\ PromiseState(h, p) = s
    \/ \E c \in Conts : h.cont[c] # Dead /\ c \notin run /\ h.cont[c].state = s

ErrorsSound(h, cs, run, hand) ==
    \A k \in DOMAIN cs : cs[k].outcome = Error(k) =>
        Error(k) \in h.seen \/ Error(k) \in hand \/ HeldIn(h, run, Error(k))

Promised(h, cs, spent) == \A p \in Places : h.promise[p] # Dead => PromiseSound(h, cs, p, spent)
Expected(h, cs, spent) == \A f \in Futures : h.future[f] # Dead => FutureSound(h, cs, f, spent)
Awaited(h, cs, run, loose) ==
    \A c \in Conts : /\ h.cont[c] = Dead => h.promise[c] = Dead
                     /\ h.cont[c] # Dead => ContSound(h, cs, c, run, loose)
Tasked(h, run, loose) ==
    \A c \in Conts : Count(h.tasks, {c}) = Indicator(Queued(h, c, run, loose))

Sound(h, cs, run, loose, spent, hand) ==
    /\ h \in Heaps /\ CellsSound(cs) /\ Distinct(h)
    /\ Promised(h, cs, spent) /\ Expected(h, cs, spent) /\ Awaited(h, cs, run, loose)
    /\ Tasked(h, run, loose) /\ ErrorsSound(h, cs, run, hand)

(* The parts are about these arguments in Sound: run, the continuation     *)
(* that runs; loose, one that waits for nothing yet; spent, a future whose *)
(* state was taken; hand, the outcomes that the running code has itself.   *)
SoundNow == Sound(heap, cells, {}, {}, {}, {})
-----------------------------------------------------------------------------
LEMMA StateFacts ==
    /\ Pending \in States /\ Invalid \in States /\ Outcomes \subseteq States
    /\ Pending \notin Outcomes /\ Invalid \notin Outcomes /\ Pending # Invalid
    /\ \A k \in Numbers : Result(k) \in Outcomes /\ Error(k) \in Outcomes
    /\ \A s \in States : s \in Outcomes <=> s # Pending /\ s # Invalid
    /\ \A s \in States : Available(s) <=> s \in Outcomes
    /\ \A k : Failed(Error(k)) /\ Error(k) # Pending /\ Error(k) # Invalid
    /\ ~Failed(Pending) /\ ~Failed(Invalid)
<1> USE DEF Pending, Invalid, Result, Error, Available, Failed, States, Outcomes
<1>1. \A k : /\ Result(k)[1] = "result" /\ Error(k)[1] = "error"
             /\ Result(k) # Pending /\ Result(k) # Invalid
             /\ Error(k) # Pending /\ Error(k) # Invalid
  OBVIOUS
<1>2. Pending[1] = "future" /\ Invalid[1] = "invalid" /\ Pending # Invalid  OBVIOUS
<1>3. \A s \in Outcomes : s[1] \in {"result", "error"} /\ s # Pending /\ s # Invalid
  BY <1>1
<1>4. \A s \in States : s \in Outcomes <=> s # Pending /\ s # Invalid  BY <1>3
<1>5. \A s \in States : Available(s) <=> s \in Outcomes  BY <1>2, <1>3, <1>4
<1> QED BY <1>1, <1>2, <1>3, <1>4, <1>5

LEMMA NameFacts ==
    /\ None \notin Places /\ None \notin Conts /\ None \notin Futures /\ None # "own"
    /\ "own" \notin Conts /\ Conts \subseteq Places /\ Promises \subseteq Places
    /\ \A p \in Promises : p \notin Conts
BY SlotsAssumption DEF Places, None

LEMMA DeadFacts ==
    Dead \notin PromiseObjects /\ Dead \notin FutureObjects /\ Dead \notin ContObjects
<1>1. Dead.dead = TRUE /\ DOMAIN Dead = {"dead"}  BY DEF Dead
<1>2. \A x \in PromiseObjects : "future" \in DOMAIN x  BY DEF PromiseObjects
<1>3. \A x \in FutureObjects : "promise" \in DOMAIN x  BY DEF FutureObjects
<1>4. \A x \in ContObjects : "awaits" \in DOMAIN x  BY DEF ContObjects
<1> QED BY <1>1, <1>2, <1>3, <1>4

(* What Sound says of one object. *)
LEMMA SoundObjects ==
    ASSUME NEW h, NEW cs, NEW run, NEW loose, NEW spent, NEW hand,
           Sound(h, cs, run, loose, spent, hand)
    PROVE  /\ h \in Heaps /\ CellsSound(cs)
           /\ \A p \in Places : h.promise[p] # Dead =>
                 h.promise[p] \in PromiseObjects /\ PromiseSound(h, cs, p, spent)
           /\ \A f \in Futures : h.future[f] # Dead =>
                 h.future[f] \in FutureObjects /\ FutureSound(h, cs, f, spent)
           /\ \A c \in Conts : h.cont[c] # Dead =>
                 /\ h.cont[c] \in ContObjects /\ ContSound(h, cs, c, run, loose)
                 /\ h.promise[c] # Dead
           /\ \A c \in Conts : h.promise[c] # Dead => h.cont[c] # Dead
<1>1. /\ h.promise \in [Places -> PromiseObjects \union {Dead}]
      /\ h.future \in [Futures -> FutureObjects \union {Dead}]
      /\ h.cont \in [Conts -> ContObjects \union {Dead}]
  BY DEF Sound, Heaps
<1> QED BY <1>1 DEF Sound, Promised, Expected, Awaited, ContSound

(* A future that lives has its state in itself or in a promise's own.      *)
LEMMA FutureState ==
    ASSUME NEW h, NEW cs, NEW run, NEW loose, NEW spent, NEW hand,
           Sound(h, cs, run, loose, spent, hand),
           NEW f \in Futures, h.future[f] # Dead
    PROVE  /\ h.future[f].promise = None => State(h, f) = h.future[f].own
           /\ h.future[f].promise # None =>
                 /\ h.future[f].promise \in Places /\ h.promise[h.future[f].promise] # Dead
                 /\ h.promise[h.future[f].promise].state = "own"
                 /\ h.promise[h.future[f].promise].task = None
                 /\ h.promise[h.future[f].promise].future = f
                 /\ State(h, f) = h.promise[h.future[f].promise].own
           /\ State(h, f) \in States
           /\ f \notin spent => State(h, f) = OutcomeIn(cs, h.future[f].cell)
<1> DEFINE p == h.future[f].promise
<1>1. /\ h.future[f] \in FutureObjects /\ FutureSound(h, cs, f, spent)
      /\ \A q \in Places : h.promise[q] # Dead =>
            h.promise[q] \in PromiseObjects /\ PromiseSound(h, cs, q, spent)
  BY SoundObjects
<1>2. CASE p = None  BY <1>1, <1>2 DEF State, FutureSound, FutureObjects
<1>3. CASE p # None
  <2>1. p \in Places /\ h.promise[p] # Dead /\ h.promise[p].future = f
        /\ h.promise[p].cell = h.future[f].cell
    BY <1>1, <1>3 DEF FutureSound, FutureObjects
  <2>2. h.promise[p] \in PromiseObjects /\ PromiseSound(h, cs, p, spent)
    BY <1>1, <2>1
  <2>3. f # None /\ "own" \notin Conts  BY NameFacts
  <2>4. /\ h.promise[p].state = "own" /\ h.promise[p].task = None
        /\ h.promise[p].own = Invalid => f \in spent
        /\ h.promise[p].own \in States
        /\ h.promise[p].own = Invalid \/ h.promise[p].own = OutcomeIn(cs, h.future[f].cell)
    BY <2>1, <2>2, <2>3 DEF PromiseSound, PromiseObjects, OutcomeIn
  <2> QED BY <1>3, <2>1, <2>4 DEF State, PromiseState
<1> QED BY <1>2, <1>3

(* What is said of promises and of futures reads nothing but these *)
LEMMA SameParts ==
    ASSUME NEW h, NEW x, NEW cs, NEW spent,
           x.promise = h.promise, x.future = h.future, x.cont = h.cont
    PROVE  /\ Promised(h, cs, spent) <=> Promised(x, cs, spent)
           /\ Expected(h, cs, spent) <=> Expected(x, cs, spent)
<1>1. ASSUME NEW p PROVE PromiseSound(h, cs, p, spent) <=> PromiseSound(x, cs, p, spent)
  BY Zenon DEF PromiseSound
<1>2. ASSUME NEW f PROVE FutureSound(h, cs, f, spent) <=> FutureSound(x, cs, f, spent)
  BY Zenon DEF FutureSound
<1> QED BY <1>1, <1>2 DEF Promised, Expected

(* An error that somebody is told of *)
LEMMA ReportSound ==
    ASSUME NEW h, NEW cs, NEW run, NEW loose, NEW spent, NEW hand,
           Sound(h, cs, run, loose, spent, hand), NEW s \in States
    PROVE  /\ Sound(Report(h, s), cs, run, loose, spent, hand)
           /\ Failed(s) => s \in Report(h, s).seen
<1> DEFINE x == Report(h, s)
<1>1. /\ x \in Heaps /\ x.promise = h.promise /\ x.future = h.future /\ x.cont = h.cont
      /\ x.tasks = h.tasks /\ x.seen = IF Failed(s) THEN h.seen \union {s} ELSE h.seen
  <2>1. h \in Heaps  BY DEF Sound
  <2> QED BY <2>1 DEF Heaps, Report
<1> HIDE DEF x
<1>2. Promised(h, cs, spent) => Promised(x, cs, spent)
  BY ONLY <1>1, SameParts
<1>3. Expected(h, cs, spent) => Expected(x, cs, spent)
  BY <1>1 DEF Expected, FutureSound
<1>4. Awaited(h, cs, run, loose) => Awaited(x, cs, run, loose)
  BY <1>1 DEF Awaited, ContSound
<1>5. Tasked(h, run, loose) => Tasked(x, run, loose)  BY <1>1 DEF Tasked, Queued
<1>6. Distinct(h) => Distinct(x)  BY <1>1 DEF Distinct
<1>7. \A e : HeldIn(x, run, e) <=> HeldIn(h, run, e)
  BY <1>1 DEF HeldIn, State, PromiseState
<1>8. ErrorsSound(h, cs, run, hand) => ErrorsSound(x, cs, run, hand)
  BY <1>1, <1>7 DEF ErrorsSound
<1> QED BY <1>1, <1>2, <1>3, <1>4, <1>5, <1>6, <1>8 DEF Sound, x

-----------------------------------------------------------------------------
(* One object of a heap takes another's place. *)
WithPromise(h, p, r) == [h EXCEPT !.promise[p] = r]
WithFuture(h, f, r) == [h EXCEPT !.future[f] = r]
WithCont(h, c, r) == [h EXCEPT !.cont[c] = r]

LEMMA WithPromiseHeap ==
    ASSUME NEW h \in Heaps, NEW p \in Places, NEW r \in PromiseObjects \union {Dead},
           NEW x, x = WithPromise(h, p, r)
    PROVE  /\ x \in Heaps /\ x.promise[p] = r
           /\ \A q \in Places : q # p => x.promise[q] = h.promise[q]
           /\ x.future = h.future /\ x.cont = h.cont /\ x.tasks = h.tasks /\ x.seen = h.seen
BY DEF WithPromise, Heaps

LEMMA WithFutureHeap ==
    ASSUME NEW h \in Heaps, NEW f \in Futures, NEW r \in FutureObjects \union {Dead},
           NEW x, x = WithFuture(h, f, r)
    PROVE  /\ x \in Heaps /\ x.future[f] = r
           /\ \A g \in Futures : g # f => x.future[g] = h.future[g]
           /\ x.promise = h.promise /\ x.cont = h.cont /\ x.tasks = h.tasks /\ x.seen = h.seen
BY DEF WithFuture, Heaps

LEMMA WithContHeap ==
    ASSUME NEW h \in Heaps, NEW c \in Conts, NEW r \in ContObjects \union {Dead},
           NEW x, x = WithCont(h, c, r)
    PROVE  /\ x \in Heaps /\ x.cont[c] = r
           /\ \A d \in Conts : d # c => x.cont[d] = h.cont[d]
           /\ x.promise = h.promise /\ x.future = h.future /\ x.tasks = h.tasks /\ x.seen = h.seen
BY DEF WithCont, Heaps

(* An object with another value in a field.                                *)
OwnIs(r, s) == [r EXCEPT !.own = s]
FutureIs(r, f) == [r EXCEPT !.future = f]
TaskIs(r, s, c) == [r EXCEPT !.state = s, !.task = c]
SetsIs(r, k) == [r EXCEPT !.sets = k]
GivenIs(r) == [r EXCEPT !.given = TRUE]
PromiseIs(r, p) == [r EXCEPT !.promise = p]
StateIs(r, s) == [r EXCEPT !.state = s]

LEMMA PromiseFields ==
    ASSUME NEW r \in PromiseObjects
    PROVE  /\ r # Dead
           /\ \A s \in States : LET e == OwnIs(r, s) IN
                 /\ e \in PromiseObjects /\ e # Dead /\ e.own = s /\ e.future = r.future
                 /\ e.state = r.state /\ e.task = r.task /\ e.cell = r.cell /\ e.sets = r.sets
                 /\ e.given = r.given
           /\ \A f \in Futures \union {None} : LET e == FutureIs(r, f) IN
                 /\ e \in PromiseObjects /\ e # Dead /\ e.future = f /\ e.own = r.own
                 /\ e.state = r.state /\ e.task = r.task /\ e.cell = r.cell /\ e.sets = r.sets
                 /\ e.given = r.given
           /\ \A s \in Conts \union {None, "own"}, c \in Conts \union {None} :
                 LET e == TaskIs(r, s, c) IN
                 /\ e \in PromiseObjects /\ e # Dead /\ e.future = r.future /\ e.own = r.own
                 /\ e.state = s /\ e.task = c /\ e.cell = r.cell /\ e.sets = r.sets
                 /\ e.given = r.given
           /\ \A k \in Numbers : LET e == SetsIs(r, k) IN
                 /\ e \in PromiseObjects /\ e # Dead /\ e.future = r.future /\ e.own = r.own
                 /\ e.state = r.state /\ e.task = r.task /\ e.cell = r.cell /\ e.sets = k
                 /\ e.given = r.given
           /\ LET e == GivenIs(r) IN
                 /\ e \in PromiseObjects /\ e # Dead /\ e.future = r.future /\ e.own = r.own
                 /\ e.state = r.state /\ e.task = r.task /\ e.cell = r.cell /\ e.sets = r.sets
                 /\ e.given
<1>1. \A s \in States : OwnIs(r, s) \in PromiseObjects  BY DEF PromiseObjects, OwnIs
<1>2. \A f \in Futures \union {None} : FutureIs(r, f) \in PromiseObjects
  BY DEF PromiseObjects, FutureIs
<1>3. \A s \in Conts \union {None, "own"}, c \in Conts \union {None} : TaskIs(r, s, c) \in PromiseObjects
  BY DEF PromiseObjects, TaskIs
<1>4. \A k \in Numbers : SetsIs(r, k) \in PromiseObjects
  BY DEF PromiseObjects, SetsIs
<1>5. GivenIs(r) \in PromiseObjects  BY DEF PromiseObjects, GivenIs
<1>6. \A s \in States : LET e == OwnIs(r, s) IN
                 /\ e.own = s /\ e.future = r.future
                 /\ e.state = r.state /\ e.task = r.task /\ e.cell = r.cell /\ e.sets = r.sets
                 /\ e.given = r.given
  BY DEF PromiseObjects, OwnIs
<1>7. \A f \in Futures \union {None} : LET e == FutureIs(r, f) IN
                 /\ e.future = f /\ e.own = r.own
                 /\ e.state = r.state /\ e.task = r.task /\ e.cell = r.cell /\ e.sets = r.sets
                 /\ e.given = r.given
  BY DEF PromiseObjects, FutureIs
<1>8. \A s \in Conts \union {None, "own"}, c \in Conts \union {None} :
                 LET e == TaskIs(r, s, c) IN
                 /\ e.future = r.future /\ e.own = r.own
                 /\ e.state = s /\ e.task = c /\ e.cell = r.cell /\ e.sets = r.sets
                 /\ e.given = r.given
  BY DEF PromiseObjects, TaskIs
<1>9. \A k \in Numbers : LET e == SetsIs(r, k) IN
                 /\ e.future = r.future /\ e.own = r.own
                 /\ e.state = r.state /\ e.task = r.task /\ e.cell = r.cell /\ e.sets = k
                 /\ e.given = r.given
  BY DEF PromiseObjects, SetsIs
<1>10. LET e == GivenIs(r) IN
                 /\ e.future = r.future /\ e.own = r.own
                 /\ e.state = r.state /\ e.task = r.task /\ e.cell = r.cell /\ e.sets = r.sets
                 /\ e.given
  BY DEF PromiseObjects, GivenIs
<1>11. r # Dead /\ \A e \in PromiseObjects : e # Dead  BY DeadFacts
<1> QED BY <1>1, <1>2, <1>3, <1>4, <1>5, <1>6, <1>7, <1>8, <1>9, <1>10, <1>11

LEMMA FutureFields ==
    ASSUME NEW r \in FutureObjects
    PROVE  /\ r # Dead /\ r.promise \in Places \union {None} /\ r.own \in States /\ r.cell \in Numbers
           /\ \A s \in States : LET e == OwnIs(r, s) IN
                 /\ e \in FutureObjects /\ e # Dead /\ e.own = s /\ e.promise = r.promise /\ e.cell = r.cell
           /\ \A p \in Places \union {None} : LET e == PromiseIs(r, p) IN
                 /\ e \in FutureObjects /\ e # Dead /\ e.own = r.own /\ e.promise = p /\ e.cell = r.cell
<1>1. r # Dead /\ \A e \in FutureObjects : e # Dead  BY DeadFacts
<1>2. \A s \in States : LET e == OwnIs(r, s) IN
         e \in FutureObjects /\ e.own = s /\ e.promise = r.promise /\ e.cell = r.cell
  BY DEF FutureObjects, OwnIs
<1>3. \A p \in Places \union {None} : LET e == PromiseIs(r, p) IN
         e \in FutureObjects /\ e.own = r.own /\ e.promise = p /\ e.cell = r.cell
  BY DEF FutureObjects, PromiseIs
<1>4. r.promise \in Places \union {None} /\ r.own \in States /\ r.cell \in Numbers
  BY DEF FutureObjects
<1> QED BY <1>1, <1>2, <1>3, <1>4

LEMMA TaskIsFields ==
    ASSUME NEW r \in PromiseObjects, NEW c \in Conts, NEW e, e = TaskIs(r, c, c)
    PROVE  /\ e \in PromiseObjects /\ e # Dead /\ e.future = r.future /\ e.own = r.own
           /\ e.state = c /\ e.task = c /\ e.cell = r.cell /\ e.sets = r.sets /\ e.given = r.given
<1>1. /\ e \in PromiseObjects /\ e.future = r.future /\ e.own = r.own
      /\ e.state = c /\ e.task = c /\ e.cell = r.cell /\ e.sets = r.sets /\ e.given = r.given
  BY DEF PromiseObjects, TaskIs
<1> QED BY <1>1, DeadFacts

LEMMA PromiseIsFields ==
    ASSUME NEW r \in FutureObjects, NEW q \in Places \union {None}, NEW e, e = PromiseIs(r, q)
    PROVE  e \in FutureObjects /\ e # Dead /\ e.promise = q /\ e.own = r.own /\ e.cell = r.cell
<1>1. e \in FutureObjects /\ e.promise = q /\ e.own = r.own /\ e.cell = r.cell
  BY DEF FutureObjects, PromiseIs
<1> QED BY <1>1, DeadFacts

LEMMA ContFields ==
    ASSUME NEW r \in ContObjects
    PROVE  /\ r # Dead /\ r.state \in States /\ r.awaits \in Numbers
           /\ \A s \in States : LET e == StateIs(r, s) IN
                 /\ e \in ContObjects /\ e # Dead /\ e.state = s /\ e.awaits = r.awaits
                 /\ e.wrapped = r.wrapped
<1>1. r # Dead /\ \A e \in ContObjects : e # Dead  BY DeadFacts
<1>2. \A s \in States : LET e == StateIs(r, s) IN
         e \in ContObjects /\ e.state = s /\ e.awaits = r.awaits /\ e.wrapped = r.wrapped
  BY DEF ContObjects, StateIs
<1>3. r.state \in States /\ r.awaits \in Numbers  BY DEF ContObjects
<1> QED BY <1>1, <1>2, <1>3

-----------------------------------------------------------------------------
(* An outcome in hand may be forgotten once it is elsewhere.               *)
LEMMA HandSound ==
    ASSUME NEW h, NEW cs, NEW run, NEW loose, NEW spent, NEW hand, NEW left,
           Sound(h, cs, run, loose, spent, hand),
           \A s \in hand \ left : s \in h.seen \/ ~Failed(s) \/ HeldIn(h, run, s)
    PROVE  Sound(h, cs, run, loose, spent, left)
<1>1. ErrorsSound(h, cs, run, left)  BY StateFacts DEF Sound, ErrorsSound
<1> QED BY <1>1 DEF Sound

(* The outcome is taken out of a future, wherever it is.                   *)
LEMMA TakeSound ==
    ASSUME NEW h, NEW cs, NEW run, NEW loose, NEW hand,
           Sound(h, cs, run, loose, {}, hand),
           NEW f \in Futures, h.future[f] # Dead, Available(State(h, f)),
           NEW x, x = TakeState(h, f)
    PROVE  /\ Sound(x, cs, run, loose, {f}, hand \union {State(h, f)})
           /\ x.future[f] # Dead /\ x.future[f].cell = h.future[f].cell
           /\ x.cont = h.cont /\ State(x, f) = Invalid
           /\ \A q \in Places : /\ (x.promise[q] = Dead <=> h.promise[q] = Dead)
                                /\ x.promise[q].sets = h.promise[q].sets
                                /\ h.promise[q].future # f => x.promise[q] = h.promise[q]
           /\ \A g \in Futures : g # f => x.future[g] = h.future[g]
<1> DEFINE p == h.future[f].promise
           s == State(h, f)
           hand2 == hand \union {s}
<1>1. /\ h \in Heaps /\ CellsSound(cs)
      /\ \A q \in Places : h.promise[q] # Dead =>
            h.promise[q] \in PromiseObjects /\ PromiseSound(h, cs, q, {})
      /\ \A g \in Futures : h.future[g] # Dead =>
            h.future[g] \in FutureObjects /\ FutureSound(h, cs, g, {})
  BY SoundObjects
<1>2. /\ p = None => s = h.future[f].own
      /\ p # None => /\ p \in Places /\ h.promise[p] # Dead
                     /\ h.promise[p].state = "own" /\ h.promise[p].task = None
                     /\ h.promise[p].future = f
                     /\ s = h.promise[p].own
      /\ s \in Outcomes /\ s = OutcomeIn(cs, h.future[f].cell)
  BY FutureState, StateFacts
<1>3. Distinct(h) /\ Tasked(h, run, loose) /\ Awaited(h, cs, run, loose)
      /\ ErrorsSound(h, cs, run, hand) /\ Promised(h, cs, {}) /\ Expected(h, cs, {})
  BY DEF Sound
<1>4. f # None  BY NameFacts
<1> HIDE DEF s, p
<1>5. CASE p = None
  <2> DEFINE r == OwnIs(h.future[f], Invalid)
  <2>1. r \in FutureObjects /\ r # Dead /\ r.own = Invalid /\ r.promise = None /\ r.cell = h.future[f].cell
    BY <1>1, <1>5, FutureFields, StateFacts, ZenonT(60) DEF p
  <2>2. x = WithFuture(h, f, r)  BY <1>5 DEF p, TakeState, WithFuture, OwnIs
  <2> HIDE DEF r
  <2>3. /\ x \in Heaps /\ x.future[f] = r
        /\ \A g \in Futures : g # f => x.future[g] = h.future[g]
        /\ x.promise = h.promise /\ x.cont = h.cont /\ x.tasks = h.tasks /\ x.seen = h.seen
    BY <1>1, <2>1, <2>2, WithFutureHeap
  <2>4. h.future[f].promise = None /\ h.future[f].own = s  BY <1>2, <1>5 DEF p
  <2>5. Distinct(x) /\ Tasked(x, run, loose)
    BY <1>3, <2>3 DEF Distinct, Tasked, Queued
  <2>6. Promised(x, cs, {f})
    <3> SUFFICES ASSUME NEW q \in Places, x.promise[q] # Dead PROVE PromiseSound(x, cs, q, {f})
      BY DEF Promised
    <3>1. /\ h.promise[q] \in PromiseObjects /\ PromiseSound(h, cs, q, {})
          /\ x.promise[q] = h.promise[q] /\ x.cont = h.cont
      BY ONLY <1>1, <2>3, q \in Places, x.promise[q] # Dead
    <3>2. h.promise[q].future # None =>
             /\ h.promise[q].future \in Futures /\ h.promise[q].future # f
             /\ x.future[h.promise[q].future] = h.future[h.promise[q].future]
      <4>1. h.promise[q].future # None => h.promise[q].future \in Futures
        BY ONLY <3>1 DEF PromiseObjects
      <4>2. q # None  BY NameFacts
      <4>3. h.promise[q].future # None => h.future[h.promise[q].future].promise = q
        BY ONLY <3>1 DEF PromiseSound
      <4> QED BY ONLY <2>3, <2>4, <4>1, <4>2, <4>3
    <3> QED BY ONLY SMTT(200), <3>1, <3>2 DEF PromiseSound
  <2>7. Expected(x, cs, {f})
    <3> SUFFICES ASSUME NEW g \in Futures, x.future[g] # Dead PROVE FutureSound(x, cs, g, {f})
      BY DEF Expected
    <3>1. CASE g = f  BY <1>1, <2>1, <2>3, <3>1 DEF FutureSound
    <3>2. CASE g # f  BY <1>1, <2>3, <3>2 DEF FutureSound
    <3> QED BY <3>1, <3>2
  <2>8. Awaited(x, cs, run, loose)  BY <1>3, <2>3 DEF Awaited, ContSound
  <2>9. \A e : HeldIn(h, run, e) => HeldIn(x, run, e) \/ e = s
    BY <2>1, <2>3, <2>4, ZenonT(60) DEF HeldIn, State, PromiseState
  <2>10. ErrorsSound(x, cs, run, hand2)  BY <1>3, <2>3, <2>9 DEF ErrorsSound
  <2>11. State(x, f) = Invalid  BY <2>1, <2>3 DEF State
  <2> QED BY <1>1, <2>1, <2>3, <2>5, <2>6, <2>7, <2>8, <2>10, <2>11 DEF Sound, s
<1>6. CASE p # None
  <2> DEFINE r == OwnIs(h.promise[p], Invalid)
  <2>0. p \in Places /\ h.promise[p] # Dead /\ h.promise[p].state = "own"
        /\ h.promise[p].future = f /\ h.promise[p].own = s
    BY <1>2, <1>6
  <2>1. /\ r \in PromiseObjects /\ r # Dead /\ r.own = Invalid /\ r.future = f
        /\ r.state = "own" /\ r.task = h.promise[p].task /\ r.cell = h.promise[p].cell
        /\ r.sets = h.promise[p].sets /\ r.given = h.promise[p].given
    BY <1>1, <2>0, PromiseFields, StateFacts
  <2>2. x = WithPromise(h, p, r)  BY <1>6, <2>0 DEF p, TakeState, WithPromise, OwnIs
  <2> HIDE DEF r
  <2>3. /\ x \in Heaps /\ x.promise[p] = r
        /\ \A q \in Places : q # p => x.promise[q] = h.promise[q]
        /\ x.future = h.future /\ x.cont = h.cont /\ x.tasks = h.tasks /\ x.seen = h.seen
    BY <1>1, <2>0, <2>1, <2>2, WithPromiseHeap
  <2>5. Distinct(x) /\ Tasked(x, run, loose)
    BY <1>3, <2>0, <2>1, <2>3 DEF Distinct, Tasked, Queued
  <2>6. Promised(x, cs, {f})
    <3> SUFFICES ASSUME NEW q \in Places, x.promise[q] # Dead PROVE PromiseSound(x, cs, q, {f})
      BY DEF Promised
    <3>1. CASE q = p
      <4>1. PromiseSound(h, cs, p, {})  BY <1>1, <2>0
      <4>2. cs[r.sets].outcome # Pending
        BY <1>2, <2>0, <2>1, <4>1, StateFacts DEF PromiseSound
      <4> QED BY <1>4, <2>0, <2>1, <2>3, <3>1, <4>1, <4>2, NameFacts DEF PromiseSound
    <3>2. CASE q # p  BY ZenonT(60), <1>1, <2>3, <3>2 DEF PromiseSound
    <3> QED BY <3>1, <3>2
  <2>7. Expected(x, cs, {f})
    <3> SUFFICES ASSUME NEW g \in Futures, x.future[g] # Dead PROVE FutureSound(x, cs, g, {f})
      BY DEF Expected
    <3> QED BY <1>1, <2>0, <2>1, <2>3 DEF FutureSound, FutureObjects
  <2>8. Awaited(x, cs, run, loose)
    <3>1. \A q \in Places : /\ x.promise[q] = Dead <=> h.promise[q] = Dead
                            /\ x.promise[q].sets = h.promise[q].sets
                            /\ x.promise[q].task = h.promise[q].task
                            /\ x.promise[q].state = h.promise[q].state
      BY <2>0, <2>1, <2>3
    <3> QED BY <1>3, <2>3, <3>1, NameFacts DEF Awaited, ContSound
  <2>9. \A e : HeldIn(h, run, e) => HeldIn(x, run, e) \/ e = s
    <3>1. \A g \in Futures : h.future[g] # Dead /\ g # f => State(x, g) = State(h, g)
      <4> SUFFICES ASSUME NEW g \in Futures, h.future[g] # Dead, g # f PROVE State(x, g) = State(h, g)
        OBVIOUS
      <4>1. h.future[g].promise # p  BY <1>1, <2>0, <1>6 DEF FutureSound
      <4>2. h.future[g].promise # None => h.future[g].promise \in Places
        BY <1>1 DEF FutureObjects
      <4> QED BY <2>3, <4>1, <4>2 DEF State, PromiseState
    <3>2. \A q \in Places : q # p => PromiseState(x, q) = PromiseState(h, q)
      BY <2>3 DEF PromiseState
    <3>3. PromiseState(h, p) = s /\ State(h, f) = s  BY <2>0 DEF PromiseState, s
    <3> QED BY <2>3, <3>1, <3>2, <3>3 DEF HeldIn
  <2>10. ErrorsSound(x, cs, run, hand2)  BY <1>3, <2>3, <2>9 DEF ErrorsSound
  <2>11. State(x, f) = Invalid
    BY <1>6, <2>1, <2>3, ZenonT(60) DEF State, PromiseState, p
  <2>12. /\ \A q \in Places : /\ x.promise[q] = Dead <=> h.promise[q] = Dead
                              /\ x.promise[q].sets = h.promise[q].sets
                              /\ h.promise[q].future # f => x.promise[q] = h.promise[q]
         /\ x.future[f].cell = h.future[f].cell
    BY <2>0, <2>1, <2>3
  <2> QED BY <1>1, <2>3, <2>5, <2>6, <2>7, <2>8, <2>10, <2>11, <2>12 DEF Sound, s
<1> QED BY <1>5, <1>6

LEMMA DetachHeap ==
    ASSUME NEW h \in Heaps, NEW f \in Futures, h.future[f] \in FutureObjects,
           \A q \in Places : h.promise[q] # Dead => h.promise[q] \in PromiseObjects,
           h.future[f].promise # None => h.promise[h.future[f].promise] # Dead,
           NEW x, x = Detach(h, f)
    PROVE  /\ x \in Heaps
           /\ \A q \in Places : x.promise[q] = IF q = h.future[f].promise
                                               THEN FutureIs(h.promise[q], None) ELSE h.promise[q]
           /\ x.future[f] = PromiseIs(h.future[f], None)
           /\ \A g \in Futures : g # f => x.future[g] = h.future[g]
           /\ x.cont = h.cont /\ x.tasks = h.tasks /\ x.seen = h.seen
<1> DEFINE promises == [q \in Places |-> IF q = h.future[f].promise
                                         THEN FutureIs(h.promise[q], None) ELSE h.promise[q]]
           y == [h EXCEPT !.promise = promises]
           r == PromiseIs(h.future[f], None)
<1>1. r \in FutureObjects  BY FutureFields
<1>2. promises \in [Places -> PromiseObjects \union {Dead}]
  <2>1. \A q \in Places : h.promise[q] \in PromiseObjects \union {Dead}
    BY DEF Heaps
  <2>2. h.future[f].promise \in Places \union {None}  BY FutureFields
  <2> QED BY <2>1, <2>2, PromiseFields, NameFacts
<1>3. x = WithFuture(y, f, r)  BY DEF Detach, WithFuture, PromiseIs, FutureIs
<1>4. \A q \in Places : promises[q] = IF q = h.future[f].promise
                                      THEN FutureIs(h.promise[q], None) ELSE h.promise[q]
  OBVIOUS
<1> HIDE DEF promises, r
<1>5. /\ y \in Heaps /\ y.promise = promises /\ y.future = h.future /\ y.cont = h.cont
      /\ y.tasks = h.tasks /\ y.seen = h.seen
  BY <1>2 DEF Heaps
<1> HIDE DEF y
<1>6. /\ x \in Heaps /\ x.future[f] = r
      /\ \A g \in Futures : g # f => x.future[g] = y.future[g]
      /\ x.promise = y.promise /\ x.cont = y.cont /\ x.tasks = y.tasks /\ x.seen = y.seen
  BY <1>1, <1>3, <1>5, WithFutureHeap
<1> QED BY <1>4, <1>5, <1>6 DEF r

(* A future dies; its promise, if it has one, keeps the outcome.           *)
LEMMA GoneSound ==
    ASSUME NEW h, NEW cs, NEW run, NEW loose, NEW hand, NEW f \in Futures, NEW spent, spent \subseteq {f},
           Sound(h, cs, run, loose, spent, hand), h.future[f] # Dead,
           NEW x, x = WithFuture(Detach(h, f), f, Dead)
    PROVE  /\ Sound(x, cs, run, loose, {}, hand \union {State(h, f)})
           /\ x.cont = h.cont /\ x.future[f] = Dead
           /\ \A g \in Futures : g # f => x.future[g] = h.future[g]
           /\ \A q \in Places : x.promise[q] = IF q = h.future[f].promise
                                               THEN FutureIs(h.promise[q], None) ELSE h.promise[q]
<1> DEFINE p == h.future[f].promise
           s == State(h, f)
           hand2 == hand \union {s}
           y == Detach(h, f)
<1>1. /\ h \in Heaps /\ CellsSound(cs)
      /\ \A q \in Places : h.promise[q] # Dead =>
            h.promise[q] \in PromiseObjects /\ PromiseSound(h, cs, q, spent)
      /\ \A g \in Futures : h.future[g] # Dead =>
            h.future[g] \in FutureObjects /\ FutureSound(h, cs, g, spent)
  BY SoundObjects
<1>2. /\ p = None => s = h.future[f].own
      /\ p # None => /\ p \in Places /\ h.promise[p] # Dead
                     /\ h.promise[p].state = "own"
                     /\ h.promise[p].future = f
                     /\ s = h.promise[p].own
      /\ s \in States
  BY FutureState
<1>3. Distinct(h) /\ Tasked(h, run, loose) /\ Awaited(h, cs, run, loose)
      /\ ErrorsSound(h, cs, run, hand)
  BY DEF Sound
<1>4. f # None /\ \A q \in Places : q # None  BY NameFacts
<1>5. /\ x \in Heaps /\ x.future[f] = Dead
      /\ \A g \in Futures : g # f => x.future[g] = h.future[g]
      /\ \A q \in Places : x.promise[q] = IF q = p THEN FutureIs(h.promise[q], None) ELSE h.promise[q]
      /\ x.cont = h.cont /\ x.tasks = h.tasks /\ x.seen = h.seen
  <2>1. /\ y \in Heaps
        /\ \A q \in Places : y.promise[q] = IF q = p THEN FutureIs(h.promise[q], None) ELSE h.promise[q]
        /\ \A g \in Futures : g # f => y.future[g] = h.future[g]
        /\ y.cont = h.cont /\ y.tasks = h.tasks /\ y.seen = h.seen
    BY <1>1, <1>2, DetachHeap
  <2> HIDE DEF y, p
  <2>2. /\ x \in Heaps /\ x.future[f] = Dead
        /\ \A g \in Futures : g # f => x.future[g] = y.future[g]
        /\ x.promise = y.promise /\ x.cont = y.cont /\ x.tasks = y.tasks /\ x.seen = y.seen
    BY <2>1, WithFutureHeap DEF y
  <2> QED BY <2>1, <2>2
<1> HIDE DEF s, p
<1>6. \A q \in Places :
         /\ x.promise[q] = Dead <=> h.promise[q] = Dead
         /\ h.promise[q] # Dead =>
               /\ x.promise[q].state = h.promise[q].state /\ x.promise[q].own = h.promise[q].own
               /\ x.promise[q].task = h.promise[q].task /\ x.promise[q].cell = h.promise[q].cell
               /\ x.promise[q].sets = h.promise[q].sets /\ x.promise[q].given = h.promise[q].given
               /\ x.promise[q].future = IF q = p THEN None ELSE h.promise[q].future
  <2> SUFFICES ASSUME NEW q \in Places PROVE
         /\ x.promise[q] = Dead <=> h.promise[q] = Dead
         /\ h.promise[q] # Dead =>
               /\ x.promise[q].state = h.promise[q].state /\ x.promise[q].own = h.promise[q].own
               /\ x.promise[q].task = h.promise[q].task /\ x.promise[q].cell = h.promise[q].cell
               /\ x.promise[q].sets = h.promise[q].sets /\ x.promise[q].given = h.promise[q].given
               /\ x.promise[q].future = IF q = p THEN None ELSE h.promise[q].future
    OBVIOUS
  <2>1. q = p => h.promise[q] # Dead  BY <1>2, <1>4
  <2>2. CASE q = p
    <3>1. h.promise[q] \in PromiseObjects /\ x.promise[q] = FutureIs(h.promise[q], None)
      BY <1>1, <1>5, <2>1, <2>2
    <3> QED BY <2>1, <2>2, <3>1, PromiseFields
  <2>3. CASE q # p  BY <1>5, <2>3
  <2> QED BY <2>2, <2>3
<1>7. Distinct(x) /\ Tasked(x, run, loose)
  BY <1>3, <1>5, <1>6 DEF Distinct, Tasked, Queued
<1>8. Promised(x, cs, {})
  <2> SUFFICES ASSUME NEW q \in Places, x.promise[q] # Dead PROVE PromiseSound(x, cs, q, {})
    BY DEF Promised
  <2>1. PromiseSound(h, cs, q, spent) /\ h.promise[q] \in PromiseObjects
    BY <1>1, <1>6
  <2>2. h.promise[q].future = f => q = p  BY <1>4, <2>1 DEF PromiseSound, p
  <2>3. x.promise[q].future # None =>
           /\ x.promise[q].state = "own" /\ x.promise[q].given /\ x.promise[q].own # Invalid
           /\ x.future[x.promise[q].future] # Dead /\ x.future[x.promise[q].future].promise = q
    BY <1>5, <1>6, <2>1, <2>2 DEF PromiseSound, PromiseObjects
  <2> QED BY ZenonT(60), <1>5, <1>6, <2>1, <2>3 DEF PromiseSound
<1>9. Expected(x, cs, {})
  <2> SUFFICES ASSUME NEW g \in Futures, x.future[g] # Dead PROVE FutureSound(x, cs, g, {})
    BY DEF Expected
  <2>1. g # f /\ x.future[g] = h.future[g] /\ FutureSound(h, cs, g, spent) /\ h.future[g] \in FutureObjects
    BY <1>1, <1>5
  <2>2. h.future[g].promise # None => h.future[g].promise # p /\ h.future[g].promise \in Places
    BY <1>2, <2>1 DEF FutureSound, FutureObjects
  <2> QED BY <1>6, <2>1, <2>2 DEF FutureSound
<1>10. Awaited(x, cs, run, loose)
  BY <1>3, <1>5, <1>6, NameFacts DEF Awaited, ContSound
<1>11. \A e : HeldIn(h, run, e) => HeldIn(x, run, e) \/ e = s
  <2>2. \A q \in Places : h.promise[q] # Dead => PromiseState(x, q) = PromiseState(h, q)
    BY <1>5, <1>6 DEF PromiseState
  <2>1. \A g \in Futures : h.future[g] # Dead /\ g # f => x.future[g] # Dead /\ State(x, g) = State(h, g)
    <3> SUFFICES ASSUME NEW g \in Futures, h.future[g] # Dead, g # f
                 PROVE  x.future[g] # Dead /\ State(x, g) = State(h, g)
      OBVIOUS
    <3>1. h.future[g].promise # None => h.future[g].promise \in Places /\ h.promise[h.future[g].promise] # Dead
      BY <1>1 DEF FutureObjects, FutureSound
    <3> QED BY <1>5, <2>2, <3>1 DEF State
  <2>3. State(h, f) = s  BY DEF s
  <2> QED BY <1>5, <1>6, <2>1, <2>2, <2>3 DEF HeldIn
<1>12. ErrorsSound(x, cs, run, hand2)  BY <1>3, <1>5, <1>11 DEF ErrorsSound
<1> QED BY <1>1, <1>5, <1>7, <1>8, <1>9, <1>10, <1>12 DEF Sound, p, s

(* x is h without the future at f.                                         *)
Without(h, x, f) ==
    /\ x.cont = h.cont /\ x.future[f] = Dead
    /\ \A g \in Futures : g # f => x.future[g] = h.future[g]
    /\ \A q \in Places : x.promise[q] = IF q = h.future[f].promise
                                        THEN FutureIs(h.promise[q], None) ELSE h.promise[q]

LEMMA DropFutureSound ==
    ASSUME NEW h, NEW cs, NEW run, NEW loose, NEW hand, NEW f \in Futures, NEW spent, spent \subseteq {f},
           Sound(h, cs, run, loose, spent, hand), h.future[f] # Dead,
           NEW x, x = DropFuture(h, f)
    PROVE  Sound(x, cs, run, loose, {}, hand) /\ Without(h, x, f)
<1> DEFINE y == WithFuture(Detach(h, f), f, Dead)
           s == State(h, f)
<1>0. y = WithFuture(Detach(h, f), f, Dead) /\ s = State(h, f)  OBVIOUS
<1>2. x = Report(y, s)  BY DEF DropFuture, WithFuture
<1>3. s \in States  BY FutureState
<1> HIDE DEF y, s
<1>1. /\ Sound(y, cs, run, loose, {}, hand \union {s})
      /\ y.cont = h.cont /\ y.future[f] = Dead
      /\ \A g \in Futures : g # f => y.future[g] = h.future[g]
      /\ \A q \in Places : y.promise[q] = IF q = h.future[f].promise
                                          THEN FutureIs(h.promise[q], None) ELSE h.promise[q]
  BY ONLY <1>0, GoneSound, Sound(h, cs, run, loose, spent, hand), h.future[f] # Dead, spent \subseteq {f}, f \in Futures, SMTT(200)
<1>4. Sound(x, cs, run, loose, {}, hand \union {s}) /\ (Failed(s) => s \in x.seen)
  BY <1>1, <1>2, <1>3, ReportSound
<1>5. Sound(x, cs, run, loose, {}, hand)  BY <1>4, HandSound
<1>6. x.promise = y.promise /\ x.future = y.future /\ x.cont = y.cont
  <2>1. y \in Heaps  BY <1>1 DEF Sound
  <2> QED BY <1>2, <2>1 DEF Report, Heaps
<1>7. Without(h, x, f)  BY ONLY <1>1, <1>6 DEF Without
<1> QED BY <1>5, <1>7

-----------------------------------------------------------------------------
NewFuture(p, s, k) == [promise |-> p, own |-> s, cell |-> k]

LEMMA NewFutureFields ==
    ASSUME NEW p \in Places \union {None}, NEW s \in States, NEW k \in Numbers,
           NEW r, r = NewFuture(p, s, k)
    PROVE  r \in FutureObjects /\ r # Dead /\ r.promise = p /\ r.own = s /\ r.cell = k
<1>1. r \in FutureObjects /\ r.promise = p /\ r.own = s /\ r.cell = k
  BY DEF FutureObjects, NewFuture
<1> QED BY <1>1, DeadFacts

LEMMA GetFutureSound ==
    ASSUME NEW h, NEW cs, NEW run, NEW loose, NEW hand,
           Sound(h, cs, run, loose, {}, hand),
           NEW p \in Places, h.promise[p] # Dead,
           h.promise[p].future = None, h.promise[p].state = "own", h.promise[p].own # Invalid,
           NEW f \in Futures, h.future[f] = Dead,
           NEW r, r = FutureIs(GivenIs(h.promise[p]), f),
           NEW t, t = NewFuture(p, Pending, h.promise[p].cell),
           NEW x, x = WithFuture(WithPromise(h, p, r), f, t)
    PROVE  Sound(x, cs, run, loose, {}, hand)
<1> DEFINE y == WithPromise(h, p, r)
           e == GivenIs(h.promise[p])
<1>1. /\ h \in Heaps /\ CellsSound(cs)
      /\ \A q \in Places : h.promise[q] # Dead =>
            h.promise[q] \in PromiseObjects /\ PromiseSound(h, cs, q, {})
      /\ \A g \in Futures : h.future[g] # Dead =>
            h.future[g] \in FutureObjects /\ FutureSound(h, cs, g, {})
  BY SoundObjects
<1>2. h.promise[p] \in PromiseObjects /\ PromiseSound(h, cs, p, {})  BY <1>1
<1>3. /\ r \in PromiseObjects /\ r # Dead /\ r.own = h.promise[p].own /\ r.future = f
      /\ r.state = "own" /\ r.task = h.promise[p].task /\ r.cell = h.promise[p].cell
      /\ r.sets = h.promise[p].sets /\ r.given
  <2>1. /\ e \in PromiseObjects /\ e # Dead /\ e.future = None /\ e.own = h.promise[p].own
        /\ e.state = "own" /\ e.task = h.promise[p].task /\ e.cell = h.promise[p].cell
        /\ e.sets = h.promise[p].sets /\ e.given
    BY <1>2, PromiseFields
  <2>2. r = FutureIs(e, f)  OBVIOUS
  <2> HIDE DEF e
  <2> QED BY <2>1, <2>2, PromiseFields
<1>4. t \in FutureObjects /\ t # Dead /\ t.promise = p /\ t.own = Pending /\ t.cell = h.promise[p].cell
  <2>1. h.promise[p].cell \in Numbers  BY <1>2 DEF PromiseObjects
  <2> QED BY <2>1, NewFutureFields, StateFacts
<1>5. /\ x \in Heaps /\ x.future[f] = t /\ x.promise[p] = r
      /\ \A g \in Futures : g # f => x.future[g] = h.future[g]
      /\ \A q \in Places : q # p => x.promise[q] = h.promise[q]
      /\ x.cont = h.cont /\ x.tasks = h.tasks /\ x.seen = h.seen
  <2>1. /\ y \in Heaps /\ y.promise[p] = r
        /\ \A q \in Places : q # p => y.promise[q] = h.promise[q]
        /\ y.future = h.future /\ y.cont = h.cont /\ y.tasks = h.tasks /\ y.seen = h.seen
    BY ONLY <1>1, <1>3, p \in Places, WithPromiseHeap
  <2>2. x = WithFuture(y, f, t)  OBVIOUS
  <2> HIDE DEF y
  <2>3. /\ x \in Heaps /\ x.future[f] = t
        /\ \A g \in Futures : g # f => x.future[g] = y.future[g]
        /\ x.promise = y.promise /\ x.cont = y.cont /\ x.tasks = y.tasks /\ x.seen = y.seen
    BY ONLY <1>4, <2>1, <2>2, f \in Futures, WithFutureHeap
  <2> QED BY ONLY <2>1, <2>3
<1>6. Distinct(h) /\ Tasked(h, run, loose) /\ Awaited(h, cs, run, loose)
      /\ ErrorsSound(h, cs, run, hand)
  BY DEF Sound
<1>0. p \in Places /\ f \in Futures /\ h.promise[p] # Dead /\ h.future[f] = Dead
      /\ h.promise[p].future = None /\ h.promise[p].state = "own"
  OBVIOUS
<1>7. Distinct(x) /\ Tasked(x, run, loose)
  <2>1. \A q \in Places : /\ x.promise[q] = Dead <=> h.promise[q] = Dead
                          /\ x.promise[q].sets = h.promise[q].sets
    BY ONLY <1>0, <1>3, <1>5
  <2>2. Distinct(x)  BY ONLY <1>6, <2>1 DEF Distinct
  <2> QED BY ONLY <1>5, <1>6, <2>2 DEF Tasked, Queued
<1>8. Promised(x, cs, {})
  <2> SUFFICES ASSUME NEW q \in Places, x.promise[q] # Dead PROVE PromiseSound(x, cs, q, {})
    BY DEF Promised
  <2>1. CASE q = p
    BY ONLY <1>2, <1>3, <1>4, <1>5, <2>1, NameFacts, h.promise[p].state = "own", h.promise[p].own # Invalid DEF PromiseSound
  <2>2. CASE q # p
    <3>1. h.promise[q] \in PromiseObjects /\ PromiseSound(h, cs, q, {}) /\ x.promise[q] = h.promise[q]
      BY <1>1, <1>5, <2>2
    <3>2. h.promise[q].future # None => h.promise[q].future # f /\ h.promise[q].future \in Futures
      BY <3>1 DEF PromiseSound, PromiseObjects
    <3> QED BY ONLY ZenonT(60), <1>5, <3>1, <3>2 DEF PromiseSound
  <2> QED BY <2>1, <2>2
<1>9. Expected(x, cs, {})
  <2> SUFFICES ASSUME NEW g \in Futures, x.future[g] # Dead PROVE FutureSound(x, cs, g, {})
    BY DEF Expected
  <2>1. CASE g = f
    <3>1. h.promise[p].cell \in DOMAIN cs /\ p # None
      BY ONLY <1>0, <1>2, NameFacts DEF PromiseSound
    <3> QED BY ONLY <1>3, <1>4, <1>5, <2>1, <3>1 DEF FutureSound
  <2>2. CASE g # f
    <3>1. h.future[g] \in FutureObjects /\ FutureSound(h, cs, g, {}) /\ x.future[g] = h.future[g]
      BY <1>1, <1>5, <2>2
    <3>2. h.future[g].promise # None => h.future[g].promise # p /\ h.future[g].promise \in Places
      BY <3>1, NameFacts DEF FutureSound, FutureObjects
    <3> QED BY ONLY SMTT(200), <1>5, <3>1, <3>2 DEF FutureSound
  <2> QED BY <2>1, <2>2
<1>10. Awaited(x, cs, run, loose)
  <2>1. \A q \in Places : /\ x.promise[q] = Dead <=> h.promise[q] = Dead
                          /\ h.promise[q] # Dead =>
                                /\ x.promise[q].sets = h.promise[q].sets
                                /\ x.promise[q].task = h.promise[q].task
                                /\ x.promise[q].state = h.promise[q].state
    BY <1>3, <1>5
  <2> QED BY ONLY <1>5, <1>6, <2>1, NameFacts DEF Awaited, ContSound
<1>11. \A e1 : HeldIn(h, run, e1) => HeldIn(x, run, e1)
  <2>1. \A q \in Places : h.promise[q] # Dead =>
           x.promise[q] # Dead /\ PromiseState(x, q) = PromiseState(h, q) /\ x.promise[q].state = h.promise[q].state
    <3> SUFFICES ASSUME NEW q \in Places, h.promise[q] # Dead
                 PROVE  /\ x.promise[q] # Dead /\ PromiseState(x, q) = PromiseState(h, q)
                        /\ x.promise[q].state = h.promise[q].state
      OBVIOUS
    <3>1. /\ x.promise[q] # Dead /\ x.promise[q].state = h.promise[q].state
          /\ x.promise[q].own = h.promise[q].own
      <4>1. CASE q = p  BY ONLY <1>0, <1>3, <1>5, <4>1
      <4>2. CASE q # p  BY ONLY <1>5, <4>2, q \in Places, h.promise[q] # Dead
      <4> QED BY ONLY <4>1, <4>2
    <3> QED BY ONLY <1>5, <3>1 DEF PromiseState
  <2>2. \A g \in Futures : h.future[g] # Dead => x.future[g] # Dead /\ State(x, g) = State(h, g)
    <3> SUFFICES ASSUME NEW g \in Futures, h.future[g] # Dead
                 PROVE  x.future[g] # Dead /\ State(x, g) = State(h, g)
      OBVIOUS
    <3>1. h.future[g].promise # None => h.future[g].promise \in Places /\ h.promise[h.future[g].promise] # Dead
      BY <1>1 DEF FutureObjects, FutureSound
    <3>2. g # f /\ x.future[g] = h.future[g]  BY <1>5
    <3> QED BY ONLY <1>0, <2>1, <3>1, <3>2, h.future[g] # Dead DEF State
  <2> QED BY ONLY SMTT(200), <1>5, <2>1, <2>2 DEF HeldIn
<1>12. ErrorsSound(x, cs, run, hand)  BY <1>5, <1>6, <1>11 DEF ErrorsSound
<1> QED BY <1>1, <1>5, <1>7, <1>8, <1>9, <1>10, <1>12 DEF Sound

(* A future that is ready from the start.                                  *)
LEMMA ReadyFutureSound ==
    ASSUME NEW h, NEW cs, NEW run, NEW loose, NEW hand,
           Sound(h, cs, run, loose, {}, hand),
           NEW f \in Futures, h.future[f] = Dead,
           NEW k \in DOMAIN cs, OutcomeIn(cs, k) \in Outcomes,
           NEW t, t = NewFuture(None, OutcomeIn(cs, k), k),
           NEW x, x = WithFuture(h, f, t)
    PROVE  /\ Sound(x, cs, run, loose, {}, hand \ {OutcomeIn(cs, k)})
           /\ x.promise = h.promise /\ x.cont = h.cont
           /\ \A g \in Futures : g # f => x.future[g] = h.future[g]
<1> DEFINE s == OutcomeIn(cs, k)
           left == hand \ {s}
<1>1. /\ h \in Heaps /\ CellsSound(cs)
      /\ \A q \in Places : h.promise[q] # Dead =>
            h.promise[q] \in PromiseObjects /\ PromiseSound(h, cs, q, {})
      /\ \A g \in Futures : h.future[g] # Dead =>
            h.future[g] \in FutureObjects /\ FutureSound(h, cs, g, {})
  BY SoundObjects
<1>2. t \in FutureObjects /\ t # Dead /\ t.promise = None /\ t.own = s /\ t.cell = k
  <2>1. k \in Numbers
    BY ONLY <1>1, k \in DOMAIN cs, SlotsAssumption DEF CellsSound, Numbers
  <2>2. s \in States  BY StateFacts
  <2>3. t = NewFuture(None, s, k)  OBVIOUS
  <2> HIDE DEF s
  <2>4. None \in Places \union {None}  OBVIOUS
  <2>5. t = [promise |-> None, own |-> s, cell |-> k]  BY ONLY <2>3 DEF NewFuture
  <2>6. t \in FutureObjects  BY ONLY <2>1, <2>2, <2>4, <2>5 DEF FutureObjects
  <2>7. t.promise = None /\ t.own = s /\ t.cell = k  BY ONLY <2>5
  <2>8. t # Dead  BY ONLY <2>6, DeadFacts
  <2> QED BY ONLY <2>6, <2>7, <2>8
<1> HIDE DEF s
<1>3. /\ x \in Heaps /\ x.future[f] = t
      /\ \A g \in Futures : g # f => x.future[g] = h.future[g]
      /\ x.promise = h.promise /\ x.cont = h.cont /\ x.tasks = h.tasks /\ x.seen = h.seen
  BY <1>1, <1>2, WithFutureHeap
<1>4. Distinct(h) /\ Tasked(h, run, loose) /\ Awaited(h, cs, run, loose)
      /\ ErrorsSound(h, cs, run, hand)
  BY DEF Sound
<1>5. Distinct(x) /\ Tasked(x, run, loose) /\ Awaited(x, cs, run, loose)
  BY <1>3, <1>4 DEF Distinct, Tasked, Queued, Awaited, ContSound
<1>6. Promised(x, cs, {})
  <2> SUFFICES ASSUME NEW q \in Places, x.promise[q] # Dead PROVE PromiseSound(x, cs, q, {})
    BY DEF Promised
  <2>1. h.promise[q] \in PromiseObjects /\ PromiseSound(h, cs, q, {}) /\ x.promise[q] = h.promise[q]
    BY <1>1, <1>3
  <2>2. h.promise[q].future # None => h.promise[q].future # f /\ h.promise[q].future \in Futures
    BY <2>1 DEF PromiseSound, PromiseObjects
  <2> QED BY SMTT(200), <1>3, <2>1, <2>2 DEF PromiseSound
<1>7. Expected(x, cs, {})
  <2> SUFFICES ASSUME NEW g \in Futures, x.future[g] # Dead PROVE FutureSound(x, cs, g, {})
    BY DEF Expected
  <2>1. CASE g = f  BY <1>2, <1>3, <2>1, StateFacts DEF FutureSound, s
  <2>2. CASE g # f
    <3>1. FutureSound(h, cs, g, {}) /\ x.future[g] = h.future[g]
      BY <1>1, <1>3, <2>2
    <3> QED BY <1>3, <3>1 DEF FutureSound
  <2> QED BY <2>1, <2>2
<1>8. \A e : HeldIn(h, run, e) \/ e = s => HeldIn(x, run, e)
  <2>1. \A q \in Places : PromiseState(x, q) = PromiseState(h, q)
    BY ONLY <1>3 DEF PromiseState
  <2>2. \A g \in Futures : h.future[g] # Dead => x.future[g] # Dead /\ State(x, g) = State(h, g)
    <3> SUFFICES ASSUME NEW g \in Futures, h.future[g] # Dead
                 PROVE  x.future[g] # Dead /\ State(x, g) = State(h, g)
      OBVIOUS
    <3>1. h.future[g].promise # None => h.future[g].promise \in Places
      BY ONLY <1>1, h.future[g] # Dead DEF FutureObjects
    <3>2. g # f /\ x.future[g] = h.future[g]  BY <1>3
    <3> QED BY ONLY <2>1, <3>1, <3>2, h.future[g] # Dead DEF State
  <2>3. x.future[f] # Dead /\ State(x, f) = s  BY ONLY <1>2, <1>3 DEF State
  <2>4. x.promise = h.promise /\ x.cont = h.cont /\ f \in Futures  BY <1>3
  <2>5. \A e : HeldIn(h, run, e) => HeldIn(x, run, e)
    BY ONLY <2>1, <2>2, <2>4 DEF HeldIn
  <2>6. HeldIn(x, run, s)  BY ONLY <2>3, <2>4 DEF HeldIn
  <2> QED BY ONLY <2>5, <2>6
<1>9. ErrorsSound(x, cs, run, left)  BY <1>3, <1>4, <1>8 DEF ErrorsSound
<1> QED BY <1>1, <1>3, <1>5, <1>6, <1>7, <1>9 DEF Sound, s

-----------------------------------------------------------------------------
LEMMA MoveFutureHeap ==
    ASSUME NEW h \in Heaps, NEW f \in Futures, NEW g \in Futures, f # g,
           h.future[f] \in FutureObjects, NEW p, p = h.future[f].promise,
           p # None => p \in Places /\ h.promise[p] \in PromiseObjects,
           NEW x, x = MoveFuture(h, f, g)
    PROVE  /\ x \in Heaps /\ x.future[g] = h.future[f] /\ x.future[f] = Dead
           /\ \A e \in Futures : e # f /\ e # g => x.future[e] = h.future[e]
           /\ p # None => x.promise[p] = FutureIs(h.promise[p], g)
           /\ \A q \in Places : q # p => x.promise[q] = h.promise[q]
           /\ x.cont = h.cont /\ x.tasks = h.tasks /\ x.seen = h.seen
<1> DEFINE a == WithFuture(h, g, h.future[f])
           b == WithFuture(a, f, Dead)
           r == FutureIs(h.promise[p], g)
<1>1. x = IF p = None THEN b ELSE [b EXCEPT !.promise[p].future = g]
  BY DEF MoveFuture, WithFuture
<1>2. /\ a \in Heaps /\ a.future[g] = h.future[f]
      /\ \A e \in Futures : e # g => a.future[e] = h.future[e]
      /\ a.promise = h.promise /\ a.cont = h.cont /\ a.tasks = h.tasks /\ a.seen = h.seen
  BY WithFutureHeap
<1> HIDE DEF a
<1>3. /\ b \in Heaps /\ b.future[f] = Dead
      /\ \A e \in Futures : e # f => b.future[e] = a.future[e]
      /\ b.promise = a.promise /\ b.cont = a.cont /\ b.tasks = a.tasks /\ b.seen = a.seen
  BY <1>2, WithFutureHeap
<1> HIDE DEF b
<1>4. CASE p = None  BY <1>1, <1>2, <1>3, <1>4, NameFacts
<1>5. CASE p # None
  <2>1. r \in PromiseObjects  BY <1>5, PromiseFields
  <2>2. x = WithPromise(b, p, r)
    BY <1>1, <1>2, <1>3, <1>5 DEF WithPromise, FutureIs
  <2> HIDE DEF r
  <2>3. /\ x \in Heaps /\ x.promise[p] = r
        /\ \A q \in Places : q # p => x.promise[q] = b.promise[q]
        /\ x.future = b.future /\ x.cont = b.cont /\ x.tasks = b.tasks /\ x.seen = b.seen
    <3>1. p \in Places /\ r \in PromiseObjects \union {Dead}  BY <1>5, <2>1
    <3> QED BY ONLY <1>3, <2>2, <3>1, WithPromiseHeap
  <2> QED BY <1>2, <1>3, <2>3 DEF r
<1> QED BY <1>4, <1>5

LEMMA MovePromiseHeap ==
    ASSUME NEW h \in Heaps, NEW p \in Places, NEW q \in Places, p # q,
           h.promise[p] \in PromiseObjects, NEW f, f = h.promise[p].future,
           f # None => f \in Futures /\ h.future[f] \in FutureObjects,
           NEW x, x = MovePromise(h, p, q)
    PROVE  /\ x \in Heaps /\ x.promise[q] = h.promise[p] /\ x.promise[p] = Dead
           /\ \A r \in Places : r # p /\ r # q => x.promise[r] = h.promise[r]
           /\ f # None => x.future[f] = PromiseIs(h.future[f], q)
           /\ \A g \in Futures : g # f => x.future[g] = h.future[g]
           /\ x.cont = h.cont /\ x.tasks = h.tasks /\ x.seen = h.seen
<1> DEFINE a == WithPromise(h, q, h.promise[p])
           b == WithPromise(a, p, Dead)
           r == PromiseIs(h.future[f], q)
<1>1. x = IF f = None THEN b ELSE [b EXCEPT !.future[f].promise = q]
  BY DEF MovePromise, WithPromise
<1>2. /\ a \in Heaps /\ a.promise[q] = h.promise[p]
      /\ \A e \in Places : e # q => a.promise[e] = h.promise[e]
      /\ a.future = h.future /\ a.cont = h.cont /\ a.tasks = h.tasks /\ a.seen = h.seen
  BY WithPromiseHeap
<1> HIDE DEF a
<1>3. /\ b \in Heaps /\ b.promise[p] = Dead
      /\ \A e \in Places : e # p => b.promise[e] = a.promise[e]
      /\ b.future = a.future /\ b.cont = a.cont /\ b.tasks = a.tasks /\ b.seen = a.seen
  BY <1>2, WithPromiseHeap
<1> HIDE DEF b
<1>4. CASE f = None  BY <1>1, <1>2, <1>3, <1>4, NameFacts
<1>5. CASE f # None
  <2>1. r \in FutureObjects  BY <1>5, FutureFields
  <2>2. x = WithFuture(b, f, r)  BY <1>1, <1>2, <1>3, <1>5 DEF WithFuture, PromiseIs
  <2> HIDE DEF r
  <2>3. /\ x \in Heaps /\ x.future[f] = r
        /\ \A g \in Futures : g # f => x.future[g] = b.future[g]
        /\ x.promise = b.promise /\ x.cont = b.cont /\ x.tasks = b.tasks /\ x.seen = b.seen
    <3>1. f \in Futures /\ r \in FutureObjects \union {Dead}  BY <1>5, <2>1
    <3> QED BY ONLY <1>3, <2>2, <3>1, WithFutureHeap
  <2> QED BY <1>2, <1>3, <2>3 DEF r
<1> QED BY <1>4, <1>5

LEMMA MoveFutureSound ==
    ASSUME NEW h, NEW cs, NEW run, NEW loose, NEW hand,
           Sound(h, cs, run, loose, {}, hand),
           NEW f \in Futures, h.future[f] # Dead, NEW g \in Futures, h.future[g] = Dead,
           NEW x, x = MoveFuture(h, f, g)
    PROVE  Sound(x, cs, run, loose, {}, hand)
<1> DEFINE p == h.future[f].promise
<1>0. f # g /\ h.future[f] # Dead /\ h.future[g] = Dead /\ f \in Futures /\ g \in Futures
  OBVIOUS
<1>1. /\ h \in Heaps /\ CellsSound(cs)
      /\ \A q \in Places : h.promise[q] # Dead =>
            h.promise[q] \in PromiseObjects /\ PromiseSound(h, cs, q, {})
      /\ \A e \in Futures : h.future[e] # Dead =>
            h.future[e] \in FutureObjects /\ FutureSound(h, cs, e, {})
  BY SoundObjects
<1>2. p # None => /\ p \in Places /\ h.promise[p] # Dead /\ h.promise[p] \in PromiseObjects
                  /\ h.promise[p].future = f
  BY <1>1, FutureState
<1>3. h.future[f] \in FutureObjects /\ FutureSound(h, cs, f, {})  BY <1>1
<1>4. /\ x \in Heaps /\ x.future[g] = h.future[f] /\ x.future[f] = Dead
      /\ \A e \in Futures : e # f /\ e # g => x.future[e] = h.future[e]
      /\ p # None => x.promise[p] = FutureIs(h.promise[p], g)
      /\ \A q \in Places : q # p => x.promise[q] = h.promise[q]
      /\ x.cont = h.cont /\ x.tasks = h.tasks /\ x.seen = h.seen
  <2>1. p = h.future[f].promise  OBVIOUS
  <2> HIDE DEF p
  <2> QED BY <1>0, <1>1, <1>2, <1>3, <2>1, MoveFutureHeap
<1>5. p # None => LET e == h.promise[p]
                      r == x.promise[p] IN
         /\ r \in PromiseObjects /\ r # Dead /\ r.own = e.own /\ r.future = g
         /\ r.state = e.state /\ r.task = e.task /\ r.cell = e.cell
         /\ r.sets = e.sets /\ r.given = e.given
  <2> SUFFICES ASSUME p # None
               PROVE  LET e == h.promise[p]
                          r == x.promise[p] IN
                      /\ r \in PromiseObjects /\ r # Dead /\ r.own = e.own /\ r.future = g
                      /\ r.state = e.state /\ r.task = e.task /\ r.cell = e.cell
                      /\ r.sets = e.sets /\ r.given = e.given
    OBVIOUS
  <2>1. h.promise[p] \in PromiseObjects /\ x.promise[p] = FutureIs(h.promise[p], g)
    BY ONLY <1>2, <1>4, p # None
  <2>2. g \in Futures \union {None}  BY ONLY <1>0
  <2> HIDE DEF p
  <2> QED BY ONLY <2>1, <2>2, PromiseFields
<1>6. Distinct(h) /\ Tasked(h, run, loose) /\ Awaited(h, cs, run, loose)
      /\ ErrorsSound(h, cs, run, hand)
  BY DEF Sound
<1>7. h.future[f].promise = p  OBVIOUS
<1> HIDE DEF p
<1>8. \A q \in Places : /\ x.promise[q] = Dead <=> h.promise[q] = Dead
                        /\ h.promise[q] # Dead =>
                              /\ x.promise[q].sets = h.promise[q].sets
                              /\ x.promise[q].task = h.promise[q].task
                              /\ x.promise[q].state = h.promise[q].state
                              /\ x.promise[q].own = h.promise[q].own
                              /\ x.promise[q].cell = h.promise[q].cell
  BY ONLY <1>2, <1>4, <1>5, NameFacts
<1>9. Distinct(x)  BY ONLY <1>6, <1>8 DEF Distinct
<1>10. Tasked(x, run, loose) /\ Awaited(x, cs, run, loose)
  BY ONLY <1>4, <1>6, <1>8, NameFacts DEF Tasked, Queued, Awaited, ContSound
<1>11. Promised(x, cs, {})
  <2> SUFFICES ASSUME NEW q \in Places, x.promise[q] # Dead PROVE PromiseSound(x, cs, q, {})
    BY DEF Promised
  <2>1. h.promise[q] \in PromiseObjects /\ PromiseSound(h, cs, q, {})
    BY ONLY <1>1, <1>8, x.promise[q] # Dead, q \in Places
  <2>2. CASE q = p
    <3>1. q # None /\ f # None /\ g # None  BY NameFacts
    <3> QED BY ONLY SMTT(200), <1>0, <1>2, <1>4, <1>5, <1>7, <2>1, <2>2, <3>1 DEF PromiseSound
  <2>3. CASE q # p
    <3>1. h.promise[q].future # None =>
             h.promise[q].future # f /\ h.promise[q].future # g /\ h.promise[q].future \in Futures
      BY <1>7, <2>1, <2>3 DEF PromiseSound, PromiseObjects
    <3> QED BY ZenonT(60), <1>4, <2>1, <2>3, <3>1 DEF PromiseSound
  <2> QED BY <2>2, <2>3
<1>12. Expected(x, cs, {})
  <2> SUFFICES ASSUME NEW e \in Futures, x.future[e] # Dead PROVE FutureSound(x, cs, e, {})
    BY DEF Expected
  <2>1. CASE e = g  BY ONLY <1>2, <1>3, <1>4, <1>5, <1>7, <2>1 DEF FutureSound
  <2>2. CASE e # g
    <3>1. h.future[e] \in FutureObjects /\ FutureSound(h, cs, e, {}) /\ x.future[e] = h.future[e] /\ e # f
      BY <1>1, <1>4, <2>2
    <3>2. h.future[e].promise # None => h.future[e].promise # p /\ h.future[e].promise \in Places
      BY <1>2, <3>1 DEF FutureSound, FutureObjects
    <3> QED BY ONLY <1>4, <3>1, <3>2 DEF FutureSound
  <2> QED BY <2>1, <2>2
<1>13. \A s : HeldIn(h, run, s) => HeldIn(x, run, s)
  <2>1. \A q \in Places : h.promise[q] # Dead => PromiseState(x, q) = PromiseState(h, q)
    BY ONLY <1>4, <1>8 DEF PromiseState
  <2>2. \A e \in Futures : h.future[e] # Dead /\ h.future[e].promise # None =>
           h.future[e].promise \in Places /\ h.promise[h.future[e].promise] # Dead
    BY <1>1 DEF FutureObjects, FutureSound
  <2>3. \A e \in Futures : h.future[e] # Dead /\ e # f => x.future[e] # Dead /\ State(x, e) = State(h, e)
    <3>1. \A e \in Futures : h.future[e] # Dead /\ e # f => x.future[e] = h.future[e]
      BY <1>0, <1>4
    <3> QED BY ONLY <2>1, <2>2, <3>1 DEF State
  <2>4. x.future[g] # Dead /\ State(x, g) = State(h, f)
    BY ONLY <1>0, <1>4, <2>1, <2>2 DEF State
  <2> QED BY ONLY <1>0, <1>4, <1>8, <2>1, <2>3, <2>4 DEF HeldIn
<1>14. ErrorsSound(x, cs, run, hand)  BY ONLY <1>4, <1>6, <1>13 DEF ErrorsSound
<1> QED BY <1>1, <1>4, <1>9, <1>10, <1>11, <1>12, <1>14 DEF Sound

(* A promise moves to a place where there was none.                        *)
LEMMA MovePromiseSound ==
    ASSUME NEW h, NEW cs, NEW hand,
           Sound(h, cs, {}, {}, {}, hand),
           NEW p \in Promises, h.promise[p] # Dead, NEW q \in Promises, h.promise[q] = Dead,
           NEW x, x = MovePromise(h, p, q)
    PROVE  Sound(x, cs, {}, {}, {}, hand)
<1> DEFINE f == h.promise[p].future
<1>0. p # q /\ h.promise[p] # Dead /\ h.promise[q] = Dead /\ p \in Places /\ q \in Places
      /\ p \notin Conts /\ q \notin Conts /\ p # None /\ q # None
  BY NameFacts
<1>1. /\ h \in Heaps /\ CellsSound(cs)
      /\ \A r \in Places : h.promise[r] # Dead =>
            h.promise[r] \in PromiseObjects /\ PromiseSound(h, cs, r, {})
      /\ \A g \in Futures : h.future[g] # Dead =>
            h.future[g] \in FutureObjects /\ FutureSound(h, cs, g, {})
  BY SoundObjects
<1>2. h.promise[p] \in PromiseObjects /\ PromiseSound(h, cs, p, {})  BY <1>0, <1>1
<1>3. f # None => /\ f \in Futures /\ h.future[f] # Dead /\ h.future[f] \in FutureObjects
                  /\ h.future[f].promise = p /\ FutureSound(h, cs, f, {})
  BY <1>1, <1>2 DEF PromiseSound, PromiseObjects
<1>4. /\ x \in Heaps /\ x.promise[q] = h.promise[p] /\ x.promise[p] = Dead
      /\ \A r \in Places : r # p /\ r # q => x.promise[r] = h.promise[r]
      /\ f # None => x.future[f] = PromiseIs(h.future[f], q)
      /\ \A g \in Futures : g # f => x.future[g] = h.future[g]
      /\ x.cont = h.cont /\ x.tasks = h.tasks /\ x.seen = h.seen
  <2>1. f = h.promise[p].future  OBVIOUS
  <2> HIDE DEF f
  <2> QED BY ONLY <1>0, <1>1, <1>2, <1>3, <2>1, MovePromiseHeap, x = MovePromise(h, p, q)
<1>5. f # None => /\ x.future[f] \in FutureObjects /\ x.future[f] # Dead /\ x.future[f].promise = q
                  /\ x.future[f].own = h.future[f].own /\ x.future[f].cell = h.future[f].cell
  <2>1. f # None => h.future[f] \in FutureObjects /\ x.future[f] = PromiseIs(h.future[f], q)
    BY <1>3, <1>4
  <2> HIDE DEF f
  <2>2. q \in Places \union {None}  BY <1>0
  <2> QED BY ONLY <2>1, <2>2, PromiseIsFields
<1>6. Distinct(h) /\ Tasked(h, {}, {}) /\ Awaited(h, cs, {}, {})
      /\ ErrorsSound(h, cs, {}, hand)
  BY DEF Sound
<1>7. h.promise[p].future = f  OBVIOUS
<1> HIDE DEF f
<1>8. Distinct(x)  BY ONLY <1>0, <1>4, <1>6 DEF Distinct
<1>9. Tasked(x, {}, {})  BY ONLY <1>4, <1>6 DEF Tasked, Queued
<1>10. Awaited(x, cs, {}, {})
  <2>1. \A c \in Conts : x.promise[c] = h.promise[c]  BY ONLY <1>0, <1>4, NameFacts
  <2>2. \A c \in Conts : (\E r \in Places : h.promise[r] # Dead /\ h.promise[r].task = c)
            => \E r \in Places : x.promise[r] # Dead /\ x.promise[r].task = c
    BY ONLY <1>0, <1>4
  <2> QED BY ONLY <1>4, <1>6, <2>1, <2>2 DEF Awaited, ContSound
<1>11. Promised(x, cs, {})
  <2> SUFFICES ASSUME NEW r \in Places, x.promise[r] # Dead PROVE PromiseSound(x, cs, r, {})
    BY DEF Promised
  <2>1. CASE r = q
    BY ONLY <1>0, <1>2, <1>3, <1>4, <1>5, <1>7, <2>1 DEF PromiseSound
  <2>2. CASE r # q
    <3>1. r # p /\ h.promise[r] \in PromiseObjects /\ PromiseSound(h, cs, r, {}) /\ x.promise[r] = h.promise[r]
      BY <1>1, <1>4, <2>2
    <3>2. h.promise[r].future # None =>
             h.promise[r].future # f /\ h.promise[r].future \in Futures
      BY <1>3, <3>1 DEF PromiseSound, PromiseObjects
    <3> QED BY ONLY <1>4, <3>1, <3>2 DEF PromiseSound
  <2> QED BY <2>1, <2>2
<1>12. Expected(x, cs, {})
  <2> SUFFICES ASSUME NEW e \in Futures, x.future[e] # Dead PROVE FutureSound(x, cs, e, {})
    BY DEF Expected
  <2>1. CASE e = f
    <3>1. f # None  BY <2>1, NameFacts
    <3> QED BY ONLY <1>0, <1>3, <1>4, <1>5, <1>7, <2>1, <3>1 DEF FutureSound
  <2>2. CASE e # f
    <3>1. h.future[e] \in FutureObjects /\ FutureSound(h, cs, e, {}) /\ x.future[e] = h.future[e]
      BY <1>1, <1>4, <2>2
    <3>2. h.future[e].promise # None =>
             h.future[e].promise # p /\ h.future[e].promise # q /\ h.future[e].promise \in Places
      BY <1>0, <1>7, <2>2, <3>1 DEF FutureSound, FutureObjects
    <3> QED BY ONLY <1>4, <3>1, <3>2 DEF FutureSound
  <2> QED BY <2>1, <2>2
<1>13. \A s : HeldIn(h, {}, s) => HeldIn(x, {}, s)
  <2>1. \A r \in Places : h.promise[r] # Dead /\ r # p =>
           x.promise[r] = h.promise[r] /\ PromiseState(x, r) = PromiseState(h, r)
    BY ONLY <1>0, <1>4 DEF PromiseState
  <2>2. x.promise[q] = h.promise[p] /\ PromiseState(x, q) = PromiseState(h, p)
    BY ONLY <1>0, <1>4 DEF PromiseState
  <2>3. \A e \in Futures : h.future[e] # Dead /\ e # f => x.future[e] # Dead /\ State(x, e) = State(h, e)
    <3> SUFFICES ASSUME NEW e \in Futures, h.future[e] # Dead, e # f
                 PROVE  x.future[e] # Dead /\ State(x, e) = State(h, e)
      OBVIOUS
    <3>1. h.future[e] \in FutureObjects /\ FutureSound(h, cs, e, {}) /\ x.future[e] = h.future[e]
      BY <1>1, <1>4
    <3>2. h.future[e].promise # None =>
             /\ h.future[e].promise # p /\ h.future[e].promise \in Places
             /\ h.promise[h.future[e].promise] # Dead
      BY <1>0, <1>7, <3>1 DEF FutureSound, FutureObjects
    <3> QED BY ONLY <2>1, <3>1, <3>2, h.future[e] # Dead DEF State
  <2>4. f \in Futures => x.future[f] # Dead /\ State(x, f) = State(h, f)
    BY ONLY <1>0, <1>3, <1>5, <2>2, NameFacts DEF State
  <2> QED BY ONLY <1>0, <1>4, <2>1, <2>2, <2>3, <2>4 DEF HeldIn
<1>14. ErrorsSound(x, cs, {}, hand)  BY ONLY <1>4, <1>6, <1>13 DEF ErrorsSound
<1> QED BY <1>1, <1>4, <1>8, <1>9, <1>10, <1>11, <1>12, <1>14 DEF Sound

-----------------------------------------------------------------------------
(* Cells *)

LEMMA RootFacts ==
    ASSUME NEW cs, CellsSound(cs)
    PROVE  /\ \A k \in DOMAIN cs : /\ Root(cs, k) \in DOMAIN cs /\ cs[Root(cs, k)].like = 0
                                   /\ Root(cs, Root(cs, k)) = Root(cs, k)
                                   /\ k \in Numbers /\ cs[k] \in CellObjects
                                   /\ OutcomeIn(cs, k) \in Outcomes \union {Pending}
           /\ DOMAIN cs = 1 .. Len(cs) /\ Len(cs) \in Nat
<1>1. /\ DOMAIN cs = 1 .. Len(cs) /\ Len(cs) \in Nat /\ MaxCells \in Nat /\ Len(cs) <= MaxCells
      /\ \A k \in DOMAIN cs : cs[k] \in CellObjects
  BY SlotsAssumption DEF CellsSound
<1>2. \A k \in DOMAIN cs : k \in Numbers  BY <1>1 DEF Numbers
<1>3. \A k \in DOMAIN cs : cs[k].outcome \in Outcomes \union {Pending}
  BY <1>1 DEF CellObjects
<1>4. \A k \in DOMAIN cs : /\ Root(cs, k) \in DOMAIN cs /\ cs[Root(cs, k)].like = 0
                           /\ Root(cs, Root(cs, k)) = Root(cs, k)
  BY DEF CellsSound, Root
<1> QED BY <1>1, <1>2, <1>3, <1>4 DEF OutcomeIn

OutcomeIs(r, s) == [r EXCEPT !.outcome = s]

LEMMA ResolveCells ==
    ASSUME NEW cs, CellsSound(cs), NEW k \in DOMAIN cs, cs[k].like = 0,
           NEW s \in Outcomes, NEW ds, ds = Resolve(cs, k, s)
    PROVE  /\ CellsSound(ds) /\ DOMAIN ds = DOMAIN cs
           /\ ds[k].outcome = s /\ ds[k].like = cs[k].like /\ ds[k].broken = cs[k].broken
           /\ \A j \in DOMAIN cs : j # k => ds[j] = cs[j]
           /\ \A j \in DOMAIN cs : Root(ds, j) = Root(cs, j)
           /\ \A j \in DOMAIN cs : OutcomeIn(ds, j) = IF Root(cs, j) = k THEN s ELSE OutcomeIn(cs, j)
<1> DEFINE r == OutcomeIs(cs[k], s)
<1>1. cs[k] \in CellObjects /\ cs \in Seq(CellObjects) /\ Len(cs) <= MaxCells
  BY RootFacts DEF CellsSound
<1>2. r \in CellObjects /\ r.outcome = s /\ r.like = cs[k].like /\ r.broken = cs[k].broken
  BY <1>1 DEF CellObjects, OutcomeIs
<1>3. ds = [cs EXCEPT ![k] = r]  BY DEF Resolve, OutcomeIs
<1> HIDE DEF r
<1>4. /\ ds \in Seq(CellObjects) /\ Len(ds) = Len(cs) /\ DOMAIN ds = DOMAIN cs
      /\ ds[k] = r /\ \A j \in DOMAIN cs : j # k => ds[j] = cs[j]
  BY <1>1, <1>2, <1>3, ExceptSeq
<1>5. \A j \in DOMAIN cs : ds[j].like = cs[j].like  BY <1>2, <1>4
<1>6. CellsSound(ds)  BY <1>1, <1>2, <1>4, <1>5 DEF CellsSound
<1>7. \A j \in DOMAIN cs : Root(ds, j) = Root(cs, j)  BY <1>5 DEF Root
<1>8. \A j \in DOMAIN cs : Root(cs, j) \in DOMAIN cs  BY RootFacts
<1> QED BY <1>2, <1>4, <1>5, <1>6, <1>7, <1>8 DEF OutcomeIn

-----------------------------------------------------------------------------
WithTask(h, c) == [h EXCEPT !.tasks = Append(h.tasks, c)]

LEMMA WithTaskHeap ==
    ASSUME NEW h \in Heaps, NEW c \in Conts, NEW x, x = WithTask(h, c)
    PROVE  /\ x \in Heaps /\ x.tasks = Append(h.tasks, c)
           /\ x.promise = h.promise /\ x.future = h.future /\ x.cont = h.cont /\ x.seen = h.seen
<1>1. h.tasks \in Seq(Conts)  BY DEF Heaps
<1>2. Append(h.tasks, c) \in Seq(Conts)  BY <1>1
<1> QED BY <1>2 DEF WithTask, Heaps

(* A continuation that got its outcome comes to the end of the task list.  *)
LEMMA TaskedAppend ==
    ASSUME NEW h \in Heaps, NEW run, NEW loose, NEW loose2, Tasked(h, run, loose),
           NEW c \in Conts, NEW x, x.tasks = Append(h.tasks, c),
           ~Queued(h, c, run, loose), Queued(x, c, run, loose2),
           \A d \in Conts : d # c => (Queued(x, d, run, loose2) <=> Queued(h, d, run, loose))
    PROVE  Tasked(x, run, loose2)
<1> SUFFICES ASSUME NEW d \in Conts
             PROVE  Count(x.tasks, {d}) = Indicator(Queued(x, d, run, loose2))
  BY DEF Tasked
<1>1. h.tasks \in Seq(Conts)  BY DEF Heaps
<1>2. Count(x.tasks, {d}) = Count(h.tasks, {d}) + Indicator(c \in {d})
  BY <1>1, CountAppend
<1>3. Count(h.tasks, {d}) = Indicator(Queued(h, d, run, loose))  BY DEF Tasked
<1>4. CASE d = c  BY <1>2, <1>3, <1>4 DEF Indicator
<1>5. CASE d # c  BY <1>2, <1>3, <1>5 DEF Indicator
<1> QED BY <1>4, <1>5

LEMMA SetHeap ==
    ASSUME NEW h \in Heaps, NEW p \in Places, h.promise[p] \in PromiseObjects,
           NEW c, c = h.promise[p].task, c # None => c \in Conts /\ h.cont[c] \in ContObjects,
           NEW s \in States, NEW x, x = Set(h, p, s)
    PROVE  /\ x \in Heaps /\ x.future = h.future /\ x.seen = h.seen
           /\ \A q \in Places : q # p => x.promise[q] = h.promise[q]
           /\ c = None => /\ x.promise[p] = OwnIs(h.promise[p], s)
                          /\ x.cont = h.cont /\ x.tasks = h.tasks
           /\ c # None => /\ x.promise[p] = TaskIs(h.promise[p], None, None)
                          /\ x.cont[c] = StateIs(h.cont[c], s)
                          /\ \A d \in Conts : d # c => x.cont[d] = h.cont[d]
                          /\ x.tasks = Append(h.tasks, c)
<1>1. CASE c = None
  <2> DEFINE r == OwnIs(h.promise[p], s)
  <2>1. r \in PromiseObjects  BY PromiseFields
  <2>2. x = WithPromise(h, p, r)  BY <1>1 DEF Set, WithPromise, OwnIs
  <2> HIDE DEF r
  <2>3. /\ x \in Heaps /\ x.promise[p] = r
        /\ \A q \in Places : q # p => x.promise[q] = h.promise[q]
        /\ x.future = h.future /\ x.cont = h.cont /\ x.tasks = h.tasks /\ x.seen = h.seen
    BY <2>1, <2>2, WithPromiseHeap
  <2> QED BY <1>1, <2>3 DEF r
<1>2. CASE c # None
  <2> DEFINE t == StateIs(h.cont[c], s)
             a == WithCont(h, c, t)
             b == WithTask(a, c)
             r1 == StateIs(h.promise[p], None)
             d1 == WithPromise(b, p, r1)
             r == TaskIs(h.promise[p], None, None)
  <2>1. t \in ContObjects /\ r \in PromiseObjects /\ r1 \in PromiseObjects
    <3>1. t \in ContObjects  BY <1>2, ContFields
    <3>2. r \in PromiseObjects  BY PromiseFields
    <3>3. r1 \in PromiseObjects  BY DEF PromiseObjects, StateIs
    <3> QED BY <3>1, <3>2, <3>3
  <2>2. x = [d1 EXCEPT !.promise[p].task = None]
    BY <1>2 DEF Set, WithCont, StateIs, WithTask, WithPromise, Heaps
  <2>3. r = [r1 EXCEPT !.task = None]  BY DEF TaskIs, StateIs
  <2> HIDE DEF t, r1, r
  <2>4. /\ a \in Heaps /\ a.cont[c] = t
        /\ \A d \in Conts : d # c => a.cont[d] = h.cont[d]
        /\ a.promise = h.promise /\ a.future = h.future /\ a.tasks = h.tasks /\ a.seen = h.seen
    BY <1>2, <2>1, WithContHeap
  <2> HIDE DEF a
  <2>5. /\ b \in Heaps /\ b.tasks = Append(a.tasks, c)
        /\ b.promise = a.promise /\ b.future = a.future /\ b.cont = a.cont /\ b.seen = a.seen
    BY <1>2, <2>4, WithTaskHeap
  <2> HIDE DEF b
  <2>6. /\ d1 \in Heaps /\ d1.promise[p] = r1
        /\ \A q \in Places : q # p => d1.promise[q] = b.promise[q]
        /\ d1.future = b.future /\ d1.cont = b.cont /\ d1.tasks = b.tasks /\ d1.seen = b.seen
    <3>1. p \in Places /\ r1 \in PromiseObjects \union {Dead}  BY <2>1
    <3>2. b \in Heaps  BY <2>5
    <3>3. d1 = WithPromise(b, p, r1)  OBVIOUS
    <3> HIDE DEF d1
    <3> QED BY ONLY <3>1, <3>2, <3>3, WithPromiseHeap
  <2> HIDE DEF d1
  <2>7. x = WithPromise(d1, p, r)  BY <2>2, <2>3, <2>6 DEF WithPromise
  <2>8. /\ x \in Heaps /\ x.promise[p] = r
        /\ \A q \in Places : q # p => x.promise[q] = d1.promise[q]
        /\ x.future = d1.future /\ x.cont = d1.cont /\ x.tasks = d1.tasks /\ x.seen = d1.seen
    <3>1. p \in Places /\ r \in PromiseObjects \union {Dead}  BY <2>1
    <3>2. d1 \in Heaps  BY <2>6
    <3> QED BY ONLY <3>1, <3>2, <2>7, WithPromiseHeap
  <2> QED BY <1>2, <2>4, <2>5, <2>6, <2>8 DEF r, t
<1> QED BY <1>1, <1>2

(* A promise is set, and with it the cell that it resolves.                *)
(* x is h with the outcome s set by p, which resolves cell k.              *)
SetDone(h, x, ds, run, p, k, s) ==
    /\ k \in DOMAIN ds /\ ds[k].outcome = s
    /\ x.future = h.future /\ \A q \in Places : q # p => x.promise[q] = h.promise[q]
    /\ x.promise[p] # Dead /\ x.promise[p].sets = k /\ x.promise[p].task = None
    /\ \A c \in Conts : c \in run => x.cont[c] = h.cont[c]

LEMMA SetSound ==
    ASSUME NEW h, NEW cs, NEW run, NEW spent, NEW hand,
           Sound(h, cs, run, {}, spent, hand),
           NEW p \in Places, h.promise[p] # Dead, h.promise[p].state # None,
           PromiseState(h, p) = Pending, p \in Conts => p \in run,
           NEW k, k = h.promise[p].sets, NEW s \in Outcomes,
           NEW x, x = Set(h, p, s), NEW ds, ds = Resolve(cs, k, s)
    PROVE  Sound(x, ds, run, {}, spent, hand \ {s}) /\ SetDone(h, x, ds, run, p, k, s)
<1> DEFINE c == h.promise[p].task
           left == hand \ {s}
<1>0. p \in Places /\ h.promise[p] # Dead /\ h.promise[p].state # None
      /\ (p \in Conts => p \in run) /\ k = h.promise[p].sets
  OBVIOUS
<1>1. /\ h \in Heaps /\ CellsSound(cs)
      /\ \A q \in Places : h.promise[q] # Dead =>
            h.promise[q] \in PromiseObjects /\ PromiseSound(h, cs, q, spent)
      /\ \A g \in Futures : h.future[g] # Dead =>
            h.future[g] \in FutureObjects /\ FutureSound(h, cs, g, spent)
      /\ \A d \in Conts : h.cont[d] # Dead =>
            /\ h.cont[d] \in ContObjects /\ ContSound(h, cs, d, run, {})
            /\ h.promise[d] # Dead
      /\ \A d \in Conts : h.promise[d] # Dead => h.cont[d] # Dead
  BY SoundObjects
<1>2. h.promise[p] \in PromiseObjects /\ PromiseSound(h, cs, p, spent)  BY <1>1
<1>3. /\ k \in DOMAIN cs /\ cs[k].like = 0 /\ cs[k].outcome = Pending /\ ~cs[k].broken
      /\ c = None => h.promise[p].state = "own" /\ h.promise[p].own = Pending
      /\ c # None => /\ c \in Conts /\ h.promise[p].state = c /\ h.cont[c] # Dead
                     /\ h.cont[c].state = Pending /\ Root(cs, h.cont[c].awaits) = k
                     /\ h.cont[c] \in ContObjects /\ ContSound(h, cs, c, run, {})
  <2>1. CASE h.promise[p].state = "own"
    BY <1>0, <1>2, <2>1, NameFacts, StateFacts, PromiseState(h, p) = Pending DEF PromiseSound, PromiseState
  <2>2. CASE h.promise[p].state # "own"
    <3>1. h.promise[p].state \in Conts  BY <1>0, <1>2, <2>2 DEF PromiseObjects
    <3> QED BY <1>0, <1>1, <1>2, <2>2, <3>1, NameFacts DEF PromiseSound
  <2> QED BY <2>1, <2>2
<1>4. s \in States /\ s # Pending /\ s # Invalid  BY StateFacts
<1>5. /\ x \in Heaps /\ x.future = h.future /\ x.seen = h.seen
      /\ \A q \in Places : q # p => x.promise[q] = h.promise[q]
      /\ c = None => /\ x.promise[p] = OwnIs(h.promise[p], s)
                     /\ x.cont = h.cont /\ x.tasks = h.tasks
      /\ c # None => /\ x.promise[p] = TaskIs(h.promise[p], None, None)
                     /\ x.cont[c] = StateIs(h.cont[c], s)
                     /\ \A d \in Conts : d # c => x.cont[d] = h.cont[d]
                     /\ x.tasks = Append(h.tasks, c)
  <2>1. c = h.promise[p].task  OBVIOUS
  <2> HIDE DEF c
  <2> QED BY ONLY <1>0, <1>1, <1>2, <1>3, <1>4, <2>1, x = Set(h, p, s), SetHeap
<1>6. /\ CellsSound(ds) /\ DOMAIN ds = DOMAIN cs
      /\ ds[k].outcome = s /\ ds[k].like = 0 /\ ~ds[k].broken
      /\ \A j \in DOMAIN cs : j # k => ds[j] = cs[j]
      /\ \A j \in DOMAIN cs : Root(ds, j) = Root(cs, j)
      /\ \A j \in DOMAIN cs : OutcomeIn(ds, j) = IF Root(cs, j) = k THEN s ELSE OutcomeIn(cs, j)
  BY ONLY <1>1, <1>3, s \in Outcomes, ds = Resolve(cs, k, s), ResolveCells
<1>7. c = h.promise[p].task  OBVIOUS
<1> HIDE DEF c
<1>8. /\ x.promise[p] # Dead /\ x.promise[p].future = h.promise[p].future
      /\ x.promise[p].cell = h.promise[p].cell /\ x.promise[p].sets = k
      /\ x.promise[p].given = h.promise[p].given /\ x.promise[p].task = None
      /\ c = None => x.promise[p].state = "own" /\ x.promise[p].own = s
      /\ c # None => x.promise[p].state = None /\ x.promise[p].own = h.promise[p].own
  <2>1. CASE c = None
    <3>1. x.promise[p] = OwnIs(h.promise[p], s)  BY <1>5, <2>1
    <3>2. LET e == OwnIs(h.promise[p], s)
              r == h.promise[p] IN
          /\ e # Dead /\ e.own = s /\ e.future = r.future /\ e.state = r.state /\ e.task = r.task
          /\ e.cell = r.cell /\ e.sets = r.sets /\ e.given = r.given
      BY ONLY <1>2, <1>4, PromiseFields
    <3> QED BY ONLY <1>0, <1>3, <1>7, <2>1, <3>1, <3>2
  <2>2. CASE c # None
    <3>1. x.promise[p] = TaskIs(h.promise[p], None, None)  BY <1>5, <2>2
    <3> QED BY ONLY <1>0, <1>2, <2>2, <3>1, PromiseFields
  <2> QED BY <2>1, <2>2
<1>9. c # None => /\ x.cont[c] # Dead /\ x.cont[c].state = s /\ x.cont[c].awaits = h.cont[c].awaits
                  /\ c \notin run
  <2>1. c # None => c \notin run  BY ONLY <1>3 DEF ContSound
  <2> QED BY ONLY <1>3, <1>4, <1>5, <2>1, ContFields
<1>10. Distinct(h) /\ Tasked(h, run, {}) /\ Awaited(h, cs, run, {})
       /\ ErrorsSound(h, cs, run, hand)
  BY DEF Sound
<1>11. \A q \in Places : h.promise[q] # Dead /\ h.promise[q].sets = k => q = p
  BY ONLY <1>0, <1>10 DEF Distinct
<1>12. \A q \in Places : h.promise[q] # Dead /\ h.promise[q].state \in Conts /\ h.promise[q].state = c => q = p
  BY ONLY SMTT(200), <1>1, <1>3, <1>11, NameFacts DEF PromiseSound
<1>13. Distinct(x)  BY ONLY <1>0, <1>5, <1>8, <1>10 DEF Distinct
<1>14. Tasked(x, run, {})
  <2>1. CASE c = None  BY ONLY <1>5, <1>10, <2>1 DEF Tasked, Queued
  <2>2. CASE c # None
    <3>1. c \in Conts /\ x.tasks = Append(h.tasks, c)  BY ONLY <1>3, <1>5, <2>2
    <3>2. ~Queued(h, c, run, {}) /\ Queued(x, c, run, {})
      BY ONLY <1>3, <1>4, <1>9, <2>2 DEF Queued
    <3>3. \A d \in Conts : d # c => (Queued(x, d, run, {}) <=> Queued(h, d, run, {}))
      BY ONLY <1>5, <2>2 DEF Queued
    <3> QED BY ONLY <1>1, <1>10, <3>1, <3>2, <3>3, TaskedAppend
  <2> QED BY <2>1, <2>2
<1>15. Promised(x, ds, spent)
  <2> SUFFICES ASSUME NEW q \in Places, x.promise[q] # Dead PROVE PromiseSound(x, ds, q, spent)
    BY DEF Promised
  <2>1. CASE q = p
    <3>1. CASE c = None
      BY ONLY ZenonT(60), <1>0, <1>2, <1>3, <1>4, <1>5, <1>6, <1>8, <2>1, <3>1, NameFacts DEF PromiseSound
    <3>2. CASE c # None
      BY ONLY ZenonT(60), <1>0, <1>2, <1>3, <1>4, <1>5, <1>6, <1>8, <2>1, <3>2, NameFacts DEF PromiseSound
    <3> QED BY <3>1, <3>2
  <2>2. CASE q # p
    <3>1. h.promise[q] \in PromiseObjects /\ PromiseSound(h, cs, q, spent) /\ x.promise[q] = h.promise[q]
          /\ h.promise[q] # Dead
      BY <1>1, <1>5, <2>2
    <3>2. h.promise[q].sets # k  BY <1>11, <2>2, <3>1
    <3>3. h.promise[q].state \in Conts => x.cont[h.promise[q].state] = h.cont[h.promise[q].state]
                                          /\ h.cont[h.promise[q].state].awaits \in DOMAIN cs
      <4>1. h.promise[q].state \in Conts => h.promise[q].state # c
        BY <1>12, <2>2, <3>1
      <4>2. h.promise[q].state \in Conts => h.cont[h.promise[q].state].awaits \in DOMAIN cs
        BY ONLY <1>1, <3>1 DEF PromiseSound, ContSound
      <4> QED BY ONLY <1>5, <4>1, <4>2
    <3>4. h.promise[q].sets \in DOMAIN cs /\ h.promise[q].cell \in DOMAIN cs
      BY ONLY <3>1 DEF PromiseSound
    <3>5. /\ DOMAIN ds = DOMAIN cs /\ ds[h.promise[q].sets] = cs[h.promise[q].sets]
          /\ Root(ds, h.promise[q].cell) = Root(cs, h.promise[q].cell)
          /\ h.promise[q].state \in Conts =>
                /\ x.cont[h.promise[q].state] = h.cont[h.promise[q].state]
                /\ Root(ds, h.cont[h.promise[q].state].awaits) = Root(cs, h.cont[h.promise[q].state].awaits)
      BY ONLY <1>6, <3>2, <3>3, <3>4
    <3>6. PromiseSound(h, cs, q, spent) /\ x.promise[q] = h.promise[q] /\ x.future = h.future
      BY ONLY <1>5, <3>1
    <3> QED BY ONLY <3>5, <3>6, ZenonT(60) DEF PromiseSound
  <2> QED BY <2>1, <2>2
<1>16. Expected(x, ds, spent)
  <2> SUFFICES ASSUME NEW g \in Futures, x.future[g] # Dead PROVE FutureSound(x, ds, g, spent)
    BY DEF Expected
  <2>1. x.future[g] = h.future[g] /\ h.future[g] \in FutureObjects /\ FutureSound(h, cs, g, spent)
        /\ h.future[g] # Dead
    BY <1>1, <1>5
  <2>2. CASE h.future[g].promise = None
    <3>1. Root(cs, h.future[g].cell) = k => g \in spent
      BY ONLY <1>3, <2>1, <2>2 DEF FutureSound, OutcomeIn
    <3>2. h.future[g].cell \in DOMAIN cs /\ Root(cs, h.future[g].cell) \in DOMAIN cs
      BY ONLY <1>1, <2>1, RootFacts DEF FutureSound
    <3> QED BY ONLY <1>6, <2>1, <2>2, <3>1, <3>2 DEF FutureSound
  <2>3. CASE h.future[g].promise # None
    <3>1. h.future[g].promise \in Places  BY <2>1, <2>3 DEF FutureObjects
    <3> QED BY ONLY <1>2, <1>5, <1>6, <1>8, <2>1, <2>3, <3>1 DEF FutureSound
  <2> QED BY <2>2, <2>3
<1>17. Awaited(x, ds, run, {})
  <2> SUFFICES ASSUME NEW d \in Conts
               PROVE  /\ x.cont[d] = Dead => x.promise[d] = Dead
                      /\ x.cont[d] # Dead => ContSound(x, ds, d, run, {})
    BY DEF Awaited
  <2>0. d \in Places /\ d # None  BY NameFacts
  <2>1. /\ x.cont[d] = Dead <=> h.cont[d] = Dead
        /\ x.promise[d] = Dead <=> h.promise[d] = Dead
        /\ x.cont[d].awaits = h.cont[d].awaits /\ x.promise[d].sets = h.promise[d].sets
    BY ONLY <1>0, <1>3, <1>5, <1>8, <1>9, <2>0
  <2>2. x.cont[d] = Dead => x.promise[d] = Dead
    BY ONLY <1>10, <2>1, d \in Conts DEF Awaited
  <2>3. ASSUME x.cont[d] # Dead PROVE ContSound(x, ds, d, run, {})
    <3>1. h.cont[d] # Dead /\ ContSound(h, cs, d, run, {}) /\ h.promise[d] # Dead
      BY <1>1, <2>1, <2>3
    <3>2. d \notin run => ds[x.promise[d].sets].outcome = Pending
      <4>1. d \notin run => d # p  BY <1>0
      <4>2. d \notin run => h.promise[d].sets # k  BY <1>11, <2>0, <3>1, <4>1
      <4>3. PromiseSound(h, cs, d, spent)  BY <1>1, <2>0, <3>1
      <4> QED BY ONLY <1>6, <2>1, <3>1, <4>2, <4>3 DEF ContSound, PromiseSound
    <3>3. CASE d = c
      BY ONLY <1>4, <1>6, <1>3, <1>9, <2>0, <2>1, <3>1, <3>2, <3>3 DEF ContSound
    <3>4. CASE d # c
      <4>1. x.cont[d] = h.cont[d]  BY ONLY <1>5, <3>4, d \in Conts
      <4>2. Root(cs, h.cont[d].awaits) # k
        <5> SUFFICES ASSUME Root(cs, h.cont[d].awaits) = k PROVE FALSE  OBVIOUS
        <5>1. h.cont[d].state = Pending
          BY ONLY <1>3, <3>1, Root(cs, h.cont[d].awaits) = k DEF ContSound, OutcomeIn
        <5>2. PICK q \in Places : h.promise[q] # Dead /\ h.promise[q].task = d
          BY ONLY <3>1, <5>1 DEF ContSound
        <5>3. PromiseSound(h, cs, q, spent)  BY <1>1, <5>2
        <5>4. h.promise[q].sets = k
          BY ONLY <2>0, <5>2, <5>3, Root(cs, h.cont[d].awaits) = k DEF PromiseSound
        <5> QED BY <1>7, <1>11, <3>4, <5>2, <5>4
      <4>3. h.cont[d].state = Pending => \E q \in Places : x.promise[q] # Dead /\ x.promise[q].task = d
        <5>1. h.cont[d].state = Pending => \E q \in Places : h.promise[q] # Dead /\ h.promise[q].task = d
          BY ONLY <3>1 DEF ContSound
        <5> QED BY ONLY <1>5, <1>7, <3>4, <5>1
      <4> QED BY ONLY <1>6, <2>1, <3>1, <3>2, <4>1, <4>2, <4>3 DEF ContSound
    <3> QED BY <3>3, <3>4
  <2> QED BY <2>2, <2>3
<1>18. \A e : e # Pending /\ (HeldIn(h, run, e) \/ e = s) => HeldIn(x, run, e)
  <2>1. \A q \in Places : h.promise[q] # Dead /\ q # p /\ h.promise[q].state # None =>
           x.promise[q] = h.promise[q] /\ PromiseState(x, q) = PromiseState(h, q)
    <3> SUFFICES ASSUME NEW q \in Places, h.promise[q] # Dead, q # p, h.promise[q].state # None
                 PROVE  x.promise[q] = h.promise[q] /\ PromiseState(x, q) = PromiseState(h, q)
      OBVIOUS
    <3>1. h.promise[q].state \in Conts \union {"own"} /\ x.promise[q] = h.promise[q]
      BY <1>1, <1>5 DEF PromiseObjects
    <3>2. h.promise[q].state \in Conts => x.cont[h.promise[q].state] = h.cont[h.promise[q].state]
      BY <1>5, <1>12
    <3> QED BY ONLY <3>1, <3>2 DEF PromiseState
  <2>2. \A g \in Futures : h.future[g] # Dead /\ State(h, g) # Pending =>
           x.future[g] # Dead /\ State(x, g) = State(h, g)
    <3> SUFFICES ASSUME NEW g \in Futures, h.future[g] # Dead, State(h, g) # Pending
                 PROVE  x.future[g] # Dead /\ State(x, g) = State(h, g)
      OBVIOUS
    <3>1. h.future[g].promise # None =>
            /\ h.future[g].promise \in Places /\ h.promise[h.future[g].promise] # Dead
            /\ h.promise[h.future[g].promise].state = "own"
            /\ State(h, g) = h.promise[h.future[g].promise].own
      BY FutureState
    <3>2. h.future[g].promise # None => h.future[g].promise # p
      BY <1>3, <3>1, NameFacts DEF State
    <3> QED BY <1>5, <2>1, <3>1, <3>2, NameFacts DEF State
  <2>3. HeldIn(x, run, s)
    <3>1. CASE c = None
      BY ONLY <1>0, <1>8, <3>1, NameFacts DEF HeldIn, PromiseState
    <3>2. CASE c # None  BY ONLY <1>3, <1>9, <3>2 DEF HeldIn
    <3> QED BY <3>1, <3>2
  <2>4. PromiseState(h, p) = Pending  OBVIOUS
  <2>5. \A d \in Conts : h.cont[d] # Dead /\ h.cont[d].state # Pending => x.cont[d] = h.cont[d]
    BY ONLY <1>3, <1>5
  <2> QED BY ONLY <1>5, <2>1, <2>2, <2>3, <2>4, <2>5 DEF HeldIn
<1>19. ErrorsSound(x, ds, run, left)
  <2>1. \A j \in DOMAIN ds : ds[j].outcome = cs[j].outcome \/ ds[j].outcome = s
    BY <1>6
  <2> QED BY ONLY <1>5, <1>6, <1>10, <1>18, <2>1, StateFacts DEF ErrorsSound
<1>20. \A d \in Conts : d \in run => x.cont[d] = h.cont[d]  BY ONLY <1>5, <1>9
<1> QED BY <1>1, <1>3, <1>5, <1>6, <1>8, <1>13, <1>14, <1>15, <1>16, <1>17, <1>19, <1>20 DEF Sound, SetDone

-----------------------------------------------------------------------------
Room(cs) == Len(cs) + 1 <= MaxCells
NextOf(cs) == Len(cs) + 1
Longer(cs, r) == Append(cs, r)

LEMMA AppendCells ==
    ASSUME NEW cs, CellsSound(cs), Room(cs), NEW k, k = NextOf(cs),
           NEW r \in CellObjects, r.like = 0, NEW ds, ds = Longer(cs, r)
    PROVE  /\ CellsSound(ds) /\ k \notin DOMAIN cs /\ DOMAIN ds = DOMAIN cs \union {k}
           /\ k \in Numbers /\ ds[k] = r /\ Root(ds, k) = k /\ OutcomeIn(ds, k) = r.outcome
           /\ \A j \in DOMAIN cs :
                 ds[j] = cs[j] /\ Root(ds, j) = Root(cs, j) /\ OutcomeIn(ds, j) = OutcomeIn(cs, j)
<1>1. /\ cs \in Seq(CellObjects) /\ DOMAIN cs = 1 .. Len(cs) /\ Len(cs) \in Nat
      /\ \A j \in DOMAIN cs : cs[j].like # 0 =>
            /\ cs[j].like \in DOMAIN cs /\ cs[cs[j].like].like = 0 /\ cs[j].outcome = Pending
  BY RootFacts DEF CellsSound
<1>2. /\ ds \in Seq(CellObjects) /\ Len(ds) = Len(cs) + 1 /\ DOMAIN ds = 1 .. Len(ds)
      /\ ds[k] = r /\ \A j \in DOMAIN cs : ds[j] = cs[j]
  BY <1>1 DEF Longer, NextOf
<1>3. k \notin DOMAIN cs /\ DOMAIN ds = DOMAIN cs \union {k} /\ k \in Numbers
  BY <1>1, <1>2, SlotsAssumption DEF Numbers, Room, NextOf
<1>4. \A j \in DOMAIN ds : j = k \/ j \in DOMAIN cs  BY <1>3
<1>5. \A j \in DOMAIN ds : ds[j].like # 0 =>
         /\ ds[j].like \in DOMAIN ds /\ ds[ds[j].like].like = 0 /\ ds[j].outcome = Pending
  <2> SUFFICES ASSUME NEW j \in DOMAIN ds, ds[j].like # 0
               PROVE  /\ ds[j].like \in DOMAIN ds /\ ds[ds[j].like].like = 0 /\ ds[j].outcome = Pending
    OBVIOUS
  <2>1. j \in DOMAIN cs /\ ds[j] = cs[j]  BY <1>2, <1>4
  <2>2. cs[j].like \in DOMAIN cs /\ cs[cs[j].like].like = 0 /\ cs[j].outcome = Pending
    BY <1>1, <2>1
  <2> QED BY ONLY <1>2, <1>3, <2>1, <2>2
<1>6. CellsSound(ds)  BY <1>2, <1>5 DEF CellsSound, Room
<1>7. \A j \in DOMAIN cs : Root(cs, j) \in DOMAIN cs  BY RootFacts
<1>8. \A j \in DOMAIN cs : Root(ds, j) = Root(cs, j)  BY <1>2 DEF Root
<1>9. Root(ds, k) = k  BY <1>2 DEF Root
<1> QED BY <1>2, <1>3, <1>6, <1>7, <1>8, <1>9 DEF OutcomeIn

(* A cell more: so far nothing is about it.                                *)
(* No promise resolves cell k.                                             *)
Unowned(h, k) == \A p \in Places : h.promise[p] # Dead => h.promise[p].sets # k

LEMMA AppendCellSound ==
    ASSUME NEW h, NEW cs, NEW hand, Sound(h, cs, {}, {}, {}, hand),
           Room(cs), NEW k, k = NextOf(cs),
           NEW r \in CellObjects, r.like = 0, NEW ds, ds = Longer(cs, r)
    PROVE  /\ Sound(h, ds, {}, {}, {}, hand \union {r.outcome})
           /\ Unowned(h, k)
<1> DEFINE more == hand \union {r.outcome}
<1>1. /\ h \in Heaps /\ CellsSound(cs)
      /\ \A q \in Places : h.promise[q] # Dead =>
            h.promise[q] \in PromiseObjects /\ PromiseSound(h, cs, q, {})
      /\ \A g \in Futures : h.future[g] # Dead =>
            h.future[g] \in FutureObjects /\ FutureSound(h, cs, g, {})
      /\ \A d \in Conts : h.cont[d] # Dead =>
            /\ h.cont[d] \in ContObjects /\ ContSound(h, cs, d, {}, {})
            /\ h.promise[d] # Dead
      /\ \A d \in Conts : h.promise[d] # Dead => h.cont[d] # Dead
  BY SoundObjects
<1>2. /\ CellsSound(ds) /\ k \notin DOMAIN cs /\ DOMAIN ds = DOMAIN cs \union {k}
      /\ ds[k] = r
      /\ \A j \in DOMAIN cs :
            ds[j] = cs[j] /\ Root(ds, j) = Root(cs, j) /\ OutcomeIn(ds, j) = OutcomeIn(cs, j)
  BY <1>1, AppendCells
<1>3. \A j \in DOMAIN cs : Root(cs, j) \in DOMAIN cs  BY <1>1, RootFacts
<1>4. Distinct(h) /\ Tasked(h, {}, {}) /\ Awaited(h, cs, {}, {}) /\ ErrorsSound(h, cs, {}, hand)
  BY DEF Sound
<1>5. Promised(h, ds, {})
  <2> SUFFICES ASSUME NEW q \in Places, h.promise[q] # Dead PROVE PromiseSound(h, ds, q, {})
    BY DEF Promised
  <2>1. PromiseSound(h, cs, q, {})  BY <1>1
  <2>2. h.promise[q].state \in Conts => h.cont[h.promise[q].state].awaits \in DOMAIN cs
    BY ONLY <1>1, <2>1 DEF PromiseSound, ContSound
  <2> QED BY ONLY <1>2, <2>1, <2>2 DEF PromiseSound
<1>6. Expected(h, ds, {})
  <2> SUFFICES ASSUME NEW g \in Futures, h.future[g] # Dead PROVE FutureSound(h, ds, g, {})
    BY DEF Expected
  <2>1. FutureSound(h, cs, g, {})  BY <1>1
  <2> QED BY ONLY <1>2, <1>3, <2>1 DEF FutureSound
<1>7. Awaited(h, ds, {}, {})
  <2> SUFFICES ASSUME NEW d \in Conts, h.cont[d] # Dead PROVE ContSound(h, ds, d, {}, {})
    BY <1>1 DEF Awaited
  <2>1. ContSound(h, cs, d, {}, {})  BY <1>1
  <2>2. h.promise[d].sets \in DOMAIN cs  BY <1>1, NameFacts DEF PromiseSound
  <2> QED BY ONLY <1>2, <2>1, <2>2 DEF ContSound
<1>8. ErrorsSound(h, ds, {}, more)  BY ONLY <1>2, <1>4 DEF ErrorsSound
<1>9. Unowned(h, k)  BY <1>1, <1>2 DEF PromiseSound, Unowned
<1> QED BY <1>1, <1>2, <1>4, <1>5, <1>6, <1>7, <1>8, <1>9 DEF Sound

(* A promise is made, and with it a continuation when it is in a lambda.   *)
Made(k, g) == [NewPromise(k) EXCEPT !.given = g]

LEMMA MadeFields ==
    ASSUME NEW k \in Numbers, NEW g \in BOOLEAN, NEW r, r = Made(k, g)
    PROVE  /\ r \in PromiseObjects /\ r # Dead /\ r.future = None /\ r.state = "own"
           /\ r.own = Pending /\ r.task = None /\ r.cell = k /\ r.sets = k /\ r.given = g
<1>1. /\ r \in PromiseObjects /\ r.future = None /\ r.state = "own"
      /\ r.own = Pending /\ r.task = None /\ r.cell = k /\ r.sets = k /\ r.given = g
  BY StateFacts DEF PromiseObjects, Made, NewPromise
<1> QED BY <1>1, DeadFacts

(* A new promise, alone or with the continuation that it is in.            *)
MadeAt(h, cs, p, r, x) ==
    \/ p \notin Conts /\ x = WithPromise(h, p, r)
    \/ /\ p \in Conts
       /\ \E j \in DOMAIN cs, t \in ContObjects :
             t.state = Pending /\ t.awaits = j /\ x = WithCont(WithPromise(h, p, r), p, t)

LEMMA NewPromiseSound ==
    ASSUME NEW h, NEW cs, NEW hand, Sound(h, cs, {}, {}, {}, hand),
           NEW k \in DOMAIN cs, cs[k].outcome = Pending, cs[k].like = 0, ~cs[k].broken,
           Unowned(h, k),
           NEW p \in Places, h.promise[p] = Dead, NEW g \in BOOLEAN,
           NEW r, r = Made(k, g), NEW x, MadeAt(h, cs, p, r, x)
    PROVE  /\ Sound(x, cs, {}, Conts \intersect {p}, {}, hand)
           /\ x.future = h.future /\ x.promise[p] = r
           /\ \A q \in Places : q # p => x.promise[q] = h.promise[q]
<1> DEFINE a == WithPromise(h, p, r)
           loose == Conts \intersect {p}
<1>0. /\ p \in Places /\ h.promise[p] = Dead /\ k \in DOMAIN cs /\ cs[k].outcome = Pending
      /\ cs[k].like = 0 /\ ~cs[k].broken
      /\ \A q \in Places : h.promise[q] # Dead => h.promise[q].sets # k
  BY DEF Unowned
<1>1. /\ h \in Heaps /\ CellsSound(cs)
      /\ \A q \in Places : h.promise[q] # Dead =>
            h.promise[q] \in PromiseObjects /\ PromiseSound(h, cs, q, {})
      /\ \A e \in Futures : h.future[e] # Dead =>
            h.future[e] \in FutureObjects /\ FutureSound(h, cs, e, {})
      /\ \A d \in Conts : h.cont[d] # Dead =>
            /\ h.cont[d] \in ContObjects /\ ContSound(h, cs, d, {}, {})
            /\ h.promise[d] # Dead
      /\ \A d \in Conts : h.promise[d] # Dead => h.cont[d] # Dead
  BY SoundObjects
<1>2. /\ r \in PromiseObjects /\ r # Dead /\ r.future = None /\ r.state = "own"
      /\ r.own = Pending /\ r.task = None /\ r.cell = k /\ r.sets = k
  <2>1. k \in Numbers  BY <1>1, RootFacts
  <2> QED BY <2>1, MadeFields
<1>3. /\ a \in Heaps /\ a.promise[p] = r
      /\ \A q \in Places : q # p => a.promise[q] = h.promise[q]
      /\ a.future = h.future /\ a.cont = h.cont /\ a.tasks = h.tasks /\ a.seen = h.seen
  BY <1>1, <1>2, WithPromiseHeap
<1>4. p \in Conts => h.cont[p] = Dead  BY <1>0, <1>1
<1>5. /\ x \in Heaps /\ x.promise[p] = r
      /\ \A q \in Places : q # p => x.promise[q] = h.promise[q]
      /\ x.future = h.future /\ x.tasks = h.tasks /\ x.seen = h.seen
      /\ p \notin Conts => x.cont = h.cont
      /\ p \in Conts => /\ x.cont[p] # Dead /\ x.cont[p].state = Pending /\ x.cont[p].awaits \in DOMAIN cs
                        /\ \A d \in Conts : d # p => x.cont[d] = h.cont[d]
  <2>1. CASE p \notin Conts /\ x = a  BY <1>3, <2>1
  <2>2. ASSUME p \in Conts,
               NEW j \in DOMAIN cs, NEW t \in ContObjects, t.state = Pending, t.awaits = j,
               x = WithCont(a, p, t)
        PROVE  /\ x \in Heaps /\ x.promise[p] = r
               /\ \A q \in Places : q # p => x.promise[q] = h.promise[q]
               /\ x.future = h.future /\ x.tasks = h.tasks /\ x.seen = h.seen
               /\ x.cont[p] # Dead /\ x.cont[p].state = Pending /\ x.cont[p].awaits \in DOMAIN cs
               /\ \A d \in Conts : d # p => x.cont[d] = h.cont[d]
    <3> HIDE DEF a
    <3>1. /\ x \in Heaps /\ x.cont[p] = t
          /\ \A d \in Conts : d # p => x.cont[d] = a.cont[d]
          /\ x.promise = a.promise /\ x.future = a.future /\ x.tasks = a.tasks /\ x.seen = a.seen
      BY ONLY <1>3, <2>2, WithContHeap
    <3>2. t # Dead  BY <2>2, DeadFacts
    <3> QED BY ONLY <1>3, <2>2, <3>1, <3>2
  <2>3. MadeAt(h, cs, p, r, x)  OBVIOUS
  <2> QED BY <2>1, <2>2, <2>3 DEF MadeAt
<1>6. Distinct(h) /\ Tasked(h, {}, {}) /\ Awaited(h, cs, {}, {}) /\ ErrorsSound(h, cs, {}, hand)
  BY DEF Sound
<1> HIDE DEF a, loose
<1>7. Distinct(x)  BY ONLY <1>0, <1>2, <1>5, <1>6 DEF Distinct
<1>8. Tasked(x, {}, loose)
  <2>1. \A d \in Conts : Queued(x, d, {}, loose) <=> Queued(h, d, {}, {})
    BY ONLY <1>4, <1>5 DEF Queued, loose
  <2> QED BY ONLY <1>5, <1>6, <2>1 DEF Tasked, Indicator
<1>9. \A q \in Places : h.promise[q] # Dead => q # p /\ x.promise[q] = h.promise[q]
  BY <1>0, <1>5
<1>10. \A d \in Conts : h.cont[d] # Dead => x.cont[d] = h.cont[d]
  BY ONLY <1>4, <1>5
<1>11. Promised(x, cs, {})
  <2> SUFFICES ASSUME NEW q \in Places, x.promise[q] # Dead PROVE PromiseSound(x, cs, q, {})
    BY DEF Promised
  <2>1. CASE q = p
    BY ONLY <1>0, <1>2, <1>5, <2>1, NameFacts, StateFacts DEF PromiseSound, Root
  <2>2. CASE q # p
    <3>1. h.promise[q] # Dead /\ PromiseSound(h, cs, q, {}) /\ x.promise[q] = h.promise[q]
      BY <1>1, <1>5, <2>2
    <3> QED BY ONLY <1>5, <1>10, <3>1 DEF PromiseSound
  <2> QED BY <2>1, <2>2
<1>12. Expected(x, cs, {})
  <2> SUFFICES ASSUME NEW e \in Futures, x.future[e] # Dead PROVE FutureSound(x, cs, e, {})
    BY DEF Expected
  <2>1. x.future[e] = h.future[e] /\ h.future[e] \in FutureObjects /\ FutureSound(h, cs, e, {})
    BY <1>1, <1>5
  <2> QED BY ONLY <1>9, <2>1 DEF FutureSound, FutureObjects
<1>13. Awaited(x, cs, {}, loose)
  <2> SUFFICES ASSUME NEW d \in Conts
               PROVE  /\ x.cont[d] = Dead => x.promise[d] = Dead
                      /\ x.cont[d] # Dead => ContSound(x, cs, d, {}, loose)
    BY DEF Awaited
  <2>1. d \in Places  BY NameFacts
  <2>2. CASE d = p
    <3>1. \A q \in Places : x.promise[q] # Dead => x.promise[q].state # p
      <4> SUFFICES ASSUME NEW q \in Places, x.promise[q] # Dead, x.promise[q].state = p PROVE FALSE
        OBVIOUS
      <4>1. q # p  BY <1>2, <1>5, <2>2, NameFacts
      <4>2. h.promise[q] # Dead /\ PromiseSound(h, cs, q, {}) /\ h.promise[q].state = d
        BY <1>1, <1>5, <2>2, <4>1
      <4> QED BY <1>4, <2>2, <4>2 DEF PromiseSound
    <3> QED BY ONLY <1>0, <1>2, <1>5, <2>2, <3>1, d \in Conts DEF ContSound, loose
  <2>3. CASE d # p
    <3>1. x.cont[d] = h.cont[d] /\ x.promise[d] = h.promise[d]  BY <1>5, <2>1, <2>3
    <3>2. (\E q \in Places : h.promise[q] # Dead /\ h.promise[q].task = d)
             => \E q \in Places : x.promise[q] # Dead /\ x.promise[q].task = d
      BY ONLY <1>9
    <3> QED BY ONLY <1>6, <2>3, <3>1, <3>2, d \in Conts DEF Awaited, ContSound, loose
  <2> QED BY <2>2, <2>3
<1>14. \A s : HeldIn(h, {}, s) => HeldIn(x, {}, s)
  <2>1. \A q \in Places : h.promise[q] # Dead /\ h.promise[q].state # None =>
           PromiseState(x, q) = PromiseState(h, q)
    <3> SUFFICES ASSUME NEW q \in Places, h.promise[q] # Dead, h.promise[q].state # None
                 PROVE  PromiseState(x, q) = PromiseState(h, q)
      OBVIOUS
    <3>1. h.promise[q].state \in Conts => h.cont[h.promise[q].state] # Dead
      BY <1>1 DEF PromiseSound
    <3>2. h.promise[q].state \in Conts \union {"own"}  BY <1>1 DEF PromiseObjects
    <3> QED BY <1>9, <1>10, <3>1, <3>2 DEF PromiseState
  <2>2. \A e \in Futures : h.future[e] # Dead => State(x, e) = State(h, e)
    <3> SUFFICES ASSUME NEW e \in Futures, h.future[e] # Dead PROVE State(x, e) = State(h, e)
      OBVIOUS
    <3>1. h.future[e].promise # None =>
             /\ h.future[e].promise \in Places /\ h.promise[h.future[e].promise] # Dead
             /\ h.promise[h.future[e].promise].state # None
      BY FutureState, NameFacts
    <3> QED BY ONLY <1>5, <2>1, <3>1 DEF State
  <2> QED BY ONLY <1>5, <1>9, <1>10, <2>1, <2>2 DEF HeldIn
<1>15. ErrorsSound(x, cs, {}, hand)  BY ONLY <1>5, <1>6, <1>14 DEF ErrorsSound
<1> QED BY <1>1, <1>5, <1>7, <1>8, <1>11, <1>12, <1>13, <1>15 DEF Sound, loose

-----------------------------------------------------------------------------
(* What dies with a promise: all of it lives, and all but the promise that *)
(* is dropped are continuations whose owner dies too.                      *)
LEMMA DoomedFacts ==
    ASSUME NEW h, NEW cs, NEW run, NEW hand, Sound(h, cs, run, {}, {}, hand),
           NEW p \in Places, h.promise[p] # Dead,
           NEW D, D = Doomed(h, p)
    PROVE  /\ p \in D /\ D \subseteq Places
           /\ \A q \in D : /\ h.promise[q] # Dead
                           /\ h.promise[q].task = None \/ h.promise[q].task \in D
                           /\ q # p => q \in Conts /\ h.cont[q] # Dead /\ h.cont[q].state = Pending
           /\ \A r \in Places : h.promise[r] # Dead /\ h.promise[r].state \in D /\ r \notin D
                 => h.promise[r].state = p
<1>1. /\ h \in Heaps
      /\ \A q \in Places : h.promise[q] # Dead =>
            h.promise[q] \in PromiseObjects /\ PromiseSound(h, cs, q, {})
      /\ \A d \in Conts : h.cont[d] # Dead => h.promise[d] # Dead
  BY SoundObjects
<1>2. Live(h.promise) = {q \in Places : h.promise[q] # Dead}
  BY <1>1 DEF Live, Heaps
<1>3. \A q \in Places : h.promise[q] # Dead => h.promise[q].task \in Conts \union {None}
  BY <1>1 DEF PromiseObjects
<1>4. p \in D /\ D \subseteq Places  BY DEF Doomed
<1>5. \A q \in D : h.promise[q] # Dead /\ h.promise[q].task # None => h.promise[q].task \in D
  <2> SUFFICES ASSUME NEW q \in D, h.promise[q] # Dead, h.promise[q].task # None
               PROVE  h.promise[q].task \in D
    OBVIOUS
  <2>1. h.promise[q].task \in Places  BY <1>3, <1>4, NameFacts
  <2>2. \A so \in SUBSET Places : p \in so /\ DiesToo(h, so) => h.promise[q].task \in so
    BY <1>2, <1>4 DEF DiesToo, Doomed
  <2> QED BY <2>1, <2>2 DEF Doomed
<1>6. \A q \in D : q # p => \E r \in D : h.promise[r] # Dead /\ h.promise[r].task = q
  <2> SUFFICES ASSUME NEW q \in D, q # p, \A r \in D : h.promise[r] # Dead => h.promise[r].task # q
               PROVE  FALSE
    OBVIOUS
  <2> DEFINE so == D \ {q}
  <2>1. so \in SUBSET Places /\ p \in so  BY <1>4
  <2>2. DiesToo(h, so)  BY <1>2, <1>4, <1>5 DEF DiesToo
  <2>3. q \in so  BY <2>1, <2>2 DEF Doomed
  <2> QED BY <2>3
<1>7. \A r \in Places : h.promise[r] # Dead /\ h.promise[r].task # None =>
         /\ h.promise[r].task \in Conts /\ h.promise[r].state = h.promise[r].task
         /\ h.cont[h.promise[r].task] # Dead /\ h.cont[h.promise[r].task].state = Pending
         /\ Root(cs, h.cont[h.promise[r].task].awaits) = h.promise[r].sets
  BY <1>1, NameFacts DEF PromiseSound
<1>8. \A q \in D : q # p => /\ q \in Conts /\ h.cont[q] # Dead /\ h.cont[q].state = Pending
                            /\ \E r \in D : h.promise[r] # Dead /\ h.promise[r].task = q
  <2> SUFFICES ASSUME NEW q \in D, q # p
               PROVE  /\ q \in Conts /\ h.cont[q] # Dead /\ h.cont[q].state = Pending
                      /\ \E r \in D : h.promise[r] # Dead /\ h.promise[r].task = q
    OBVIOUS
  <2>1. PICK r \in D : h.promise[r] # Dead /\ h.promise[r].task = q  BY <1>6
  <2>2. q # None  BY <1>4, NameFacts
  <2> QED BY <1>4, <1>7, <2>1, <2>2
<1>9. \A q \in D : h.promise[q] # Dead  BY <1>1, <1>8
<1>10. \A r \in Places : h.promise[r] # Dead /\ h.promise[r].state \in D /\ r \notin D
                            => h.promise[r].state = p
  <2> SUFFICES ASSUME NEW r \in Places, h.promise[r] # Dead, h.promise[r].state \in D, r \notin D,
                      h.promise[r].state # p
               PROVE  FALSE
    OBVIOUS
  <2> DEFINE q == h.promise[r].state
  <2>1. PICK r2 \in D : h.promise[r2] # Dead /\ h.promise[r2].task = q  BY <1>8
  <2>2. q \in Conts /\ h.promise[r].task = q  BY <1>1, <1>8 DEF PromiseSound
  <2>3. h.promise[r].sets = h.promise[r2].sets  BY <1>4, <1>7, <2>1, <2>2, NameFacts
  <2>4. r = r2  BY <1>4, <2>1, <2>3 DEF Sound, Distinct
  <2> QED BY <2>4
<1> QED BY <1>4, <1>5, <1>8, <1>9, <1>10

LEMMA DropPromiseHeap ==
    ASSUME NEW h, NEW cs, NEW run, NEW hand, Sound(h, cs, run, {}, {}, hand),
           NEW p \in Places, h.promise[p] # Dead,
           NEW D, D = Doomed(h, p), NEW x, x = DropPromise(h, p)
    PROVE  /\ x \in Heaps /\ x.tasks = h.tasks
           /\ \A q \in Places : x.promise[q] = IF q \in D THEN Dead ELSE h.promise[q]
           /\ \A d \in Conts : x.cont[d] = IF d \in D \ {p} THEN Dead ELSE h.cont[d]
           /\ \A f \in Futures : x.future[f] =
                 IF h.future[f] # Dead /\ h.future[f].promise \in D
                 THEN OwnIs(PromiseIs(h.future[f], None), State(h, f)) ELSE h.future[f]
           /\ h.seen \subseteq x.seen
           /\ \A q \in D : h.promise[q].future = None /\ h.promise[q].state # None
                              /\ Failed(PromiseState(h, q)) => PromiseState(h, q) \in x.seen
<1> DEFINE orphans == {f \in Live(h.future) : h.future[f].promise \in D}
           unseen == {q \in D : /\ h.promise[q].future = None
                                /\ h.promise[q].state # None
                                /\ Failed(PromiseState(h, q))}
           promises == [q \in Places |-> IF q \in D THEN Dead ELSE h.promise[q]]
           conts == [d \in Conts |-> IF d \in D \ {p} THEN Dead ELSE h.cont[d]]
           futures == [f \in Futures |-> IF f \in orphans
                                         THEN OwnIs(PromiseIs(h.future[f], None), State(h, f))
                                         ELSE h.future[f]]
           seen == h.seen \union {PromiseState(h, q) : q \in unseen}
<1>1. /\ h \in Heaps
      /\ \A q \in Places : h.promise[q] # Dead =>
            h.promise[q] \in PromiseObjects /\ PromiseSound(h, cs, q, {})
      /\ \A f \in Futures : h.future[f] # Dead => h.future[f] \in FutureObjects
      /\ \A d \in Conts : h.cont[d] # Dead => h.cont[d] \in ContObjects
  BY SoundObjects
<1>2. /\ p \in D /\ D \subseteq Places /\ \A q \in D : h.promise[q] # Dead
  BY DoomedFacts
<1>3. x = [promise |-> promises, future |-> futures, cont |-> conts, tasks |-> h.tasks, seen |-> seen]
  BY <1>1 DEF DropPromise, Heaps, OwnIs, PromiseIs
<1>4. Live(h.future) = {f \in Futures : h.future[f] # Dead}  BY <1>1 DEF Live, Heaps
<1>5. promises \in [Places -> PromiseObjects \union {Dead}] /\ conts \in [Conts -> ContObjects \union {Dead}]
  BY <1>1 DEF Heaps
<1>6. futures \in [Futures -> FutureObjects \union {Dead}]
  <2> SUFFICES ASSUME NEW f \in Futures PROVE futures[f] \in FutureObjects \union {Dead}
    OBVIOUS
  <2>1. CASE f \in orphans
    <3>1. h.future[f] # Dead /\ h.future[f] \in FutureObjects  BY <1>1, <1>4, <2>1
    <3>2. State(h, f) \in States  BY <3>1, FutureState
    <3>3. None \in Places \union {None}  OBVIOUS
    <3>4. PromiseIs(h.future[f], None) \in FutureObjects
      BY ONLY <3>1, <3>3, FutureFields
    <3>5. OwnIs(PromiseIs(h.future[f], None), State(h, f)) \in FutureObjects
      BY ONLY <3>2, <3>4, FutureFields
    <3> QED BY <2>1, <3>5
  <2>2. CASE f \notin orphans  BY <1>1, <1>4, <2>2
  <2> QED BY <2>1, <2>2
<1>7. seen \subseteq States
  <2> SUFFICES ASSUME NEW q \in unseen PROVE PromiseState(h, q) \in States
    BY <1>1 DEF Heaps
  <2>1. q \in Places /\ h.promise[q] \in PromiseObjects /\ PromiseSound(h, cs, q, {})
        /\ h.promise[q].state # None
    BY <1>1, <1>2
  <2>2. CASE h.promise[q].state = "own"
    BY <2>1, <2>2 DEF PromiseState, PromiseObjects
  <2>3. CASE h.promise[q].state # "own"
    <3>1. h.promise[q].state \in Conts  BY <2>1, <2>3 DEF PromiseObjects
    <3> QED BY <2>1, <2>3, <3>1, StateFacts DEF PromiseState, PromiseSound
  <2> QED BY <2>2, <2>3
<1>8. h.tasks \in Seq(Conts)  BY <1>1 DEF Heaps
<1>9. \A q \in D : h.promise[q].future = None /\ h.promise[q].state # None
                      /\ Failed(PromiseState(h, q)) => PromiseState(h, q) \in seen
  OBVIOUS
<1>10. \A f \in Futures : futures[f] = IF h.future[f] # Dead /\ h.future[f].promise \in D
                                       THEN OwnIs(PromiseIs(h.future[f], None), State(h, f)) ELSE h.future[f]
  BY <1>4
<1>11. h.seen \subseteq seen  OBVIOUS
<1>12. /\ \A q \in Places : promises[q] = IF q \in D THEN Dead ELSE h.promise[q]
       /\ \A d \in Conts : conts[d] = IF d \in D \ {p} THEN Dead ELSE h.cont[d]
  OBVIOUS
<1> HIDE DEF promises, conts, futures, seen
<1>13. /\ x.promise = promises /\ x.future = futures /\ x.cont = conts /\ x.tasks = h.tasks
       /\ x.seen = seen /\ x \in Heaps
  BY <1>3, <1>5, <1>6, <1>7, <1>8 DEF Heaps
<1> QED BY ONLY <1>9, <1>10, <1>11, <1>12, <1>13

Broken(cs, gone) ==
    [k \in DOMAIN cs |-> IF k \in gone /\ cs[k].outcome = Pending
                         THEN [cs[k] EXCEPT !.broken = TRUE] ELSE cs[k]]

LEMMA BrokenCells ==
    ASSUME NEW cs, CellsSound(cs), NEW gone, NEW ds, ds = Broken(cs, gone)
    PROVE  /\ CellsSound(ds) /\ DOMAIN ds = DOMAIN cs
           /\ \A k \in DOMAIN cs : /\ ds[k].outcome = cs[k].outcome /\ ds[k].like = cs[k].like
                                   /\ k \notin gone => ds[k].broken = cs[k].broken
                                   /\ k \in gone /\ cs[k].outcome = Pending => ds[k].broken
                                   /\ cs[k].broken => ds[k].broken
                                   /\ Root(ds, k) = Root(cs, k) /\ OutcomeIn(ds, k) = OutcomeIn(cs, k)
<1>1. /\ cs \in Seq(CellObjects) /\ DOMAIN cs = 1 .. Len(cs) /\ Len(cs) \in Nat
      /\ \A k \in DOMAIN cs : cs[k] \in CellObjects /\ Root(cs, k) \in DOMAIN cs
  BY RootFacts DEF CellsSound
<1>2. DOMAIN ds = DOMAIN cs  BY DEF Broken
<1>3. \A k \in DOMAIN cs : /\ ds[k] \in CellObjects
                           /\ ds[k].outcome = cs[k].outcome /\ ds[k].like = cs[k].like
                           /\ k \notin gone => ds[k].broken = cs[k].broken
                           /\ k \in gone /\ cs[k].outcome = Pending => ds[k].broken
                           /\ cs[k].broken => ds[k].broken
  <2> SUFFICES ASSUME NEW k \in DOMAIN cs
               PROVE       /\ ds[k] \in CellObjects
                           /\ ds[k].outcome = cs[k].outcome /\ ds[k].like = cs[k].like
                           /\ k \notin gone => ds[k].broken = cs[k].broken
                           /\ k \in gone /\ cs[k].outcome = Pending => ds[k].broken
                           /\ cs[k].broken => ds[k].broken
    OBVIOUS
  <2>1. cs[k] \in CellObjects  BY <1>1
  <2>2. ds[k] = IF k \in gone /\ cs[k].outcome = Pending
                THEN [cs[k] EXCEPT !.broken = TRUE] ELSE cs[k]
    BY DEF Broken
  <2> QED BY ONLY <2>1, <2>2 DEF CellObjects
<1> HIDE DEF Broken
<1>4. ds \in Seq(CellObjects) /\ Len(ds) = Len(cs)
  <2>1. ds = [k \in 1 .. Len(cs) |-> ds[k]]  BY <1>1 DEF Broken
  <2> QED BY ONLY <1>1, <1>2, <1>3, <2>1
<1>5. \A k \in DOMAIN cs : Root(ds, k) = Root(cs, k)  BY ONLY <1>3 DEF Root
<1>6. CellsSound(ds)  BY ONLY <1>2, <1>3, <1>4, CellsSound(cs) DEF CellsSound
<1>7. \A k \in DOMAIN cs : OutcomeIn(ds, k) = OutcomeIn(cs, k)
  BY ONLY <1>1, <1>3, <1>5 DEF OutcomeIn
<1> QED BY ONLY <1>2, <1>3, <1>5, <1>6, <1>7

(* A promise dies, and whatever only its tasks would have resolved; when   *)
(* it is that of the continuation that ran, so does the continuation.      *)
Ended(h, p) == IF p \in Conts THEN WithCont(DropPromise(h, p), p, Dead) ELSE DropPromise(h, p)

LEMMA EndedSound ==
    ASSUME NEW h, NEW cs, NEW run, NEW hand,
           NEW p \in Places, run = Conts \intersect {p},
           Sound(h, cs, run, {}, {}, hand), h.promise[p] # Dead,
           NEW x, x = Ended(h, p),
           NEW gone, gone = {h.promise[q].sets : q \in Doomed(h, p)},
           NEW ds, ds = Broken(cs, gone)
    PROVE  /\ Sound(x, ds, {}, {}, {}, hand)
           /\ \A q \in Places : x.promise[q] # Dead => q # p /\ x.promise[q] = h.promise[q]
<1> DEFINE D == Doomed(h, p)
           a == DropPromise(h, p)
<1>0. p \in Places /\ h.promise[p] # Dead /\ run = Conts \intersect {p}  OBVIOUS
<1>1. /\ h \in Heaps /\ CellsSound(cs)
      /\ \A q \in Places : h.promise[q] # Dead =>
            h.promise[q] \in PromiseObjects /\ PromiseSound(h, cs, q, {})
      /\ \A g \in Futures : h.future[g] # Dead =>
            h.future[g] \in FutureObjects /\ FutureSound(h, cs, g, {})
      /\ \A d \in Conts : h.cont[d] # Dead =>
            /\ h.cont[d] \in ContObjects /\ ContSound(h, cs, d, run, {})
            /\ h.promise[d] # Dead
      /\ \A d \in Conts : h.promise[d] # Dead => h.cont[d] # Dead
  BY SoundObjects
<1>2. /\ p \in D /\ D \subseteq Places
      /\ \A q \in D : /\ h.promise[q] # Dead
                      /\ h.promise[q].task = None \/ h.promise[q].task \in D
                      /\ q # p => q \in Conts /\ h.cont[q] # Dead /\ h.cont[q].state = Pending
      /\ \A r \in Places : h.promise[r] # Dead /\ h.promise[r].state \in D /\ r \notin D
            => h.promise[r].state = p
  BY DoomedFacts
<1>3. /\ a \in Heaps /\ a.tasks = h.tasks
      /\ \A q \in Places : a.promise[q] = IF q \in D THEN Dead ELSE h.promise[q]
      /\ \A d \in Conts : a.cont[d] = IF d \in D \ {p} THEN Dead ELSE h.cont[d]
      /\ \A f \in Futures : a.future[f] =
            IF h.future[f] # Dead /\ h.future[f].promise \in D
            THEN OwnIs(PromiseIs(h.future[f], None), State(h, f)) ELSE h.future[f]
      /\ h.seen \subseteq a.seen
      /\ \A q \in D : h.promise[q].future = None /\ h.promise[q].state # None
                         /\ Failed(PromiseState(h, q)) => PromiseState(h, q) \in a.seen
  <2>1. D = Doomed(h, p) /\ a = DropPromise(h, p)  OBVIOUS
  <2> HIDE DEF D, a
  <2> QED BY ONLY <1>0, <2>1, Sound(h, cs, run, {}, {}, hand), DropPromiseHeap
<1>4. x = IF p \in Conts THEN WithCont(a, p, Dead) ELSE a  BY DEF Ended
<1>5. gone = {h.promise[q].sets : q \in D}  OBVIOUS
<1> HIDE DEF D, a
<1>6. /\ x \in Heaps /\ x.tasks = h.tasks
      /\ \A q \in Places : x.promise[q] = IF q \in D THEN Dead ELSE h.promise[q]
      /\ \A d \in Conts : x.cont[d] = IF d \in D THEN Dead ELSE h.cont[d]
      /\ \A f \in Futures : x.future[f] =
            IF h.future[f] # Dead /\ h.future[f].promise \in D
            THEN OwnIs(PromiseIs(h.future[f], None), State(h, f)) ELSE h.future[f]
      /\ h.seen \subseteq x.seen
      /\ \A q \in D : h.promise[q].future = None /\ h.promise[q].state # None
                         /\ Failed(PromiseState(h, q)) => PromiseState(h, q) \in x.seen
  <2>1. CASE p \in Conts
    <3>1. x = WithCont(a, p, Dead)  BY <1>4, <2>1
    <3>2. /\ x \in Heaps /\ x.cont[p] = Dead
          /\ \A d \in Conts : d # p => x.cont[d] = a.cont[d]
          /\ x.promise = a.promise /\ x.future = a.future /\ x.tasks = a.tasks /\ x.seen = a.seen
      BY ONLY <1>3, <2>1, <3>1, WithContHeap
    <3> QED BY ONLY <1>2, <1>3, <3>2
  <2>2. CASE p \notin Conts  BY ONLY <1>3, <1>4, <2>2
  <2> QED BY <2>1, <2>2
<1>7. /\ CellsSound(ds) /\ DOMAIN ds = DOMAIN cs
      /\ \A k \in DOMAIN cs : /\ ds[k].outcome = cs[k].outcome /\ ds[k].like = cs[k].like
                              /\ k \notin gone => ds[k].broken = cs[k].broken
                              /\ k \in gone /\ cs[k].outcome = Pending => ds[k].broken
                              /\ cs[k].broken => ds[k].broken
                              /\ Root(ds, k) = Root(cs, k) /\ OutcomeIn(ds, k) = OutcomeIn(cs, k)
  BY ONLY <1>1, BrokenCells, ds = Broken(cs, gone)
<1>8. Distinct(h) /\ Tasked(h, run, {}) /\ Awaited(h, cs, run, {}) /\ ErrorsSound(h, cs, run, hand)
  BY DEF Sound
<1>9. \A f \in Futures : h.future[f] # Dead /\ h.future[f].promise \in D =>
         /\ x.future[f] # Dead /\ x.future[f].promise = None /\ x.future[f].own = State(h, f)
         /\ x.future[f].cell = h.future[f].cell
  <2> SUFFICES ASSUME NEW f \in Futures, h.future[f] # Dead, h.future[f].promise \in D
               PROVE  /\ x.future[f] # Dead /\ x.future[f].promise = None /\ x.future[f].own = State(h, f)
                      /\ x.future[f].cell = h.future[f].cell
    OBVIOUS
  <2> DEFINE b == PromiseIs(h.future[f], None)
  <2>1. h.future[f] \in FutureObjects /\ None \in Places \union {None}  BY <1>1
  <2>2. b \in FutureObjects /\ b.promise = None /\ b.cell = h.future[f].cell
    BY ONLY <2>1, FutureFields
  <2>3. State(h, f) \in States  BY FutureState
  <2>4. x.future[f] = OwnIs(b, State(h, f))  BY <1>6
  <2> HIDE DEF b
  <2> QED BY ONLY <2>2, <2>3, <2>4, FutureFields
<1>10. \A q \in Places : h.promise[q] # Dead /\ h.promise[q].sets \in gone => q \in D
  BY ONLY <1>2, <1>5, <1>8 DEF Distinct
<1>11. \A r \in Places : h.promise[r] # Dead /\ r \notin D /\ h.promise[r].state \in Conts =>
          h.promise[r].state \notin D
  <2> SUFFICES ASSUME NEW r \in Places, h.promise[r] # Dead, r \notin D,
                      h.promise[r].state \in Conts, h.promise[r].state \in D
               PROVE  FALSE
    OBVIOUS
  <2>1. h.promise[r].state = p  BY <1>2
  <2>2. p \in run /\ h.cont[p] # Dead /\ h.cont[p].state = Pending
    BY <1>0, <1>1, <2>1 DEF PromiseSound
  <2> QED BY <1>1, <2>1, <2>2 DEF ContSound
<1>12. Distinct(x)  BY ONLY <1>6, <1>8 DEF Distinct
<1>13. Tasked(x, {}, {})
  <2>1. \A d \in Conts : Queued(x, d, {}, {}) <=> Queued(h, d, run, {})
    BY ONLY <1>0, <1>2, <1>6 DEF Queued
  <2> QED BY ONLY <1>6, <1>8, <2>1 DEF Tasked, Indicator
<1>14. Promised(x, ds, {})
  <2> SUFFICES ASSUME NEW q \in Places, x.promise[q] # Dead PROVE PromiseSound(x, ds, q, {})
    BY DEF Promised
  <2>1. h.promise[q] \in PromiseObjects /\ PromiseSound(h, cs, q, {}) /\ x.promise[q] = h.promise[q]
        /\ h.promise[q] # Dead /\ q \notin D
    BY <1>1, <1>6
  <2>2. h.promise[q].sets \notin gone  BY <1>10, <2>1
  <2>3. h.promise[q].state \in Conts => x.cont[h.promise[q].state] = h.cont[h.promise[q].state]
                                        /\ h.cont[h.promise[q].state].awaits \in DOMAIN cs
    <3>1. h.promise[q].state \in Conts => h.cont[h.promise[q].state].awaits \in DOMAIN cs
      BY ONLY <1>1, <2>1 DEF PromiseSound, ContSound
    <3> QED BY <1>6, <1>11, <2>1, <3>1
  <2>4. h.promise[q].future # None => x.future[h.promise[q].future] = h.future[h.promise[q].future]
    BY ONLY <1>6, <2>1 DEF PromiseSound, PromiseObjects
  <2> QED BY ONLY <1>7, <2>1, <2>2, <2>3, <2>4 DEF PromiseSound
<1>15. Expected(x, ds, {})
  <2> SUFFICES ASSUME NEW g \in Futures, x.future[g] # Dead PROVE FutureSound(x, ds, g, {})
    BY DEF Expected
  <2>1. h.future[g] # Dead /\ h.future[g] \in FutureObjects /\ FutureSound(h, cs, g, {})
    BY <1>1, <1>6
  <2>2. h.future[g].cell \in DOMAIN cs /\ Root(cs, h.future[g].cell) \in DOMAIN cs
    BY ONLY <1>1, <2>1, RootFacts DEF FutureSound
  <2>3. CASE h.future[g].promise \in D
    <3>1. State(h, g) = OutcomeIn(cs, h.future[g].cell)  BY <2>1, FutureState
    <3>2. Root(cs, h.future[g].cell) \in gone
      BY ONLY <1>1, <1>2, <1>5, <2>1, <2>3, NameFacts DEF FutureSound, PromiseSound
    <3> QED BY ONLY <1>7, <1>9, <2>1, <2>2, <2>3, <3>1, <3>2, g \in Futures DEF FutureSound, OutcomeIn
  <2>4. CASE h.future[g].promise \notin D
    <3>1. x.future[g] = h.future[g]  BY <1>6, <2>4
    <3> QED BY ONLY <1>6, <1>7, <2>1, <2>2, <2>4, <3>1 DEF FutureSound, FutureObjects
  <2> QED BY <2>3, <2>4
<1>16. Awaited(x, ds, {}, {})
  <2> SUFFICES ASSUME NEW d \in Conts
               PROVE  /\ x.cont[d] = Dead => x.promise[d] = Dead
                      /\ x.cont[d] # Dead => ContSound(x, ds, d, {}, {})
    BY DEF Awaited
  <2>0. d \in Places /\ d # None  BY NameFacts
  <2>1. CASE d \in D  BY ONLY <1>6, <2>0, <2>1, d \in Conts
  <2>2. CASE d \notin D
    <3>1. x.cont[d] = h.cont[d] /\ x.promise[d] = h.promise[d] /\ d \notin run
      BY <1>0, <1>2, <1>6, <2>0, <2>2
    <3>2. ASSUME h.cont[d] # Dead PROVE ContSound(x, ds, d, {}, {})
      <4>1. ContSound(h, cs, d, run, {}) /\ h.promise[d].sets \in DOMAIN cs
        BY <1>1, <2>0, <3>2 DEF PromiseSound
      <4>2. h.cont[d].state = Pending => \E q \in Places : x.promise[q] # Dead /\ x.promise[q].task = d
        <5>1. h.cont[d].state = Pending => \E q \in Places : h.promise[q] # Dead /\ h.promise[q].task = d
          BY ONLY <4>1 DEF ContSound
        <5> QED BY ONLY <1>2, <1>6, <2>0, <2>2, <5>1
      <4> QED BY ONLY <1>7, <3>1, <4>1, <4>2 DEF ContSound
    <3> QED BY ONLY <1>8, <3>1, <3>2, d \in Conts DEF Awaited
  <2> QED BY <2>1, <2>2
<1>17. \A e : Failed(e) /\ HeldIn(h, run, e) => HeldIn(x, {}, e) \/ e \in x.seen
  <2> SUFFICES ASSUME NEW e, Failed(e), HeldIn(h, run, e) PROVE HeldIn(x, {}, e) \/ e \in x.seen
    OBVIOUS
  <2>0. e # Pending  BY StateFacts
  <2>1. \A g \in Futures : h.future[g] # Dead => x.future[g] # Dead /\ State(x, g) = State(h, g)
    <3> SUFFICES ASSUME NEW g \in Futures, h.future[g] # Dead
                 PROVE  x.future[g] # Dead /\ State(x, g) = State(h, g)
      OBVIOUS
    <3>1. CASE h.future[g].promise \in D  BY <1>9, <3>1 DEF State
    <3>2. CASE h.future[g].promise \notin D
      <4>1. x.future[g] = h.future[g]  BY <1>6, <3>2
      <4>2. h.future[g].promise # None => /\ h.future[g].promise \in Places
                                          /\ h.promise[h.future[g].promise].state = "own"
        BY FutureState
      <4> QED BY ONLY <1>6, <3>2, <4>1, <4>2, h.future[g] # Dead DEF State, PromiseState
    <3> QED BY <3>1, <3>2
  <2>2. CASE \E g \in Futures : h.future[g] # Dead /\ State(h, g) = e
    BY ONLY <2>1, <2>2 DEF HeldIn
  <2>3. CASE \E q \in Places : h.promise[q] # Dead /\ h.promise[q].state # None /\ PromiseState(h, q) = e
    <3>1. PICK q \in Places : h.promise[q] # Dead /\ h.promise[q].state # None /\ PromiseState(h, q) = e
      BY <2>3
    <3>2. h.promise[q] \in PromiseObjects /\ PromiseSound(h, cs, q, {})
      BY <1>1, <3>1
    <3>3. CASE q \in D
      <4>1. CASE h.promise[q].future = None  BY <1>6, <3>1, <3>3, <4>1
      <4>2. CASE h.promise[q].future # None
        <5>1. /\ h.promise[q].future \in Futures /\ h.future[h.promise[q].future] # Dead
              /\ h.future[h.promise[q].future].promise = q
          BY <3>2, <4>2 DEF PromiseSound, PromiseObjects
        <5>2. State(h, h.promise[q].future) = e
          BY ONLY <3>1, <5>1, NameFacts DEF State
        <5> QED BY <2>2, <5>1, <5>2
      <4> QED BY <4>1, <4>2
    <3>4. CASE q \notin D
      <4>1. x.promise[q] = h.promise[q]  BY <1>6, <3>4
      <4>2. h.promise[q].state \in Conts => x.cont[h.promise[q].state] = h.cont[h.promise[q].state]
        BY <1>6, <1>11, <3>1, <3>4
      <4>3. h.promise[q].state \in Conts \union {"own"}
        BY <3>1, <3>2 DEF PromiseObjects
      <4> QED BY ONLY <3>1, <4>1, <4>2, <4>3 DEF HeldIn, PromiseState
    <3> QED BY <3>3, <3>4
  <2>4. CASE \E d \in Conts : h.cont[d] # Dead /\ d \notin run /\ h.cont[d].state = e
    <3>1. PICK d \in Conts : h.cont[d] # Dead /\ d \notin run /\ h.cont[d].state = e
      BY <2>4
    <3>2. d \notin D  BY <1>0, <1>2, <2>0, <3>1
    <3> QED BY <1>6, <3>1, <3>2 DEF HeldIn
  <2> QED BY <2>2, <2>3, <2>4 DEF HeldIn
<1>18. ErrorsSound(x, ds, {}, hand)
  BY ONLY <1>6, <1>7, <1>8, <1>17, StateFacts DEF ErrorsSound
<1>19. x.promise[p] = Dead  BY <1>2, <1>6
<1>20. \A q \in Places : x.promise[q] # Dead => q # p /\ x.promise[q] = h.promise[q]
  BY ONLY <1>2, <1>6
<1> QED BY <1>6, <1>7, <1>12, <1>13, <1>14, <1>15, <1>16, <1>18, <1>19, <1>20 DEF Sound

-----------------------------------------------------------------------------
LEMMA FollowCells ==
    ASSUME NEW cs, CellsSound(cs), NEW k \in DOMAIN cs, cs[k].like = 0, cs[k].outcome = Pending,
           NEW j \in DOMAIN cs, Root(cs, j) # k, NEW ds, ds = Follow(cs, k, j)
    PROVE  /\ CellsSound(ds) /\ DOMAIN ds = DOMAIN cs
           /\ \A i \in DOMAIN cs :
                 /\ ds[i].outcome = cs[i].outcome /\ ds[i].broken = cs[i].broken
                 /\ Root(cs, i) # k => ds[i] = cs[i] /\ Root(ds, i) = Root(cs, i)
                                       /\ OutcomeIn(ds, i) = OutcomeIn(cs, i)
                 /\ Root(cs, i) = k => Root(ds, i) = Root(cs, j) /\ OutcomeIn(ds, i) = OutcomeIn(cs, j)
<1> DEFINE o == Root(cs, j)
<1>0. o = Root(cs, j) /\ o # k  OBVIOUS
<1>1. /\ cs \in Seq(CellObjects) /\ DOMAIN cs = 1 .. Len(cs) /\ Len(cs) \in Nat /\ Len(cs) <= MaxCells
      /\ \A i \in DOMAIN cs : cs[i] \in CellObjects /\ Root(cs, i) \in DOMAIN cs
      /\ o \in DOMAIN cs /\ cs[o].like = 0 /\ Root(cs, o) = o /\ o \in 1 .. MaxCells
      /\ \A i \in DOMAIN cs : cs[i].like # 0 =>
            /\ cs[i].like \in DOMAIN cs /\ cs[cs[i].like].like = 0 /\ cs[i].outcome = Pending
  BY RootFacts DEF CellsSound, Numbers
<1> HIDE DEF o
<1>2. DOMAIN ds = DOMAIN cs  BY DEF Follow
<1>3. \A i \in DOMAIN cs : ds[i] = IF Root(cs, i) = k THEN [cs[i] EXCEPT !.like = o] ELSE cs[i]
  BY <1>0 DEF Follow
<1>4. \A i \in DOMAIN cs : /\ ds[i] \in CellObjects
                           /\ ds[i].outcome = cs[i].outcome /\ ds[i].broken = cs[i].broken
                           /\ ds[i].like = IF Root(cs, i) = k THEN o ELSE cs[i].like
                           /\ Root(cs, i) # k => ds[i] = cs[i]
  <2> SUFFICES ASSUME NEW i \in DOMAIN cs
               PROVE       /\ ds[i] \in CellObjects
                           /\ ds[i].outcome = cs[i].outcome /\ ds[i].broken = cs[i].broken
                           /\ ds[i].like = IF Root(cs, i) = k THEN o ELSE cs[i].like
                           /\ Root(cs, i) # k => ds[i] = cs[i]
    OBVIOUS
  <2>1. cs[i] \in CellObjects /\ o \in 0 .. MaxCells  BY <1>1, SlotsAssumption
  <2>2. ds[i] = IF Root(cs, i) = k THEN [cs[i] EXCEPT !.like = o] ELSE cs[i]
    BY <1>3
  <2> QED BY ONLY <2>1, <2>2 DEF CellObjects
<1>5. ds \in Seq(CellObjects) /\ Len(ds) = Len(cs)
  <2>1. ds = [i \in 1 .. Len(cs) |-> ds[i]]  BY <1>1 DEF Follow
  <2> QED BY ONLY <1>1, <1>2, <1>4, <2>1
<1>6. o # 0 /\ k # 0  BY <1>1
<1>7. \A i \in DOMAIN cs : Root(cs, i) = k => i = k \/ cs[i].like = k  BY DEF Root
<1>8. \A i \in DOMAIN cs : Root(ds, i) = IF Root(cs, i) = k THEN o ELSE Root(cs, i)
  BY ONLY <1>4, <1>6 DEF Root
<1>9. ds[o] = cs[o]  BY <1>0, <1>1, <1>4
<1>10. CellsSound(ds)
  <2> SUFFICES ASSUME NEW i \in DOMAIN ds, ds[i].like # 0
               PROVE  ds[i].like \in DOMAIN ds /\ ds[ds[i].like].like = 0 /\ ds[i].outcome = Pending
    BY <1>1, <1>5 DEF CellsSound
  <2>1. CASE Root(cs, i) = k
    <3>1. cs[i].outcome = Pending  BY <1>1, <1>2, <1>6, <1>7, <2>1
    <3> QED BY <1>1, <1>2, <1>4, <1>9, <2>1, <3>1
  <2>2. CASE Root(cs, i) # k
    <3>1. ds[i] = cs[i] /\ cs[i].like \in DOMAIN cs /\ cs[cs[i].like].like = 0 /\ cs[i].outcome = Pending
      BY SMTT(200), <1>1, <1>2, <1>4, <2>2
    <3>2. Root(cs, i) = cs[i].like /\ Root(cs, cs[i].like) = cs[i].like
      BY ONLY <3>1, <2>2, ds[i].like # 0 DEF Root
    <3> QED BY <1>2, <1>4, <2>2, <3>1, <3>2
  <2> QED BY <2>1, <2>2
<1> QED BY <1>0, <1>1, <1>2, <1>4, <1>8, <1>9, <1>10 DEF OutcomeIn

(* A promise takes the place of one whose future was returned, or passed   *)
(* on, instead of an outcome.                                              *)
LEMMA JoinSound ==
    ASSUME NEW h, NEW cs, NEW run, NEW hand, NEW p \in Places, run = Conts \intersect {p},
           Sound(h, cs, run, {}, {}, hand),
           h.promise[p] # Dead, h.promise[p].state # None, PromiseState(h, p) = Pending,
           NEW q \in Places, q # p, h.promise[q] # Dead, h.promise[q].future = None,
           h.promise[q].state = "own", h.promise[q].own = Pending,
           NEW k, k = h.promise[p].sets, NEW o, o = h.promise[q].sets,
           NEW j \in DOMAIN cs, Root(cs, j) = o, NEW ds, ds = Follow(cs, k, j),
           NEW a, a = MovePromise(h, p, q), NEW b, b = WithPromise(a, q, SetsIs(a.promise[q], o)),
           NEW x, x = IF p \in Conts THEN WithCont(b, p, Dead) ELSE b
    PROVE  Sound(x, ds, {}, {}, {}, hand)
<1> DEFINE f == h.promise[p].future
<1>0. /\ p \in Places /\ q \in Places /\ q # p /\ h.promise[p] # Dead /\ h.promise[q] # Dead
      /\ h.promise[q].future = None /\ h.promise[q].state = "own" /\ h.promise[q].own = Pending
      /\ run = Conts \intersect {p} /\ h.promise[p].state # None /\ PromiseState(h, p) = Pending
      /\ k = h.promise[p].sets /\ o = h.promise[q].sets /\ p # None /\ q # None
  BY NameFacts
<1>1. /\ h \in Heaps /\ CellsSound(cs)
      /\ \A r \in Places : h.promise[r] # Dead =>
            h.promise[r] \in PromiseObjects /\ PromiseSound(h, cs, r, {})
      /\ \A g \in Futures : h.future[g] # Dead =>
            h.future[g] \in FutureObjects /\ FutureSound(h, cs, g, {})
      /\ \A d \in Conts : h.cont[d] # Dead =>
            /\ h.cont[d] \in ContObjects /\ ContSound(h, cs, d, run, {})
            /\ h.promise[d] # Dead
      /\ \A d \in Conts : h.promise[d] # Dead => h.cont[d] # Dead
  BY SoundObjects
<1>2. Distinct(h) /\ Tasked(h, run, {}) /\ Awaited(h, cs, run, {}) /\ ErrorsSound(h, cs, run, hand)
  BY DEF Sound
<1>3. /\ h.promise[p] \in PromiseObjects /\ PromiseSound(h, cs, p, {})
      /\ h.promise[q] \in PromiseObjects /\ PromiseSound(h, cs, q, {})
  BY <1>1
<1>4. f # None => /\ f \in Futures /\ h.future[f] # Dead /\ h.future[f] \in FutureObjects
                  /\ h.future[f].promise = p /\ FutureSound(h, cs, f, {})
                  /\ h.promise[p].state = "own"
  BY <1>1, <1>3 DEF PromiseSound, PromiseObjects
<1>5. f = h.promise[p].future  OBVIOUS
<1> HIDE DEF f
<1>6. /\ k \in DOMAIN cs /\ cs[k].like = 0 /\ cs[k].outcome = Pending /\ ~cs[k].broken
      /\ o \in DOMAIN cs /\ cs[o].like = 0 /\ cs[o].outcome = Pending /\ ~cs[o].broken
      /\ o # k /\ o \in Numbers
  <2>1. o # k  BY ONLY <1>0, <1>2 DEF Distinct
  <2>2. o \in DOMAIN cs /\ cs[o].like = 0 /\ cs[o].outcome = Pending /\ ~cs[o].broken
    BY ONLY <1>0, <1>3, StateFacts DEF PromiseSound
  <2>3. k \in DOMAIN cs /\ cs[k].like = 0 /\ ~cs[k].broken
    BY ONLY <1>0, <1>3 DEF PromiseSound
  <2>4. cs[k].outcome = Pending
    <3>1. CASE h.promise[p].state = "own"
      BY ONLY <1>0, <1>3, <3>1, StateFacts DEF PromiseSound, PromiseState
    <3>2. CASE h.promise[p].state # "own"
      BY ONLY <1>0, <1>3, <3>2 DEF PromiseSound, PromiseObjects
    <3> QED BY <3>1, <3>2
  <2>5. o \in Numbers  BY <1>1, <2>2, RootFacts
  <2> QED BY <2>1, <2>2, <2>3, <2>4, <2>5
<1>7. /\ CellsSound(ds) /\ DOMAIN ds = DOMAIN cs
      /\ \A i \in DOMAIN cs :
            /\ ds[i].outcome = cs[i].outcome /\ ds[i].broken = cs[i].broken
            /\ Root(cs, i) # k => ds[i] = cs[i] /\ Root(ds, i) = Root(cs, i)
                                  /\ OutcomeIn(ds, i) = OutcomeIn(cs, i)
            /\ Root(cs, i) = k => Root(ds, i) = o /\ OutcomeIn(ds, i) = Pending
  <2>1. OutcomeIn(cs, j) = Pending  BY <1>6 DEF OutcomeIn
  <2> QED BY ONLY <1>1, <1>6, <2>1, FollowCells, j \in DOMAIN cs, Root(cs, j) = o, ds = Follow(cs, k, j)
<1>8. /\ a \in Heaps /\ a.promise[q] = h.promise[p] /\ a.promise[p] = Dead
      /\ \A r \in Places : r # p /\ r # q => a.promise[r] = h.promise[r]
      /\ f # None => a.future[f] = PromiseIs(h.future[f], q)
      /\ \A g \in Futures : g # f => a.future[g] = h.future[g]
      /\ a.cont = h.cont /\ a.tasks = h.tasks /\ a.seen = h.seen
  BY ONLY <1>0, <1>1, <1>3, <1>4, <1>5, MovePromiseHeap, a = MovePromise(h, p, q)
<1>9. /\ b \in Heaps /\ b.promise[q] = SetsIs(h.promise[p], o) /\ b.promise[p] = Dead
      /\ \A r \in Places : r # p /\ r # q => b.promise[r] = h.promise[r]
      /\ b.future = a.future /\ b.cont = a.cont /\ b.tasks = a.tasks /\ b.seen = a.seen
  <2> DEFINE e == SetsIs(a.promise[q], o)
  <2>1. e \in PromiseObjects \union {Dead} /\ e = SetsIs(h.promise[p], o)
    BY <1>3, <1>6, <1>8, PromiseFields
  <2>2. b = WithPromise(a, q, e)  OBVIOUS
  <2> HIDE DEF e
  <2>3. /\ b \in Heaps /\ b.promise[q] = e
        /\ \A r \in Places : r # q => b.promise[r] = a.promise[r]
        /\ b.future = a.future /\ b.cont = a.cont /\ b.tasks = a.tasks /\ b.seen = a.seen
    BY ONLY <1>0, <1>8, <2>1, <2>2, WithPromiseHeap
  <2> QED BY ONLY <1>0, <1>8, <2>1, <2>3
<1>10. /\ x \in Heaps /\ x.promise[q] = SetsIs(h.promise[p], o) /\ x.promise[p] = Dead
       /\ \A r \in Places : r # p /\ r # q => x.promise[r] = h.promise[r]
       /\ f # None => x.future[f] = PromiseIs(h.future[f], q)
       /\ \A g \in Futures : g # f => x.future[g] = h.future[g]
       /\ x.tasks = h.tasks /\ x.seen = h.seen
       /\ \A d \in Conts : x.cont[d] = IF d = p THEN Dead ELSE h.cont[d]
  <2>1. CASE p \in Conts
    <3>1. x = WithCont(b, p, Dead)  BY <2>1
    <3>2. /\ x \in Heaps /\ x.cont[p] = Dead
          /\ \A d \in Conts : d # p => x.cont[d] = b.cont[d]
          /\ x.promise = b.promise /\ x.future = b.future /\ x.tasks = b.tasks /\ x.seen = b.seen
      BY ONLY <1>9, <2>1, <3>1, WithContHeap
    <3> QED BY ONLY <1>8, <1>9, <3>2
  <2>2. CASE p \notin Conts
    BY ONLY <1>8, <1>9, <2>2, x = IF p \in Conts THEN WithCont(b, p, Dead) ELSE b
  <2> QED BY <2>1, <2>2
<1>11. /\ x.promise[q] # Dead /\ x.promise[q].sets = o
       /\ x.promise[q].future = f /\ x.promise[q].own = h.promise[p].own
       /\ x.promise[q].state = h.promise[p].state /\ x.promise[q].task = h.promise[p].task
       /\ x.promise[q].cell = h.promise[p].cell /\ x.promise[q].given = h.promise[p].given
  BY ONLY <1>3, <1>5, <1>6, <1>10, PromiseFields
<1>12. f # None => /\ x.future[f] # Dead /\ x.future[f].promise = q
                   /\ x.future[f].own = h.future[f].own /\ x.future[f].cell = h.future[f].cell
  <2>1. q \in Places \union {None}  BY <1>0
  <2>2. f # None => h.future[f] \in FutureObjects /\ x.future[f] = PromiseIs(h.future[f], q)
    BY <1>4, <1>10
  <2> QED BY ONLY <2>1, <2>2, PromiseIsFields
<1>13. Distinct(x)  BY ONLY <1>0, <1>2, <1>10, <1>11 DEF Distinct
<1>14. Tasked(x, {}, {})
  <2>1. \A d \in Conts : Queued(x, d, {}, {}) <=> Queued(h, d, run, {})
    BY ONLY <1>0, <1>10 DEF Queued
  <2> QED BY ONLY <1>2, <1>10, <2>1 DEF Tasked, Indicator
<1>15. \A r \in Places : h.promise[r] # Dead /\ h.promise[r].state \in Conts =>
          /\ h.promise[r].state # p /\ x.cont[h.promise[r].state] = h.cont[h.promise[r].state]
          /\ h.cont[h.promise[r].state].awaits \in DOMAIN cs
  <2> SUFFICES ASSUME NEW r \in Places, h.promise[r] # Dead, h.promise[r].state \in Conts
               PROVE  /\ h.promise[r].state # p /\ x.cont[h.promise[r].state] = h.cont[h.promise[r].state]
                      /\ h.cont[h.promise[r].state].awaits \in DOMAIN cs
    OBVIOUS
  <2>1. /\ h.cont[h.promise[r].state] # Dead /\ h.cont[h.promise[r].state].state = Pending
        /\ ContSound(h, cs, h.promise[r].state, run, {})
    BY <1>1 DEF PromiseSound
  <2>2. h.promise[r].state # p
    BY ONLY <1>0, <2>1, h.promise[r].state \in Conts DEF ContSound
  <2> QED BY ONLY <1>10, <2>1, <2>2, h.promise[r].state \in Conts DEF ContSound
<1>16. Promised(x, ds, {})
  <2> SUFFICES ASSUME NEW r \in Places, x.promise[r] # Dead PROVE PromiseSound(x, ds, r, {})
    BY DEF Promised
  <2>1. CASE r = q
    <3>1. \/ h.promise[p].state = "own" /\ h.promise[p].own = Pending
          \/ h.promise[p].state \in Conts
      BY ONLY <1>0, <1>3 DEF PromiseState, PromiseObjects
    <3>2. /\ o \in DOMAIN ds /\ ds[o].like = 0 /\ ~ds[o].broken /\ ds[o].outcome = Pending
          /\ h.promise[p].cell \in DOMAIN ds /\ Root(ds, h.promise[p].cell) = o
          /\ Root(cs, o) = o
      BY ONLY <1>0, <1>3, <1>6, <1>7 DEF PromiseSound, Root
    <3>3. CASE h.promise[p].state = "own" /\ h.promise[p].own = Pending
      BY ONLY ZenonT(60), <1>0, <1>3, <1>4, <1>5, <1>11, <1>12, <2>1, <3>2, <3>3, NameFacts, StateFacts
         DEF PromiseSound
    <3>4. CASE h.promise[p].state \in Conts
      <4>1. f = None  BY <1>4, <3>4, NameFacts
      <4>2. LET c == h.promise[p].state IN
            /\ h.promise[p].task = c /\ x.cont[c] = h.cont[c] /\ h.cont[c] # Dead
            /\ h.cont[c].state = Pending /\ Root(ds, h.cont[c].awaits) = o
            /\ h.promise[p].given /\ c # None /\ c # "own"
        BY ONLY <1>0, <1>3, <1>7, <1>15, <3>4, NameFacts DEF PromiseSound
      <4> QED BY ONLY <1>11, <2>1, <3>2, <3>4, <4>1, <4>2 DEF PromiseSound
    <3> QED BY <3>1, <3>3, <3>4
  <2>2. CASE r # q
    <3>1. r # p /\ h.promise[r] # Dead /\ h.promise[r] \in PromiseObjects
          /\ PromiseSound(h, cs, r, {}) /\ x.promise[r] = h.promise[r]
      BY <1>1, <1>10, <2>2
    <3>2. h.promise[r].sets # k  BY ONLY <1>0, <1>2, <3>1, r \in Places DEF Distinct
    <3>3. h.promise[r].future # None => x.future[h.promise[r].future] = h.future[h.promise[r].future]
      <4>1. h.promise[r].future # None => h.promise[r].future \in Futures /\ h.promise[r].future # f
        BY <1>4, <3>1 DEF PromiseSound, PromiseObjects
      <4> QED BY <1>10, <4>1
    <3>4. Root(cs, h.promise[r].sets) = h.promise[r].sets
      BY ONLY <3>1 DEF PromiseSound, Root
    <3> QED BY ONLY ZenonT(60), <1>7, <1>15, <3>1, <3>2, <3>3, <3>4, r \in Places DEF PromiseSound
  <2> QED BY <2>1, <2>2
<1>17. Expected(x, ds, {})
  <2> SUFFICES ASSUME NEW g \in Futures, x.future[g] # Dead PROVE FutureSound(x, ds, g, {})
    BY DEF Expected
  <2>1. CASE g = f
    <3>1. f # None  BY <2>1, NameFacts
    <3> QED BY ONLY <1>0, <1>4, <1>7, <1>11, <1>12, <2>1, <3>1 DEF FutureSound
  <2>2. CASE g # f
    <3>1. h.future[g] \in FutureObjects /\ FutureSound(h, cs, g, {}) /\ x.future[g] = h.future[g]
      BY <1>1, <1>10, <2>2
    <3>2. h.future[g].cell \in DOMAIN cs /\ Root(cs, h.future[g].cell) \in DOMAIN cs
      BY ONLY <1>1, <3>1, RootFacts DEF FutureSound
    <3>3. CASE h.future[g].promise = None
      <4>1. Root(cs, h.future[g].cell) # k
        BY ONLY <1>6, <3>1, <3>3 DEF FutureSound, OutcomeIn
      <4> QED BY ONLY <1>7, <3>1, <3>2, <3>3, <4>1 DEF FutureSound
    <3>4. CASE h.future[g].promise # None
      <4>1. h.future[g].promise \in Places /\ h.future[g].promise # p /\ h.future[g].promise # q
        BY ONLY <1>0, <1>5, <2>2, <3>1, <3>4, g \in Futures, NameFacts DEF FutureSound, FutureObjects
      <4> QED BY ONLY <1>7, <1>10, <3>1, <3>2, <3>4, <4>1 DEF FutureSound
    <3> QED BY <3>3, <3>4
  <2> QED BY <2>1, <2>2
<1>18. Awaited(x, ds, {}, {})
  <2> SUFFICES ASSUME NEW d \in Conts
               PROVE  /\ x.cont[d] = Dead => x.promise[d] = Dead
                      /\ x.cont[d] # Dead => ContSound(x, ds, d, {}, {})
    BY DEF Awaited
  <2>0. d \in Places /\ d # None  BY NameFacts
  <2>1. CASE d = p  BY ONLY <1>0, <1>10, <2>1, d \in Conts
  <2>2. CASE d # p
    <3>1. x.cont[d] = h.cont[d] /\ d \notin run  BY <1>0, <1>10, <2>2
    <3>2. x.promise[d] = Dead <=> h.promise[d] = Dead
      BY ONLY <1>0, <1>10, <1>11, <2>0, <2>2
    <3>3. ASSUME h.cont[d] # Dead PROVE ContSound(x, ds, d, {}, {})
      <4>1. ContSound(h, cs, d, run, {}) /\ h.promise[d] # Dead /\ PromiseSound(h, cs, d, {})
        BY <1>1, <2>0, <3>3
      <4>2. ds[x.promise[d].sets].outcome = Pending
        <5>1. CASE d = q  BY ONLY <1>6, <1>7, <1>11, <5>1
        <5>2. CASE d # q
          BY ONLY <1>7, <1>10, <2>0, <2>2, <3>1, <4>1, <5>2 DEF ContSound, PromiseSound
        <5> QED BY <5>1, <5>2
      <4>3. h.cont[d].state = Pending => \E r \in Places : x.promise[r] # Dead /\ x.promise[r].task = d
        <5>1. h.cont[d].state = Pending => \E r \in Places : h.promise[r] # Dead /\ h.promise[r].task = d
          BY ONLY <4>1 DEF ContSound
        <5>2. h.promise[q].task # d
          BY ONLY <1>0, <1>3, <2>0, NameFacts DEF PromiseSound
        <5> QED BY ONLY <1>0, <1>10, <1>11, <5>1, <5>2
      <4>4. h.cont[d].state = OutcomeIn(ds, h.cont[d].awaits) /\ h.cont[d].awaits \in DOMAIN ds
        <5>1. h.cont[d].state = OutcomeIn(cs, h.cont[d].awaits) /\ h.cont[d].awaits \in DOMAIN cs
          BY ONLY <4>1 DEF ContSound
        <5> QED BY ONLY <1>6, <1>7, <5>1 DEF OutcomeIn
      <4> QED BY ONLY <1>7, <3>1, <3>2, <4>1, <4>2, <4>3, <4>4 DEF ContSound
    <3> QED BY ONLY <1>2, <3>1, <3>2, <3>3, d \in Conts DEF Awaited
  <2> QED BY <2>1, <2>2
<1>19. \A e : e # Pending /\ HeldIn(h, run, e) => HeldIn(x, {}, e)
  <2>1. \A r \in Places : h.promise[r] # Dead /\ h.promise[r].state # None /\ r # p /\ r # q =>
           x.promise[r] = h.promise[r] /\ PromiseState(x, r) = PromiseState(h, r)
    <3> SUFFICES ASSUME NEW r \in Places, h.promise[r] # Dead, h.promise[r].state # None, r # p, r # q
                 PROVE  x.promise[r] = h.promise[r] /\ PromiseState(x, r) = PromiseState(h, r)
      OBVIOUS
    <3>1. h.promise[r].state \in Conts \union {"own"} /\ x.promise[r] = h.promise[r]
      BY <1>1, <1>10 DEF PromiseObjects
    <3> QED BY ONLY <1>15, <3>1, r \in Places, h.promise[r] # Dead DEF PromiseState
  <2>2. PromiseState(h, p) = Pending /\ PromiseState(h, q) = Pending
    BY ONLY <1>0 DEF PromiseState
  <2>3. \A g \in Futures : h.future[g] # Dead /\ State(h, g) # Pending =>
           x.future[g] # Dead /\ State(x, g) = State(h, g)
    <3> SUFFICES ASSUME NEW g \in Futures, h.future[g] # Dead, State(h, g) # Pending
                 PROVE  x.future[g] # Dead /\ State(x, g) = State(h, g)
      OBVIOUS
    <3>1. h.future[g].promise # None =>
            /\ h.future[g].promise \in Places /\ h.promise[h.future[g].promise] # Dead
            /\ h.promise[h.future[g].promise].state # None
            /\ h.future[g].promise # p /\ h.future[g].promise # q
      <4>1. h.future[g].promise # None =>
            /\ h.future[g].promise \in Places /\ h.promise[h.future[g].promise] # Dead
            /\ h.promise[h.future[g].promise].state = "own"
            /\ State(h, g) = h.promise[h.future[g].promise].own
        BY FutureState
      <4>2. h.future[g].promise # None => State(h, g) = PromiseState(h, h.future[g].promise)
        BY DEF State
      <4> QED BY ONLY <2>2, <4>1, <4>2, NameFacts, State(h, g) # Pending
    <3>2. g # f  BY <1>0, <1>4, <3>1, NameFacts
    <3>3. x.future[g] = h.future[g]  BY <1>10, <3>2
    <3> QED BY ONLY <2>1, <3>1, <3>3, h.future[g] # Dead DEF State
  <2>4. \A d \in Conts : h.cont[d] # Dead /\ d \notin run => x.cont[d] = h.cont[d]
    BY ONLY <1>0, <1>10
  <2> QED BY ONLY <2>1, <2>2, <2>3, <2>4 DEF HeldIn
<1>20. ErrorsSound(x, ds, {}, hand)
  BY ONLY <1>2, <1>7, <1>10, <1>19, StateFacts DEF ErrorsSound
<1> QED BY <1>7, <1>10, <1>13, <1>14, <1>16, <1>17, <1>18, <1>20 DEF Sound

-----------------------------------------------------------------------------
(* A continuation gets an outcome that is there already.                   *)
LEMMA AttachReady ==
    ASSUME NEW h, NEW cs, NEW spent, NEW hand, NEW c \in Conts, NEW loose, loose = {c},
           Sound(h, cs, {}, loose, spent, hand), h.cont[c] # Dead,
           NEW s \in Outcomes, s = OutcomeIn(cs, h.cont[c].awaits),
           NEW t, t = StateIs(h.cont[c], s),
           NEW x, x = WithTask(WithCont(h, c, t), c)
    PROVE  /\ Sound(x, cs, {}, {}, spent, hand \ {s})
           /\ x.promise = h.promise /\ x.future = h.future
<1> DEFINE a == WithCont(h, c, t)
           left == hand \ {s}
<1>0. c \in Conts /\ h.cont[c] # Dead /\ loose = {c} /\ s = OutcomeIn(cs, h.cont[c].awaits)
  OBVIOUS
<1>1. /\ h \in Heaps /\ CellsSound(cs)
      /\ \A r \in Places : h.promise[r] # Dead =>
            h.promise[r] \in PromiseObjects /\ PromiseSound(h, cs, r, spent)
      /\ \A g \in Futures : h.future[g] # Dead =>
            h.future[g] \in FutureObjects /\ FutureSound(h, cs, g, spent)
      /\ \A d \in Conts : h.cont[d] # Dead =>
            /\ h.cont[d] \in ContObjects /\ ContSound(h, cs, d, {}, loose)
            /\ h.promise[d] # Dead
  BY SoundObjects
<1>2. Distinct(h) /\ Tasked(h, {}, loose) /\ Awaited(h, cs, {}, loose) /\ ErrorsSound(h, cs, {}, hand)
  BY DEF Sound
<1>3. s \in States /\ s # Pending  BY StateFacts
<1>4. t \in ContObjects /\ t # Dead /\ t.state = s /\ t.awaits = h.cont[c].awaits
  BY ONLY <1>0, <1>1, <1>3, ContFields, t = StateIs(h.cont[c], s)
<1>5. /\ h.cont[c].state = Pending
      /\ \A p \in Places : h.promise[p] # Dead => h.promise[p].state # c
  BY ONLY <1>0, <1>1 DEF ContSound
<1>6. /\ x \in Heaps /\ x.tasks = Append(h.tasks, c) /\ x.cont[c] = t
      /\ \A d \in Conts : d # c => x.cont[d] = h.cont[d]
      /\ x.promise = h.promise /\ x.future = h.future /\ x.seen = h.seen
  <2>1. /\ a \in Heaps /\ a.cont[c] = t
        /\ \A d \in Conts : d # c => a.cont[d] = h.cont[d]
        /\ a.promise = h.promise /\ a.future = h.future /\ a.tasks = h.tasks /\ a.seen = h.seen
    BY ONLY <1>0, <1>1, <1>4, WithContHeap
  <2>2. x = WithTask(a, c)  OBVIOUS
  <2> HIDE DEF a
  <2>3. /\ x \in Heaps /\ x.tasks = Append(a.tasks, c)
        /\ x.promise = a.promise /\ x.future = a.future /\ x.cont = a.cont /\ x.seen = a.seen
    BY ONLY <1>0, <2>1, <2>2, WithTaskHeap
  <2> QED BY ONLY <2>1, <2>3
<1> HIDE DEF a, left
<1>7. Distinct(x)  BY ONLY <1>2, <1>6 DEF Distinct
<1>8. Tasked(x, {}, {})
  <2>1. ~Queued(h, c, {}, loose) /\ Queued(x, c, {}, {})
    BY ONLY <1>0, <1>3, <1>4, <1>6 DEF Queued
  <2>2. \A d \in Conts : d # c => (Queued(x, d, {}, {}) <=> Queued(h, d, {}, loose))
    BY ONLY <1>0, <1>6 DEF Queued
  <2> QED BY ONLY <1>0, <1>1, <1>2, <1>6, <2>1, <2>2, TaskedAppend
<1>9. \A p \in Places : h.promise[p] # Dead /\ h.promise[p].state \in Conts =>
         x.cont[h.promise[p].state] = h.cont[h.promise[p].state]
  BY ONLY <1>5, <1>6
<1>10. Promised(x, cs, spent)
  <2> SUFFICES ASSUME NEW p \in Places, x.promise[p] # Dead PROVE PromiseSound(x, cs, p, spent)
    BY DEF Promised
  <2>1. PromiseSound(h, cs, p, spent) /\ h.promise[p] # Dead  BY <1>1, <1>6
  <2> QED BY ONLY <1>6, <1>9, <2>1, p \in Places DEF PromiseSound
<1>11. Expected(x, cs, spent)  BY ONLY <1>1, <1>6 DEF Expected, FutureSound
<1>12. Awaited(x, cs, {}, {})
  <2> SUFFICES ASSUME NEW d \in Conts
               PROVE  /\ x.cont[d] = Dead => x.promise[d] = Dead
                      /\ x.cont[d] # Dead => ContSound(x, cs, d, {}, {})
    BY DEF Awaited
  <2>1. CASE d = c  BY ONLY <1>0, <1>1, <1>3, <1>4, <1>6, <2>1 DEF ContSound
  <2>2. CASE d # c
    BY ONLY <1>0, <1>2, <1>6, <2>2, d \in Conts DEF Awaited, ContSound
  <2> QED BY <2>1, <2>2
<1>13. \A e : e # Pending /\ (HeldIn(h, {}, e) \/ e = s) => HeldIn(x, {}, e)
  <2>1. \A p \in Places : h.promise[p] # Dead => PromiseState(x, p) = PromiseState(h, p) \/ h.promise[p].state = None
    BY ONLY <1>1, <1>6, <1>9 DEF PromiseState, PromiseObjects
  <2>2. \A g \in Futures : h.future[g] # Dead => State(x, g) = State(h, g)
    <3> SUFFICES ASSUME NEW g \in Futures, h.future[g] # Dead PROVE State(x, g) = State(h, g)
      OBVIOUS
    <3>1. h.future[g].promise # None => /\ h.future[g].promise \in Places
                                        /\ h.promise[h.future[g].promise].state = "own"
      BY FutureState
    <3> QED BY ONLY <1>6, <3>1, h.future[g] # Dead DEF State, PromiseState
  <2> QED BY ONLY <1>0, <1>4, <1>5, <1>6, <2>1, <2>2 DEF HeldIn
<1>14. ErrorsSound(x, cs, {}, left)
  BY ONLY <1>2, <1>6, <1>13, StateFacts DEF ErrorsSound, left
<1> QED BY <1>1, <1>6, <1>7, <1>8, <1>10, <1>11, <1>12, <1>14 DEF Sound, left

(* What then() and Forward find when the future is pending, and what they  *)
(* leave: the promise carries the task, the future is on its way out.       *)
Attachable(h, cs, c, f, loose) ==
    /\ loose = {c} /\ Sound(h, cs, {}, loose, {}, {}) /\ h.cont[c] # Dead
    /\ h.future[f] # Dead /\ State(h, f) = Pending
    /\ h.cont[c].awaits = h.future[f].cell /\ h.future[f].promise # None

Attached(x, h, cs, f, q) ==
    /\ Sound(x, cs, {}, {}, {f}, {})
    /\ \A p \in Places : p # q => x.promise[p] = h.promise[p]
    /\ x.future[f] # Dead /\ \A g \in Futures : g # f => x.future[g] = h.future[g]

(* A continuation's state becomes that of the promise; the future is on    *)
(* its way out.                                                            *)
LEMMA AttachPending ==
    ASSUME NEW h, NEW cs, NEW c \in Conts, NEW f \in Futures, NEW loose,
           Attachable(h, cs, c, f, loose), NEW q, q = h.future[f].promise,
           NEW x, x = Detach(WithPromise(h, q, TaskIs(h.promise[q], c, c)), f)
    PROVE  Attached(x, h, cs, f, q)
<1> DEFINE r == TaskIs(h.promise[q], c, c)
           hand == {}
<1>a. /\ loose = {c} /\ Sound(h, cs, {}, loose, {}, hand) /\ h.cont[c] # Dead
      /\ h.future[f] # Dead /\ State(h, f) = Pending
      /\ h.cont[c].awaits = h.future[f].cell /\ q # None
      /\ r = TaskIs(h.promise[q], c, c) /\ x = Detach(WithPromise(h, q, r), f)
  BY DEF Attachable
<1>b. SUFFICES /\ Sound(x, cs, {}, {}, {f}, hand)
               /\ \A p \in Places : p # q => x.promise[p] = h.promise[p]
               /\ x.future[f] # Dead /\ \A g \in Futures : g # f => x.future[g] = h.future[g]
  BY DEF Attached
<1> HIDE DEF r, hand
<1> USE <1>a
<1> DEFINE a == WithPromise(h, q, r)
<1>0. /\ c \in Conts /\ h.cont[c] # Dead /\ loose = {c} /\ f \in Futures /\ h.future[f] # Dead
      /\ q = h.future[f].promise /\ q # None /\ h.cont[c].awaits = h.future[f].cell
      /\ c # None /\ c # "own" /\ f # None
  BY NameFacts
<1>1. /\ h \in Heaps /\ CellsSound(cs)
      /\ \A p \in Places : h.promise[p] # Dead =>
            h.promise[p] \in PromiseObjects /\ PromiseSound(h, cs, p, {})
      /\ \A g \in Futures : h.future[g] # Dead =>
            h.future[g] \in FutureObjects /\ FutureSound(h, cs, g, {})
      /\ \A d \in Conts : h.cont[d] # Dead =>
            /\ h.cont[d] \in ContObjects /\ ContSound(h, cs, d, {}, loose)
            /\ h.promise[d] # Dead
  BY SoundObjects
<1>2. Distinct(h) /\ Tasked(h, {}, loose) /\ Awaited(h, cs, {}, loose) /\ ErrorsSound(h, cs, {}, hand)
  BY DEF Sound
<1>3. /\ q \in Places /\ h.promise[q] # Dead /\ h.promise[q].state = "own" /\ h.promise[q].task = None
      /\ h.promise[q].future = f /\ h.promise[q].own = Pending
      /\ h.promise[q] \in PromiseObjects /\ PromiseSound(h, cs, q, {})
      /\ h.future[f] \in FutureObjects /\ FutureSound(h, cs, f, {})
      /\ h.promise[q].cell = h.future[f].cell
  <2>1. /\ q \in Places /\ h.promise[q] # Dead /\ h.promise[q].state = "own" /\ h.promise[q].task = None
        /\ h.promise[q].future = f /\ h.promise[q].own = Pending
    <3>1. Sound(h, cs, {}, loose, {}, hand) /\ State(h, f) = Pending  OBVIOUS
    <3> QED BY ONLY SMTT(200), <1>0, <3>1, FutureState
  <2>2. h.future[f] \in FutureObjects /\ FutureSound(h, cs, f, {})  BY <1>0, <1>1
  <2> QED BY <1>0, <1>1, <2>1, <2>2 DEF FutureSound
<1>4. /\ h.cont[c].state = Pending
      /\ \A p \in Places : h.promise[p] # Dead => h.promise[p].state # c
      /\ h.cont[c].awaits \in DOMAIN cs
  BY ONLY <1>0, <1>1 DEF ContSound
<1>5. /\ cs[h.promise[q].sets].outcome = Pending /\ Root(cs, h.cont[c].awaits) = h.promise[q].sets
      /\ h.promise[q].given /\ OutcomeIn(cs, h.cont[c].awaits) = Pending
  BY ONLY <1>0, <1>3, StateFacts DEF PromiseSound, OutcomeIn
<1>6. /\ r \in PromiseObjects /\ r # Dead /\ r.future = f /\ r.own = Pending /\ r.state = c /\ r.task = c
      /\ r.cell = h.promise[q].cell /\ r.sets = h.promise[q].sets /\ r.given
  <2>1. h.promise[q] \in PromiseObjects /\ c \in Conts /\ r = TaskIs(h.promise[q], c, c)
    BY ONLY <1>0, <1>3, r = TaskIs(h.promise[q], c, c)
  <2>2. /\ r \in PromiseObjects /\ r # Dead /\ r.future = h.promise[q].future
        /\ r.own = h.promise[q].own /\ r.state = c /\ r.task = c
        /\ r.cell = h.promise[q].cell /\ r.sets = h.promise[q].sets
        /\ r.given = h.promise[q].given
    BY ONLY <2>1, TaskIsFields, SMTT(200)
  <2> QED BY ONLY <1>3, <1>5, <2>2, Zenon
<1>7. /\ a \in Heaps /\ a.promise[q] = r
      /\ \A p \in Places : p # q => a.promise[p] = h.promise[p]
      /\ a.future = h.future /\ a.cont = h.cont /\ a.tasks = h.tasks /\ a.seen = h.seen
  BY ONLY <1>1, <1>3, <1>6, WithPromiseHeap
<1>8. x = Detach(a, f)  OBVIOUS
<1> HIDE DEF a
<1>9. /\ x \in Heaps /\ x.promise[q] = FutureIs(r, None)
      /\ \A p \in Places : p # q => x.promise[p] = h.promise[p]
      /\ x.future[f] = PromiseIs(h.future[f], None)
      /\ \A g \in Futures : g # f => x.future[g] = h.future[g]
      /\ x.cont = h.cont /\ x.tasks = h.tasks /\ x.seen = h.seen
  <2>1. \A p \in Places : a.promise[p] # Dead => a.promise[p] \in PromiseObjects
    BY <1>1, <1>6, <1>7
  <2>2. a.future[f] \in FutureObjects /\ a.future[f].promise = q /\ a.promise[q] # Dead
    BY <1>0, <1>3, <1>6, <1>7
  <2>3. /\ x \in Heaps
        /\ \A p \in Places : x.promise[p] = IF p = a.future[f].promise
                                            THEN FutureIs(a.promise[p], None) ELSE a.promise[p]
        /\ x.future[f] = PromiseIs(a.future[f], None)
        /\ \A g \in Futures : g # f => x.future[g] = a.future[g]
        /\ x.cont = a.cont /\ x.tasks = a.tasks /\ x.seen = a.seen
    BY ONLY <1>0, <1>7, <1>8, <2>1, <2>2, DetachHeap
  <2> QED BY ONLY <1>3, <1>7, <2>2, <2>3
<1>10. /\ x.promise[q] # Dead /\ x.promise[q].future = None /\ x.promise[q].own = Pending
       /\ x.promise[q].state = c /\ x.promise[q].task = c /\ x.promise[q].cell = h.promise[q].cell
       /\ x.promise[q].sets = h.promise[q].sets /\ x.promise[q].given
  BY ONLY <1>6, <1>9, PromiseFields
<1>11. /\ x.future[f] # Dead /\ x.future[f].promise = None /\ x.future[f].cell = h.future[f].cell
       /\ x.future[f].own = Pending
  <2>1. None \in Places \union {None}  OBVIOUS
  <2>2. h.future[f].own = Pending  BY <1>0, <1>3 DEF FutureSound
  <2> QED BY ONLY <1>3, <1>9, <2>1, <2>2, PromiseIsFields
<1>12. Distinct(x)  BY ONLY <1>2, <1>3, <1>9, <1>10 DEF Distinct
<1>13. Tasked(x, {}, {})
  <2>1. \A d \in Conts : Queued(x, d, {}, {}) <=> Queued(h, d, {}, loose)
    BY ONLY <1>0, <1>4, <1>9 DEF Queued
  <2> QED BY ONLY <1>2, <1>9, <2>1 DEF Tasked, Indicator
<1>14. Promised(x, cs, {f})
  <2> SUFFICES ASSUME NEW p \in Places, x.promise[p] # Dead PROVE PromiseSound(x, cs, p, {f})
    BY DEF Promised
  <2>1. CASE p = q
    <3>1. LET e == h.promise[q] IN
             /\ e.sets \in DOMAIN cs /\ e.cell \in DOMAIN cs
             /\ cs[e.sets].like = 0 /\ ~cs[e.sets].broken /\ Root(cs, e.cell) = e.sets
      BY ONLY <1>3 DEF PromiseSound
    <3>2. h.cont[c] # Dead /\ x.cont = h.cont /\ h.cont[c].state = Pending /\ c \in Conts
          /\ c # None /\ c # "own"
      BY ONLY <1>0, <1>4, <1>9
    <3>3. cs[h.promise[q].sets].outcome = Pending /\ Root(cs, h.cont[c].awaits) = h.promise[q].sets
      BY ONLY <1>5
    <3>4. PromiseSound(x, cs, q, {f})
      BY ONLY <1>10, <3>1, <3>2, <3>3 DEF PromiseSound
    <3> QED BY ONLY <2>1, <3>4
  <2>2. CASE p # q
    <3>1. h.promise[p] \in PromiseObjects /\ PromiseSound(h, cs, p, {}) /\ x.promise[p] = h.promise[p]
      BY <1>1, <1>9, <2>2
    <3>2. h.promise[p].future # None => h.promise[p].future # f /\ h.promise[p].future \in Futures
      BY <1>0, <2>2, <3>1 DEF PromiseSound, PromiseObjects
    <3> QED BY ONLY <1>9, <3>1, <3>2 DEF PromiseSound
  <2> QED BY <2>1, <2>2
<1>15. Expected(x, cs, {f})
  <2> SUFFICES ASSUME NEW g \in Futures, x.future[g] # Dead PROVE FutureSound(x, cs, g, {f})
    BY DEF Expected
  <2>1. CASE g = f  BY ONLY <1>0, <1>4, <1>11, <2>1 DEF FutureSound
  <2>2. CASE g # f
    <3>1. h.future[g] \in FutureObjects /\ FutureSound(h, cs, g, {}) /\ x.future[g] = h.future[g]
      BY <1>1, <1>9, <2>2
    <3>2. h.future[g].promise # None => h.future[g].promise # q /\ h.future[g].promise \in Places
      BY <1>3, <2>2, <3>1 DEF FutureSound, FutureObjects
    <3> QED BY ONLY <1>9, <2>2, <3>1, <3>2 DEF FutureSound
  <2> QED BY <2>1, <2>2
<1>16. Awaited(x, cs, {}, {})
  <2> SUFFICES ASSUME NEW d \in Conts
               PROVE  /\ x.cont[d] = Dead => x.promise[d] = Dead
                      /\ x.cont[d] # Dead => ContSound(x, cs, d, {}, {})
    BY DEF Awaited
  <2>0. d \in Places /\ d # None  BY NameFacts
  <2>1. /\ x.promise[d] = Dead <=> h.promise[d] = Dead
        /\ h.promise[d] # Dead => x.promise[d].sets = h.promise[d].sets
    BY ONLY <1>3, <1>9, <1>10, <2>0
  <2>2. CASE d = c
    <3>1. \E p \in Places : x.promise[p] # Dead /\ x.promise[p].task = c
      BY <1>3, <1>10
    <3> QED BY ONLY SMTT(200), <1>0, <1>1, <1>4, <1>5, <1>9, <2>1, <2>2, <3>1 DEF ContSound
  <2>3. CASE d # c
    <3>1. (\E p \in Places : h.promise[p] # Dead /\ h.promise[p].task = d)
             => \E p \in Places : x.promise[p] # Dead /\ x.promise[p].task = d
      BY ONLY <1>3, <1>9, <2>0
    <3> QED BY ONLY <1>0, <1>1, <1>2, <1>9, <2>1, <2>3, <3>1, d \in Conts DEF Awaited, ContSound
  <2> QED BY <2>2, <2>3
<1>17. \A e : e # Pending /\ HeldIn(h, {}, e) => HeldIn(x, {}, e)
  <2>1. \A p \in Places : p # q => PromiseState(x, p) = PromiseState(h, p)
    BY ONLY <1>9 DEF PromiseState
  <2>2. PromiseState(h, q) = Pending /\ State(h, f) = Pending
    BY ONLY <1>3, State(h, f) = Pending DEF PromiseState
  <2>3. \A g \in Futures : h.future[g] # Dead /\ g # f => State(x, g) = State(h, g)
    <3> SUFFICES ASSUME NEW g \in Futures, h.future[g] # Dead, g # f PROVE State(x, g) = State(h, g)
      OBVIOUS
    <3>1. h.future[g].promise # None => h.future[g].promise # q /\ h.future[g].promise \in Places
      BY <1>1, <1>3 DEF FutureSound, FutureObjects
    <3> QED BY ONLY <1>9, <2>1, <3>1, g # f, g \in Futures DEF State
  <2> QED BY ONLY <1>9, <2>1, <2>2, <2>3 DEF HeldIn
<1>18. ErrorsSound(x, cs, {}, hand)
  BY ONLY <1>2, <1>9, <1>17, StateFacts DEF ErrorsSound
<1> QED BY ONLY <1>1, <1>9, <1>11, <1>12, <1>13, <1>14, <1>15, <1>16, <1>18 DEF Sound

-----------------------------------------------------------------------------
(* A cell that got the outcome of another is like the other.               *)
LEMMA MergeSound ==
    ASSUME NEW h, NEW cs, NEW hand, CellsSound(cs),
           NEW k \in DOMAIN cs, cs[k].like = 0, cs[k].outcome = Pending,
           NEW j \in DOMAIN cs, Root(cs, j) # k, NEW s \in Outcomes, OutcomeIn(cs, j) = s,
           NEW es, es = Resolve(cs, k, s), NEW ds, ds = Follow(cs, k, j),
           Sound(h, es, {}, {}, {}, hand),
           Unowned(h, k)
    PROVE  Sound(h, ds, {}, {}, {}, hand)
<1>0. /\ k \in DOMAIN cs /\ cs[k].like = 0 /\ cs[k].outcome = Pending
      /\ j \in DOMAIN cs /\ Root(cs, j) # k /\ OutcomeIn(cs, j) = s /\ CellsSound(cs)
  OBVIOUS
<1>1. /\ h \in Heaps
      /\ \A p \in Places : h.promise[p] # Dead =>
            h.promise[p] \in PromiseObjects /\ PromiseSound(h, es, p, {})
      /\ \A g \in Futures : h.future[g] # Dead => FutureSound(h, es, g, {})
      /\ \A d \in Conts : h.cont[d] # Dead => ContSound(h, es, d, {}, {}) /\ h.promise[d] # Dead
  BY SoundObjects
<1>2. Distinct(h) /\ Tasked(h, {}, {}) /\ Awaited(h, es, {}, {}) /\ ErrorsSound(h, es, {}, hand)
  BY DEF Sound
<1>3. /\ DOMAIN es = DOMAIN cs /\ es[k].outcome = s
      /\ \A i \in DOMAIN cs : i # k => es[i] = cs[i]
      /\ \A i \in DOMAIN cs : Root(es, i) = Root(cs, i)
      /\ \A i \in DOMAIN cs : OutcomeIn(es, i) = IF Root(cs, i) = k THEN s ELSE OutcomeIn(cs, i)
  BY ONLY <1>0, ResolveCells, s \in Outcomes, es = Resolve(cs, k, s)
<1>4. /\ CellsSound(ds) /\ DOMAIN ds = DOMAIN cs
      /\ \A i \in DOMAIN cs :
            /\ ds[i].outcome = cs[i].outcome /\ ds[i].broken = cs[i].broken
            /\ Root(cs, i) # k => ds[i] = cs[i] /\ Root(ds, i) = Root(cs, i)
                                  /\ OutcomeIn(ds, i) = OutcomeIn(cs, i)
            /\ Root(cs, i) = k => Root(ds, i) = Root(cs, j) /\ OutcomeIn(ds, i) = OutcomeIn(cs, j)
  BY ONLY <1>0, FollowCells, ds = Follow(cs, k, j)
<1>5. \A i \in DOMAIN cs : OutcomeIn(ds, i) = OutcomeIn(es, i)
  BY ONLY <1>0, <1>3, <1>4
<1>6. s # Pending  BY StateFacts
<1>7. \A p \in Places : h.promise[p] # Dead =>
         /\ h.promise[p].sets # k /\ h.promise[p].sets \in DOMAIN cs /\ h.promise[p].cell \in DOMAIN cs
         /\ ds[h.promise[p].sets] = es[h.promise[p].sets]
         /\ Root(ds, h.promise[p].cell) = Root(es, h.promise[p].cell)
  <2> SUFFICES ASSUME NEW p \in Places, h.promise[p] # Dead
               PROVE  /\ h.promise[p].sets # k /\ h.promise[p].sets \in DOMAIN cs /\ h.promise[p].cell \in DOMAIN cs
                      /\ ds[h.promise[p].sets] = es[h.promise[p].sets]
                      /\ Root(ds, h.promise[p].cell) = Root(es, h.promise[p].cell)
    OBVIOUS
  <2>1. h.promise[p].sets # k /\ PromiseSound(h, es, p, {})  BY <1>1 DEF Unowned
  <2>2. Root(es, h.promise[p].sets) = h.promise[p].sets
    BY <2>1 DEF PromiseSound, Root
  <2> QED BY ONLY <1>3, <1>4, <2>1, <2>2 DEF PromiseSound
<1>8. Promised(h, ds, {})
  <2> SUFFICES ASSUME NEW p \in Places, h.promise[p] # Dead PROVE PromiseSound(h, ds, p, {})
    BY DEF Promised
  <2>1. h.promise[p] \in PromiseObjects /\ PromiseSound(h, es, p, {})  BY <1>1
  <2>2. h.promise[p].state \in Conts =>
           Root(ds, h.cont[h.promise[p].state].awaits) = Root(es, h.cont[h.promise[p].state].awaits)
    <3>1. h.promise[p].state \in Conts =>
             /\ h.cont[h.promise[p].state].awaits \in DOMAIN es
             /\ Root(es, h.cont[h.promise[p].state].awaits) = h.promise[p].sets
      BY ONLY <1>1, <2>1 DEF PromiseSound, ContSound
    <3> QED BY <1>3, <1>4, <1>7, <3>1
  <2> QED BY ONLY <1>3, <1>4, <1>7, <2>1, <2>2, p \in Places, h.promise[p] # Dead DEF PromiseSound
<1>9. Expected(h, ds, {})
  <2> SUFFICES ASSUME NEW g \in Futures, h.future[g] # Dead PROVE FutureSound(h, ds, g, {})
    BY DEF Expected
  <2>1. FutureSound(h, es, g, {})  BY <1>1
  <2>2. h.future[g].cell \in DOMAIN cs /\ Root(cs, h.future[g].cell) \in DOMAIN cs
    BY ONLY <1>0, <1>3, <2>1, RootFacts DEF FutureSound
  <2>3. OutcomeIn(es, h.future[g].cell) = Pending =>
           ds[Root(ds, h.future[g].cell)] = es[Root(es, h.future[g].cell)]
    <3>1. OutcomeIn(es, h.future[g].cell) = Pending => Root(cs, h.future[g].cell) # k
      BY <1>3, <1>6, <2>2
    <3>2. Root(cs, Root(cs, h.future[g].cell)) = Root(cs, h.future[g].cell)
      BY <2>2, RootFacts
    <3> QED BY ONLY <1>3, <1>4, <2>2, <3>1, <3>2
  <2> QED BY ONLY <1>3, <1>4, <1>5, <2>1, <2>2, <2>3 DEF FutureSound
<1>10. Awaited(h, ds, {}, {})
  <2> SUFFICES ASSUME NEW d \in Conts, h.cont[d] # Dead PROVE ContSound(h, ds, d, {}, {})
    BY <1>2 DEF Awaited
  <2>1. ContSound(h, es, d, {}, {}) /\ h.promise[d] # Dead /\ d \in Places
    BY <1>1, NameFacts
  <2> QED BY ONLY <1>3, <1>4, <1>5, <1>7, <2>1 DEF ContSound
<1>11. ErrorsSound(h, ds, {}, hand)
  <2>1. \A i \in DOMAIN cs : ds[i].outcome = es[i].outcome \/ ds[i].outcome = Pending
    BY ONLY <1>0, <1>3, <1>4
  <2> QED BY ONLY <1>2, <1>3, <1>4, <2>1, StateFacts DEF ErrorsSound
<1> QED BY <1>1, <1>2, <1>4, <1>8, <1>9, <1>10, <1>11 DEF Sound

(* Whoever resolves a cell without an outcome can do so.                   *)
LEMMA PendingPromise ==
    ASSUME NEW h, NEW cs, NEW run, NEW loose, NEW spent, NEW hand,
           Sound(h, cs, run, loose, spent, hand),
           NEW p \in Places, h.promise[p] # Dead, cs[h.promise[p].sets].outcome = Pending
    PROVE  h.promise[p].state # None /\ PromiseState(h, p) = Pending
<1>1. h.promise[p] \in PromiseObjects /\ PromiseSound(h, cs, p, spent)
  BY SoundObjects
<1>2. CASE h.promise[p].state = "own"
  BY <1>1, <1>2, NameFacts, StateFacts DEF PromiseSound, PromiseState
<1>3. CASE h.promise[p].state # "own"
  <2>1. h.promise[p].state \in Conts  BY <1>1, <1>3 DEF PromiseSound, PromiseObjects
  <2> QED BY <1>1, <1>3, <2>1, NameFacts DEF PromiseSound, PromiseState
<1> QED BY <1>2, <1>3

(* A task is taken from the list.                                          *)
WithTasks(h, tasks) == [h EXCEPT !.tasks = tasks]

(* The first task can run.                                                 *)
Runs(h, cs, c) ==
    /\ c \in Conts /\ h.cont[c] # Dead /\ h.promise[c] # Dead
    /\ h.cont[c].state \in Outcomes /\ h.cont[c].awaits \in DOMAIN cs
    /\ h.cont[c].state = OutcomeIn(cs, h.cont[c].awaits)
    /\ h.promise[c].state # None /\ PromiseState(h, c) = Pending
SameObjects(h, x) ==
    x.promise = h.promise /\ x.future = h.future /\ x.cont = h.cont /\ x.seen = h.seen

LEMMA PopSound ==
    ASSUME NEW h, NEW cs, Sound(h, cs, {}, {}, {}, {}), h.tasks # <<>>,
           NEW c, c = Head(h.tasks), NEW x, x = WithTasks(h, Tail(h.tasks)),
           NEW s, s = h.cont[c].state
    PROVE  Runs(h, cs, c) /\ SameObjects(h, x) /\ Sound(x, cs, {c}, {}, {}, {s})
<1> DEFINE run == {c}
           hand == {h.cont[c].state}
<1>1. /\ h \in Heaps /\ CellsSound(cs)
      /\ \A p \in Places : h.promise[p] # Dead =>
            h.promise[p] \in PromiseObjects /\ PromiseSound(h, cs, p, {})
      /\ \A g \in Futures : h.future[g] # Dead =>
            h.future[g] \in FutureObjects /\ FutureSound(h, cs, g, {})
      /\ \A d \in Conts : h.cont[d] # Dead =>
            /\ h.cont[d] \in ContObjects /\ ContSound(h, cs, d, {}, {})
            /\ h.promise[d] # Dead
      /\ \A d \in Conts : h.promise[d] # Dead => h.cont[d] # Dead
  BY SoundObjects
<1>2. Distinct(h) /\ Tasked(h, {}, {}) /\ Awaited(h, cs, {}, {}) /\ ErrorsSound(h, cs, {}, {})
      /\ Promised(h, cs, {}) /\ Expected(h, cs, {})
  BY DEF Sound
<1>3. h.tasks \in Seq(Conts) /\ h.tasks # <<>>  BY <1>1 DEF Heaps
<1>4. c \in Conts /\ Tail(h.tasks) \in Seq(Conts)  BY <1>3
<1>5. \A d \in Conts : Count(h.tasks, {d}) = Indicator(c \in {d}) + Count(Tail(h.tasks), {d})
  BY <1>3, CountHead
<1>6. \A d \in Conts : Count(Tail(h.tasks), {d}) \in Nat  BY <1>4, CountType
<1>7. \A d \in Conts : Count(h.tasks, {d}) = Indicator(Queued(h, d, {}, {}))
  BY <1>2 DEF Tasked
<1>8. Queued(h, c, {}, {}) /\ Count(Tail(h.tasks), {c}) = 0
  <2> DEFINE n == Count(Tail(h.tasks), {c})
             m == Count(h.tasks, {c})
  <2>1. m = Indicator(c \in {c}) + n /\ n \in Nat /\ m = Indicator(Queued(h, c, {}, {}))
    BY ONLY <1>4, <1>5, <1>6, <1>7
  <2>2. c \in {c}  OBVIOUS
  <2> HIDE DEF n, m
  <2>3. Queued(h, c, {}, {}) /\ n = 0  BY ONLY <2>1, <2>2 DEF Indicator
  <2> QED BY <2>3 DEF n
<1>9. \A d \in Conts : d # c => Count(Tail(h.tasks), {d}) = Indicator(Queued(h, d, {}, {}))
  <2> SUFFICES ASSUME NEW d \in Conts, d # c
               PROVE  Count(Tail(h.tasks), {d}) = Indicator(Queued(h, d, {}, {}))
    OBVIOUS
  <2> DEFINE n == Count(Tail(h.tasks), {d})
             m == Count(h.tasks, {d})
  <2>1. m = Indicator(c \in {d}) + n /\ n \in Nat /\ m = Indicator(Queued(h, d, {}, {}))
    BY ONLY <1>5, <1>6, <1>7
  <2>2. c \notin {d}  BY ONLY d # c
  <2> HIDE DEF n, m
  <2>3. n = Indicator(Queued(h, d, {}, {}))  BY ONLY <2>1, <2>2 DEF Indicator
  <2> QED BY <2>3 DEF n
<1>10. h.cont[c] # Dead /\ h.cont[c].state # Pending  BY <1>8 DEF Queued
<1>11. /\ h.promise[c] # Dead /\ h.cont[c].awaits \in DOMAIN cs
       /\ h.cont[c].state = OutcomeIn(cs, h.cont[c].awaits)
       /\ cs[h.promise[c].sets].outcome = Pending /\ h.cont[c].state \in Outcomes
  <2>1. ContSound(h, cs, c, {}, {}) /\ h.promise[c] # Dead  BY <1>1, <1>4, <1>10
  <2>2. h.cont[c].awaits \in DOMAIN cs /\ h.cont[c].state = OutcomeIn(cs, h.cont[c].awaits)
        /\ cs[h.promise[c].sets].outcome = Pending
    BY ONLY <2>1 DEF ContSound
  <2>3. OutcomeIn(cs, h.cont[c].awaits) \in Outcomes \union {Pending}
    BY <1>1, <2>2, RootFacts
  <2> QED BY <1>10, <2>1, <2>2, <2>3
<1>12. h.promise[c].state # None /\ PromiseState(h, c) = Pending
  BY <1>4, <1>11, PendingPromise, NameFacts
<1>13. /\ x \in Heaps /\ x.tasks = Tail(h.tasks)
       /\ x.promise = h.promise /\ x.future = h.future /\ x.cont = h.cont /\ x.seen = h.seen
  BY <1>1, <1>4 DEF WithTasks, Heaps
<1>14. Distinct(x)  BY ONLY <1>2, <1>13 DEF Distinct
<1>15. Tasked(x, run, {})
  <2> SUFFICES ASSUME NEW d \in Conts PROVE Count(x.tasks, {d}) = Indicator(Queued(x, d, run, {}))
    BY DEF Tasked
  <2>1. CASE d = c  BY <1>8, <1>13, <2>1 DEF Queued, Indicator
  <2>2. CASE d # c
    <3>1. Queued(x, d, run, {}) <=> Queued(h, d, {}, {})
      BY ONLY <1>13, <2>2 DEF Queued
    <3> QED BY <1>9, <1>13, <2>2, <3>1 DEF Indicator
  <2> QED BY <2>1, <2>2
<1>16. Promised(x, cs, {}) /\ Expected(x, cs, {})
  BY ONLY <1>2, <1>13, SameParts
<1>17. Awaited(x, cs, run, {})  BY ONLY <1>2, <1>10, <1>13 DEF Awaited, ContSound
<1>18. \A e : HeldIn(h, {}, e) => HeldIn(x, run, e) \/ e \in hand
  BY ONLY <1>13 DEF HeldIn, State, PromiseState
<1>19. ErrorsSound(x, cs, run, hand)  BY ONLY <1>2, <1>13, <1>18 DEF ErrorsSound
<1> HIDE DEF run, hand
<1>20. Sound(x, cs, run, {}, {}, hand)
  BY <1>1, <1>13, <1>14, <1>15, <1>16, <1>17, <1>19 DEF Sound
<1>21. Runs(h, cs, c)  BY <1>4, <1>10, <1>11, <1>12 DEF Runs
<1>22. SameObjects(h, x)  BY <1>13 DEF SameObjects
<1> QED BY <1>20, <1>21, <1>22 DEF run, hand

WrappedIs(r, b) == [r EXCEPT !.wrapped = b]

LEMMA WrappedSound ==
    ASSUME NEW h, NEW cs, Sound(h, cs, {}, {}, {}, {}), NEW c \in Conts, h.cont[c] # Dead,
           NEW b \in BOOLEAN, NEW x, x = WithCont(h, c, WrappedIs(h.cont[c], b))
    PROVE  Sound(x, cs, {}, {}, {}, {}) /\ x.promise = h.promise /\ x.future = h.future
<1> DEFINE t == WrappedIs(h.cont[c], b)
<1>1. h \in Heaps /\ h.cont[c] \in ContObjects  BY SoundObjects
<1>2. t \in ContObjects /\ t.state = h.cont[c].state /\ t.awaits = h.cont[c].awaits /\ t # Dead
  <2>1. t \in ContObjects /\ t.state = h.cont[c].state /\ t.awaits = h.cont[c].awaits
    BY <1>1 DEF ContObjects, WrappedIs
  <2> QED BY <2>1, DeadFacts
<1> HIDE DEF t
<1>3. /\ x \in Heaps /\ x.cont[c] = t
      /\ \A d \in Conts : d # c => x.cont[d] = h.cont[d]
      /\ x.promise = h.promise /\ x.future = h.future /\ x.tasks = h.tasks /\ x.seen = h.seen
  <2>1. x = WithCont(h, c, t)  BY DEF t
  <2> QED BY <1>1, <1>2, <2>1, WithContHeap
<1>4. \A d \in Conts : /\ x.cont[d] = Dead <=> h.cont[d] = Dead
                       /\ x.cont[d].state = h.cont[d].state /\ x.cont[d].awaits = h.cont[d].awaits
  BY <1>2, <1>3
<1>5. Distinct(h) /\ Tasked(h, {}, {}) /\ Awaited(h, cs, {}, {}) /\ ErrorsSound(h, cs, {}, {})
      /\ Promised(h, cs, {}) /\ Expected(h, cs, {}) /\ CellsSound(cs)
  BY DEF Sound
<1>6. Distinct(x) /\ Expected(x, cs, {})
  BY ONLY <1>3, <1>5 DEF Distinct, Expected, FutureSound
<1>7. Tasked(x, {}, {})
  <2>1. \A d \in Conts : Queued(x, d, {}, {}) <=> Queued(h, d, {}, {})
    BY ONLY <1>4 DEF Queued
  <2> QED BY ONLY <1>3, <1>5, <2>1 DEF Tasked, Indicator
<1>8. Promised(x, cs, {})
  <2> SUFFICES ASSUME NEW q \in Places, x.promise[q] # Dead PROVE PromiseSound(x, cs, q, {})
    BY DEF Promised
  <2>1. PromiseSound(h, cs, q, {})  BY ONLY <1>3, <1>5, q \in Places, x.promise[q] # Dead DEF Promised
  <2>2. \A d \in Conts : h.cont[d] # Dead => x.cont[d] # Dead  BY ONLY <1>4
  <2> QED BY ONLY <1>3, <1>4, <2>1, <2>2 DEF PromiseSound
<1>9. Awaited(x, cs, {}, {})  BY ONLY <1>3, <1>4, <1>5 DEF Awaited, ContSound
<1>10. \A p \in Places : h.promise[p] # Dead /\ h.promise[p].state # None =>
          PromiseState(x, p) = PromiseState(h, p)
  <2> SUFFICES ASSUME NEW p \in Places, h.promise[p] # Dead, h.promise[p].state # None
               PROVE  PromiseState(x, p) = PromiseState(h, p)
    OBVIOUS
  <2>1. h.promise[p].state \in Conts \union {"own"}
    BY SoundObjects DEF PromiseObjects
  <2> QED BY ONLY <1>3, <1>4, <2>1 DEF PromiseState
<1>11. \A g \in Futures : h.future[g] # Dead => State(x, g) = State(h, g)
  <2> SUFFICES ASSUME NEW g \in Futures, h.future[g] # Dead PROVE State(x, g) = State(h, g)
    OBVIOUS
  <2>1. h.future[g].promise # None => /\ h.future[g].promise \in Places
                                      /\ h.promise[h.future[g].promise].state = "own"
    BY FutureState
  <2> QED BY ONLY <1>3, <2>1, h.future[g] # Dead DEF State, PromiseState
<1>12. \A e : HeldIn(h, {}, e) => HeldIn(x, {}, e)
  BY ONLY <1>3, <1>4, <1>10, <1>11 DEF HeldIn
<1>13. ErrorsSound(x, cs, {}, {})  BY ONLY <1>3, <1>5, <1>12 DEF ErrorsSound
<1> QED BY <1>3, <1>5, <1>6, <1>7, <1>8, <1>9, <1>13 DEF Sound

(* A cell that does as k does waits for k.                                 *)
LEMMA WaitsForItself ==
    ASSUME NEW h, NEW cs, NEW k \in DOMAIN cs, NEW j \in DOMAIN cs, j \notin WaitingFor(h, cs, k)
    PROVE  Root(cs, j) # k
BY DEF WaitingFor, WaitsToo, Root

-----------------------------------------------------------------------------
(* The steps of the program *)

LEMMA FreeSlots ==
    ASSUME NEW h \in Heaps
    PROVE  /\ Free(h.future) # {} => Slot(h.future) \in Futures /\ h.future[Slot(h.future)] = Dead
           /\ Free(h.cont) # {} => Slot(h.cont) \in Conts /\ h.cont[Slot(h.cont)] = Dead
<1>1. DOMAIN h.future = Futures /\ DOMAIN h.cont = Conts  BY DEF Heaps
<1>2. \A objects : Free(objects) # {} => Slot(objects) \in Free(objects)
  BY DEF Slot
<1> QED BY <1>1, <1>2 DEF Free

LEMMA FreshCellFacts ==
    /\ FreshCell \in CellObjects /\ FreshCell.outcome = Pending /\ FreshCell.like = 0 /\ ~FreshCell.broken
    /\ \A s \in Outcomes : LET r == [FreshCell EXCEPT !.outcome = s]
                           IN  r \in CellObjects /\ r.outcome = s /\ r.like = 0
<1>1. 0 \in 0 .. MaxCells /\ FALSE \in BOOLEAN  BY SlotsAssumption
<1>2. FreshCell \in CellObjects /\ FreshCell.outcome = Pending /\ FreshCell.like = 0 /\ ~FreshCell.broken
  BY <1>1 DEF FreshCell, CellObjects
<1>3. \A s \in Outcomes : LET r == [FreshCell EXCEPT !.outcome = s]
                           IN  r \in CellObjects /\ r.outcome = s /\ r.like = 0
  BY <1>2 DEF CellObjects
<1> QED BY <1>2, <1>3

LEMMA MadeFresh == ASSUME NEW k \in Numbers PROVE NewPromise(k) = Made(k, FALSE)
<1>1. Pending \in States  BY StateFacts
<1>2. NewPromise(k) \in PromiseObjects /\ NewPromise(k).given = FALSE
  BY <1>1 DEF NewPromise, PromiseObjects
<1> QED BY <1>2 DEF Made, PromiseObjects

LEMMA MakePromiseStep ==
    ASSUME SoundNow, MakePromise
    PROVE  SoundNow'
<1> DEFINE k == NextOf(cells)
           p == CHOOSE q \in Promises : heap.promise[q] = Dead
           ds == Longer(cells, FreshCell)
           x == WithPromise(heap, p, Made(k, FALSE))
<1>1. /\ Sound(heap, cells, {}, {}, {}, {}) /\ Room(cells) /\ p \in Promises /\ heap.promise[p] = Dead
      /\ heap' = x /\ cells' = ds
  <2>1. /\ Sound(heap, cells, {}, {}, {}, {}) /\ Room(cells) /\ p \in Promises /\ heap.promise[p] = Dead
        /\ heap' = WithPromise(heap, p, NewPromise(k)) /\ cells' = ds
    BY DEF SoundNow, MakePromise, NextCell, Room, NextOf, Longer, WithPromise
  <2>2. k \in Numbers  BY <2>1 DEF Sound, CellsSound, Room, NextOf, Numbers
  <2> HIDE DEF k
  <2> QED BY <2>1, <2>2, MadeFresh
<1>2. CellsSound(cells)  BY <1>1 DEF Sound
<1>3. FreshCell \in CellObjects /\ FreshCell.outcome = Pending /\ FreshCell.like = 0 /\ ~FreshCell.broken
  BY FreshCellFacts
<1> HIDE DEF k, p, ds, x
<1>4. /\ Sound(heap, ds, {}, {}, {}, {} \union {Pending})
      /\ Unowned(heap, k)
  BY <1>1, <1>3, AppendCellSound DEF ds, k
<1>5. k \in DOMAIN ds /\ ds[k] = FreshCell
  <2>0. k = NextOf(cells) /\ ds = Longer(cells, FreshCell) /\ Room(cells)
    BY <1>1 DEF ds, k
  <2>1. DOMAIN ds = DOMAIN cells \union {k} /\ ds[k] = FreshCell
    BY ONLY <2>0, <1>2, <1>3, AppendCells
  <2> QED BY <2>1
<1>6. \A s \in ({} \union {Pending}) \ {} : ~Failed(s)  BY StateFacts
<1>7. Sound(heap, ds, {}, {}, {}, {})  BY <1>4, <1>6, HandSound
<1>8. p \in Places /\ p \notin Conts /\ Conts \intersect {p} = {}
  BY <1>1, NameFacts
<1>9. Sound(x, ds, {}, Conts \intersect {p}, {}, {})
  <2> DEFINE g == FALSE
             r == Made(k, g)
  <2>1. x = WithPromise(heap, p, r) /\ g \in BOOLEAN /\ r = Made(k, g)  BY DEF x
  <2> HIDE DEF g, r
  <2>2. MadeAt(heap, ds, p, r, x)  BY <1>8, <2>1 DEF MadeAt
  <2>3. ds[k].outcome = Pending /\ ds[k].like = 0 /\ ~ds[k].broken  BY <1>3, <1>5
  <2>4. /\ Sound(x, ds, {}, Conts \intersect {p}, {}, {})
        /\ x.future = heap.future /\ x.promise[p] = r
        /\ \A q \in Places : q # p => x.promise[q] = heap.promise[q]
    BY <1>1, <1>4, <1>5, <1>7, <1>8, <2>1, <2>2, <2>3, NewPromiseSound
  <2> QED BY <2>4
<1> QED BY <1>1, <1>8, <1>9 DEF SoundNow

LEMMA MakeReadyStep ==
    ASSUME SoundNow, MakeReady
    PROVE  SoundNow'
<1> DEFINE k == NextOf(cells)
           f == Slot(heap.future)
<1>1. PICK s \in {Result(k), Error(k)} :
         /\ heap' = WithFuture(heap, f, NewFuture(None, s, k))
         /\ cells' = Longer(cells, [FreshCell EXCEPT !.outcome = s])
  BY DEF MakeReady, NextCell, NextOf, Longer, WithFuture, NewFuture
<1> DEFINE r == [FreshCell EXCEPT !.outcome = s]
           ds == Longer(cells, r)
           x == WithFuture(heap, f, NewFuture(None, s, k))
<1>2. /\ Sound(heap, cells, {}, {}, {}, {}) /\ Room(cells) /\ Free(heap.future) # {}
      /\ heap' = x /\ cells' = ds
  BY <1>1 DEF SoundNow, MakeReady, NextCell, Room, NextOf
<1>3. heap \in Heaps /\ CellsSound(cells)  BY <1>2 DEF Sound
<1>4. f \in Futures /\ heap.future[f] = Dead  BY <1>2, <1>3, FreeSlots
<1>5. k \in Numbers  BY <1>2, <1>3 DEF CellsSound, Room, NextOf, Numbers
<1>6. s \in Outcomes  BY <1>1, <1>5, StateFacts
<1>7. r \in CellObjects /\ r.outcome = s /\ r.like = 0  BY <1>6, FreshCellFacts
<1> HIDE DEF k, f, ds, x, r
<1>8. Sound(heap, ds, {}, {}, {}, {} \union {s})
  <2>1. Sound(heap, ds, {}, {}, {}, {} \union {r.outcome})
    BY <1>2, <1>7, AppendCellSound DEF ds, k
  <2> QED BY <1>7, <2>1
<1>9. k \in DOMAIN ds /\ OutcomeIn(ds, k) = s
  <2>0. k = NextOf(cells) /\ ds = Longer(cells, r) /\ Room(cells)  BY <1>2 DEF ds, k
  <2>1. DOMAIN ds = DOMAIN cells \union {k} /\ OutcomeIn(ds, k) = r.outcome
    BY ONLY <2>0, <1>3, <1>7, AppendCells
  <2> QED BY <1>7, <2>1
<1>10. Sound(x, ds, {}, {}, {}, ({} \union {s}) \ {s})
  BY <1>4, <1>6, <1>8, <1>9, ReadyFutureSound DEF x
<1>11. ({} \union {s}) \ {s} = {}  OBVIOUS
<1> QED BY <1>2, <1>10, <1>11 DEF SoundNow

LEMMA AskHeap ==
    ASSUME NEW h \in Heaps, NEW p \in Places, NEW f \in Futures, h.promise[p] \in PromiseObjects
    PROVE  [GetFuture(h, p, f) EXCEPT !.promise[p].given = TRUE] =
              WithFuture(WithPromise(h, p, FutureIs(GivenIs(h.promise[p]), f)), f,
                         NewFuture(p, Pending, h.promise[p].cell))
BY DEF Heaps, PromiseObjects, GetFuture, WithFuture, WithPromise, FutureIs, GivenIs, NewFuture

LEMMA AskFutureStep ==
    ASSUME SoundNow, NEW p \in Promises, AskFuture(p)
    PROVE  SoundNow'
<1> DEFINE f == Slot(heap.future)
           r == FutureIs(GivenIs(heap.promise[p]), f)
           t == NewFuture(p, Pending, heap.promise[p].cell)
           x == WithFuture(WithPromise(heap, p, r), f, t)
<1>1. Sound(heap, cells, {}, {}, {}, {}) /\ heap.promise[p] # Dead /\ ~heap.promise[p].given
      /\ Free(heap.future) # {} /\ cells' = cells
  BY DEF SoundNow, AskFuture
<1>2. p \in Places /\ heap \in Heaps  BY <1>1, NameFacts DEF Sound
<1>3. heap.promise[p] \in PromiseObjects /\ PromiseSound(heap, cells, p, {})
  BY <1>1, <1>2, SoundObjects
<1>4. f \in Futures /\ heap.future[f] = Dead  BY <1>1, <1>2, FreeSlots
<1>5. heap' = x
  <2>1. heap' = [GetFuture(heap, p, f) EXCEPT !.promise[p].given = TRUE]
    BY DEF AskFuture
  <2> QED BY <1>2, <1>3, <1>4, <2>1, AskHeap
<1>6. heap.promise[p].future = None /\ heap.promise[p].state = "own" /\ heap.promise[p].own # Invalid
  BY <1>1, <1>3 DEF PromiseSound
<1> HIDE DEF f, r, t, x
<1>7. Sound(x, cells, {}, {}, {}, {})
  BY <1>1, <1>2, <1>4, <1>6, GetFutureSound DEF r, t, x
<1> QED BY <1>1, <1>5, <1>7 DEF SoundNow

LEMMA SetPromiseStep ==
    ASSUME SoundNow, NEW p \in Promises, SetPromise(p)
    PROVE  SoundNow'
<1> DEFINE k == heap.promise[p].sets
<1>1. PICK s \in {Result(k), Error(k)} : heap' = Set(heap, p, s) /\ cells' = Resolve(cells, k, s)
  BY DEF SetPromise
<1>2. /\ Sound(heap, cells, {}, {}, {}, {}) /\ heap.promise[p] # Dead /\ heap.promise[p].state # None
      /\ PromiseState(heap, p) = Pending /\ p \in Places /\ p \notin Conts
  BY NameFacts DEF SoundNow, SetPromise
<1>3. s \in Outcomes
  <2>1. heap.promise[p] \in PromiseObjects  BY <1>2, SoundObjects
  <2>2. k \in Numbers  BY <2>1 DEF PromiseObjects
  <2> QED BY <1>1, <2>2, StateFacts
<1> HIDE DEF k
<1>4. Sound(Set(heap, p, s), Resolve(cells, k, s), {}, {}, {}, {} \ {s})
  BY <1>2, <1>3, SetSound DEF k
<1>5. {} \ {s} = {}  OBVIOUS
<1> QED BY <1>1, <1>4, <1>5 DEF SoundNow

LEMMA EndPromiseStep ==
    ASSUME SoundNow, NEW p \in Promises, EndPromise(p)
    PROVE  SoundNow'
<1> DEFINE gone == {heap.promise[q].sets : q \in Doomed(heap, p)}
<1>1. /\ Sound(heap, cells, {}, {}, {}, {}) /\ heap.promise[p] # Dead
      /\ p \in Places /\ p \notin Conts /\ Conts \intersect {p} = {}
  BY NameFacts DEF SoundNow, EndPromise
<1>2. heap' = Ended(heap, p) /\ cells' = Broken(cells, gone)
  BY <1>1 DEF EndPromise, Ended, Broken
<1> HIDE DEF gone
<1>3. Sound(Ended(heap, p), Broken(cells, gone), {}, {}, {}, {})
  BY <1>1, EndedSound DEF gone
<1> QED BY <1>2, <1>3 DEF SoundNow

LEMMA RelocatePromiseStep ==
    ASSUME SoundNow, NEW p \in Promises, RelocatePromise(p)
    PROVE  SoundNow'
<1>1. PICK q \in Promises : heap.promise[q] = Dead /\ heap' = MovePromise(heap, p, q)
  BY DEF RelocatePromise
<1>2. Sound(heap, cells, {}, {}, {}, {}) /\ heap.promise[p] # Dead /\ cells' = cells
  BY DEF SoundNow, RelocatePromise
<1>3. Sound(MovePromise(heap, p, q), cells, {}, {}, {}, {})
  BY <1>1, <1>2, MovePromiseSound
<1> QED BY <1>1, <1>2, <1>3 DEF SoundNow

LEMMA RelocateFutureStep ==
    ASSUME SoundNow, NEW f \in Futures, RelocateFuture(f)
    PROVE  SoundNow'
<1>1. PICK g \in Futures : heap.future[g] = Dead /\ heap' = MoveFuture(heap, f, g)
  BY DEF RelocateFuture
<1>2. Sound(heap, cells, {}, {}, {}, {}) /\ heap.future[f] # Dead /\ cells' = cells
  BY DEF SoundNow, RelocateFuture
<1>3. Sound(MoveFuture(heap, f, g), cells, {}, {}, {}, {})
  BY <1>1, <1>2, MoveFutureSound
<1> QED BY <1>1, <1>2, <1>3 DEF SoundNow

LEMMA EndFutureStep ==
    ASSUME SoundNow, NEW f \in Futures, EndFuture(f)
    PROVE  SoundNow'
<1>1. Sound(heap, cells, {}, {}, {}, {}) /\ heap.future[f] # Dead /\ cells' = cells
      /\ heap' = DropFuture(heap, f)
  BY DEF SoundNow, EndFuture
<1>2. Sound(DropFuture(heap, f), cells, {}, {}, {}, {})  BY <1>1, DropFutureSound
<1> QED BY <1>1, <1>2 DEF SoundNow

LEMMA ReportFields ==
    ASSUME NEW h \in Heaps, NEW s, NEW x, x = Report(h, s)
    PROVE  /\ x.promise = h.promise /\ x.future = h.future /\ x.cont = h.cont /\ x.tasks = h.tasks
           /\ Failed(s) => s \in x.seen
BY DEF Heaps, Report

LEMMA TakeSeen ==
    ASSUME NEW h, NEW f PROVE TakeState(h, f).seen = h.seen
BY DEF TakeState

LEMMA ConsumeStep ==
    ASSUME SoundNow, NEW f \in Futures, Consume(f)
    PROVE  SoundNow'
<1> DEFINE s == State(heap, f)
           a == Report(heap, s)
           b == TakeState(a, f)
           x == DropFuture(b, f)
<1>1. Sound(heap, cells, {}, {}, {}, {}) /\ heap.future[f] # Dead /\ Available(s)
      /\ heap' = x /\ cells' = cells
  BY DEF SoundNow, Consume
<1>2. heap \in Heaps /\ s \in States  BY <1>1, FutureState DEF Sound
<1>3. /\ a.promise = heap.promise /\ a.future = heap.future /\ a.cont = heap.cont
      /\ Failed(s) => s \in a.seen
  BY <1>2, ReportFields
<1>4. Sound(a, cells, {}, {}, {}, {})  BY <1>1, <1>2, ReportSound
<1> HIDE DEF a
<1>5. State(a, f) = s  BY ONLY <1>3 DEF State, PromiseState
<1> HIDE DEF s
<1>6. Sound(b, cells, {}, {}, {f}, {} \union {State(a, f)}) /\ b.future[f] # Dead
  BY <1>1, <1>3, <1>4, <1>5, TakeSound
<1>7. b.seen = a.seen  BY TakeSeen
<1> HIDE DEF b
<1>8. \A e \in ({} \union {State(a, f)}) \ {} : e \in b.seen \/ ~Failed(e) \/ HeldIn(b, {}, e)
  BY <1>3, <1>5, <1>7
<1>9. Sound(b, cells, {}, {}, {f}, {})  BY <1>6, <1>8, HandSound
<1>10. Sound(x, cells, {}, {}, {}, {})  BY <1>6, <1>9, DropFutureSound
<1> QED BY <1>1, <1>10 DEF SoundNow

LEMMA ReadyHeap ==
    ASSUME NEW h \in Heaps, NEW c \in Conts, h.cont[c] \in ContObjects, NEW s
    PROVE  [h EXCEPT !.cont[c].state = s, !.tasks = Append(@, c)] =
              WithTask(WithCont(h, c, StateIs(h.cont[c], s)), c)
BY DEF Heaps, ContObjects, WithTask, WithCont, StateIs

LEMMA WaitHeap ==
    ASSUME NEW h \in Heaps, NEW q \in Places, h.promise[q] \in PromiseObjects, NEW c
    PROVE  [h EXCEPT !.promise[q].state = c, !.promise[q].task = c] =
              WithPromise(h, q, TaskIs(h.promise[q], c, c))
BY DEF Heaps, PromiseObjects, WithPromise, TaskIs

(* schedule(), and then the end of the future.                             *)
LEMMA ScheduleSound ==
    ASSUME NEW h, NEW cs, NEW c \in Conts, NEW loose, loose = {c}, Sound(h, cs, {}, loose, {}, {}),
           h.cont[c] # Dead, h.promise[c] # Dead, h.promise[c].future = None,
           NEW f \in Futures, h.future[f] # Dead,
           Available(State(h, f)) \/ h.future[f].promise # None,
           h.cont[c].awaits = h.future[f].cell, h.future[f].promise # c,
           NEW b, b = Schedule(h, f, c), NEW x, x = DropFuture(b, f)
    PROVE  Sound(x, cs, {}, {}, {}, {}) /\ x.promise[c] = h.promise[c] /\ x.future[f] = Dead
<1>0. /\ loose = {c} /\ h.cont[c] # Dead /\ h.promise[c] # Dead /\ h.promise[c].future = None
      /\ h.future[f] # Dead
      /\ Available(State(h, f)) \/ h.future[f].promise # None
      /\ h.cont[c].awaits = h.future[f].cell /\ h.future[f].promise # c
      /\ b = Schedule(h, f, c) /\ x = DropFuture(b, f) /\ Sound(h, cs, {}, loose, {}, {})
  OBVIOUS
<1>1. c \in Places /\ f # None  BY ONLY NameFacts
<1>2. State(h, f) \in States /\ State(h, f) = OutcomeIn(cs, h.future[f].cell) /\ h \in Heaps
      /\ CellsSound(cs) /\ h.future[f].cell \in DOMAIN cs
  <2>1. /\ h \in Heaps /\ CellsSound(cs)
        /\ h.future[f] \in FutureObjects /\ FutureSound(h, cs, f, {})
    BY ONLY <1>0, f \in Futures, SoundObjects, Zenon
  <2>2. f \notin {}  BY ONLY Zenon
  <2>3. State(h, f) \in States /\ State(h, f) = OutcomeIn(cs, h.future[f].cell)
    BY ONLY SMTT(200), <1>0, <2>2, f \in Futures, FutureState
  <2>4. h.future[f].cell \in DOMAIN cs  BY ONLY <2>1, Zenon DEF FutureSound
  <2> QED BY ONLY <2>1, <2>3, <2>4
<1>3. Sound(b, cs, {}, {}, {f}, {}) /\ b.future[f] # Dead /\ b.promise[c] = h.promise[c]
  <2>1. CASE Available(State(h, f))
    <3> DEFINE s == State(h, f)
               a == TakeState(h, f)
               t == StateIs(a.cont[c], s)
    <3>1. s \in Outcomes  BY ONLY <1>2, <2>1, StateFacts
    <3>2. Sound(a, cs, {}, loose, {f}, {} \union {s}) /\ a.future[f] # Dead /\ a.cont = h.cont
          /\ a.promise[c] = h.promise[c]
      BY <1>0, <1>1, <2>1, TakeSound
    <3>3. b = [a EXCEPT !.cont[c].state = s, !.tasks = Append(@, c)]
      BY <1>0, <2>1 DEF Schedule
    <3> HIDE DEF a, s
    <3>4. a \in Heaps /\ a.cont[c] \in ContObjects  BY <1>0, <3>2, SoundObjects
    <3>5. b = WithTask(WithCont(a, c, t), c)  BY <3>3, <3>4, ReadyHeap
    <3>6. s = OutcomeIn(cs, a.cont[c].awaits)  BY <1>0, <1>2, <3>2 DEF s
    <3>7. /\ Sound(b, cs, {}, {}, {f}, ({} \union {s}) \ {s})
          /\ b.promise = a.promise /\ b.future = a.future
      <4> DEFINE spent == {f}
                 hand == {} \union {s}
      <4>1. Sound(a, cs, {}, loose, spent, hand)  BY <3>2
      <4>2. a.cont[c] # Dead /\ t = StateIs(a.cont[c], s)  BY <1>0, <3>2
      <4> HIDE DEF t, spent, hand
      <4>3. Sound(b, cs, {}, {}, spent, hand \ {s}) /\ b.promise = a.promise /\ b.future = a.future
        BY ONLY loose = {c}, c \in Conts, <3>1, <4>1, <3>5, <3>6, <4>2, AttachReady
      <4> QED BY <4>3 DEF spent, hand
    <3>8. ({} \union {s}) \ {s} = {}  OBVIOUS
    <3> QED BY <3>2, <3>7, <3>8
  <2>2. CASE ~Available(State(h, f))
    <3> DEFINE q == h.future[f].promise
               r == TaskIs(h.promise[q], c, c)
    <3>1. State(h, f) = Pending /\ q # None
      BY <1>0, <1>2, <2>2, StateFacts, RootFacts
    <3>2. q \in Places /\ h.promise[q] # Dead /\ q # c  BY <1>0, <3>1, FutureState
    <3>3. h.promise[q] \in PromiseObjects  BY <1>0, <3>2, SoundObjects
    <3>4. b = Detach([h EXCEPT !.promise[q].state = c, !.promise[q].task = c], f)
      BY <1>0, <2>2 DEF Schedule
    <3>9. q = h.future[f].promise  OBVIOUS
    <3> HIDE DEF q
    <3>5. b = Detach(WithPromise(h, q, r), f)  BY <1>2, <3>2, <3>3, <3>4, WaitHeap
    <3>6. /\ Sound(b, cs, {}, {}, {f}, {}) /\ b.future[f] # Dead
          /\ \A p \in Places : p # q => b.promise[p] = h.promise[p]
      <4>1. b = Detach(WithPromise(h, q, TaskIs(h.promise[q], c, c)), f)  BY <3>5
      <4>2. Attachable(h, cs, c, f, loose)
        BY ONLY <1>0, <3>1, <3>9 DEF Attachable
      <4>3. Attached(b, h, cs, f, q)
        BY ONLY <3>9, <4>1, <4>2, c \in Conts, f \in Futures, AttachPending
      <4> QED BY ONLY <4>3 DEF Attached
    <3> QED BY <1>1, <3>2, <3>6
  <2> QED BY <2>1, <2>2
<1>4. /\ Sound(x, cs, {}, {}, {}, {}) /\ x.future[f] = Dead
      /\ x.promise[c] = IF c = b.future[f].promise THEN FutureIs(b.promise[c], None) ELSE b.promise[c]
  <2>1. {f} \subseteq {f}  OBVIOUS
  <2>2. Sound(x, cs, {}, {}, {}, {}) /\ Without(b, x, f)
    BY ONLY <1>0, <1>3, <2>1, f \in Futures, DropFutureSound
  <2> QED BY ONLY <1>1, <2>2 DEF Without
<1>5. c # b.future[f].promise
  <2>1. FutureSound(b, cs, f, {f})  BY <1>3, SoundObjects
  <2>2. c # None  BY NameFacts
  <2> QED BY <1>0, <1>1, <1>3, <2>1, <2>2 DEF FutureSound
<1> QED BY <1>3, <1>4, <1>5

LEMMA GetHeap ==
    ASSUME NEW h \in Heaps, NEW p \in Places, NEW f \in Futures, h.promise[p] \in PromiseObjects,
           h.promise[p].given
    PROVE  GetFuture(h, p, f) =
              WithFuture(WithPromise(h, p, FutureIs(GivenIs(h.promise[p]), f)), f,
                         NewFuture(p, Pending, h.promise[p].cell))
<1>1. FutureIs(GivenIs(h.promise[p]), f) = FutureIs(h.promise[p], f)
  <2>1. GivenIs(h.promise[p]) = h.promise[p]  BY DEF PromiseObjects, GivenIs
  <2> QED BY <2>1
<1>2. GetFuture(h, p, f) = WithFuture(WithPromise(h, p, FutureIs(h.promise[p], f)), f,
                                      NewFuture(p, Pending, h.promise[p].cell))
  BY DEF Heaps, PromiseObjects, GetFuture, WithFuture, WithPromise, FutureIs, NewFuture
<1> QED BY <1>1, <1>2

Given(k) == Made(k, TRUE)

LEMMA MadeGiven == ASSUME NEW k \in Numbers PROVE [NewPromise(k) EXCEPT !.given = TRUE] = Given(k)
BY DEF Made, Given

LEMMA GivenFields ==
    ASSUME NEW k \in Numbers, NEW r, r = Given(k)
    PROVE  /\ r \in PromiseObjects /\ r # Dead /\ r.future = None /\ r.state = "own"
           /\ r.own = Pending /\ r.task = None /\ r.cell = k /\ r.sets = k /\ r.given
<1> DEFINE g == TRUE
<1>1. g \in BOOLEAN /\ r = Made(k, g)  BY DEF Given
<1>2. g = TRUE  OBVIOUS
<1> HIDE DEF g
<1>3. /\ r \in PromiseObjects /\ r # Dead /\ r.future = None /\ r.state = "own"
      /\ r.own = Pending /\ r.task = None /\ r.cell = k /\ r.sets = k /\ r.given = g
  BY <1>1, MadeFields
<1> QED BY <1>2, <1>3

ContMade(k) == [wrapped |-> FALSE, state |-> Pending, awaits |-> k]

LEMMA ContMadeFields ==
    ASSUME NEW k \in Numbers, NEW t, t = ContMade(k)
    PROVE  t \in ContObjects /\ t # Dead /\ t.state = Pending /\ t.awaits = k
<1>1. t \in ContObjects /\ t.state = Pending /\ t.awaits = k
  BY StateFacts DEF ContMade, ContObjects
<1> QED BY <1>1, DeadFacts

(* The continuation and its promise are made.                              *)
LEMMA ThenMade ==
    ASSUME NEW h, NEW cs, Sound(h, cs, {}, {}, {}, {}), Room(cs), NEW k, k = NextOf(cs),
           NEW ds, ds = Longer(cs, FreshCell),
           NEW c \in Conts, h.cont[c] = Dead, NEW j \in DOMAIN cs,
           NEW r, r = Given(k), NEW t, t = ContMade(j),
           NEW x, x = WithCont(WithPromise(h, c, r), c, t), NEW loose, loose = {c}
    PROVE  /\ Sound(x, ds, {}, loose, {}, {}) /\ x.future = h.future
           /\ x.promise[c] = r /\ r.future = None /\ r.state = "own" /\ r.own = Pending /\ r.given
           /\ x.cont[c] = t /\ h.promise[c] = Dead
           /\ \A q \in Places : q # c => x.promise[q] = h.promise[q]
<1>1. FreshCell \in CellObjects /\ FreshCell.outcome = Pending /\ FreshCell.like = 0 /\ ~FreshCell.broken
  BY FreshCellFacts
<1>2. /\ Sound(h, ds, {}, {}, {}, {} \union {FreshCell.outcome})
      /\ Unowned(h, k)
  BY ONLY Sound(h, cs, {}, {}, {}, {}), Room(cs), k = NextOf(cs), ds = Longer(cs, FreshCell),
          <1>1, AppendCellSound
<1>3. CellsSound(cs) /\ h \in Heaps  BY DEF Sound
<1>4. /\ CellsSound(ds) /\ DOMAIN ds = DOMAIN cs \union {k} /\ k \in Numbers /\ ds[k] = FreshCell
  BY ONLY <1>3, Room(cs), k = NextOf(cs), ds = Longer(cs, FreshCell), <1>1, AppendCells
<1>5. \A s \in ({} \union {FreshCell.outcome}) \ {} : ~Failed(s)
  BY <1>1, StateFacts
<1>6. Sound(h, ds, {}, {}, {}, {})  BY <1>2, <1>5, HandSound
<1>7. j \in Numbers /\ j \in DOMAIN ds  BY <1>3, <1>4, RootFacts
<1>8. t \in ContObjects /\ t # Dead /\ t.state = Pending /\ t.awaits = j
  BY <1>7, ContMadeFields
<1>9. /\ r \in PromiseObjects /\ r # Dead /\ r.future = None /\ r.state = "own"
      /\ r.own = Pending /\ r.given
  BY <1>4, GivenFields
<1>10. c \in Places /\ h.promise[c] = Dead  BY <1>6, NameFacts, SoundObjects
<1>11. /\ k \in DOMAIN ds /\ ds[k].outcome = Pending /\ ds[k].like = 0 /\ ~ds[k].broken
  BY <1>1, <1>4
<1> DEFINE g == TRUE
<1>12. Conts \intersect {c} = loose /\ g \in BOOLEAN /\ r = Made(k, g)  BY DEF Given
<1> HIDE DEF g
<1>13. /\ c \in Conts
       /\ \E i \in DOMAIN ds, u \in ContObjects :
             u.state = Pending /\ u.awaits = i /\ x = WithCont(WithPromise(h, c, r), c, u)
  BY <1>7, <1>8
<1>14. /\ Sound(x, ds, {}, Conts \intersect {c}, {}, {})
       /\ x.future = h.future /\ x.promise[c] = r
       /\ \A q \in Places : q # c => x.promise[q] = h.promise[q]
  <2>1. Unowned(h, k)  BY ONLY <1>2
  <2>2. MadeAt(h, ds, c, r, x)  BY ONLY <1>13 DEF MadeAt
  <2> QED BY ONLY <1>6, <1>10, <1>11, <1>12, <2>1, <2>2, NewPromiseSound
<1>15. x.cont[c] = t
  <2> DEFINE a == WithPromise(h, c, r)
  <2>1. a \in Heaps  BY <1>3, <1>9, <1>10, WithPromiseHeap
  <2>2. x = WithCont(a, c, t)  OBVIOUS
  <2> HIDE DEF a
  <2> QED BY ONLY <1>8, <2>1, <2>2, c \in Conts, WithContHeap
<1> QED BY <1>9, <1>10, <1>12, <1>14, <1>15

LEMMA ThenStep ==
    ASSUME SoundNow, NEW f \in Futures, Then(f)
    PROVE  SoundNow'
<1> DEFINE k == NextOf(cells)
           ds == Longer(cells, FreshCell)
           c == Slot(heap.cont)
           j == heap.future[f].cell
           made == WithCont(WithPromise(heap, c, Given(k)), c, ContMade(j))
           b == Schedule(made, f, c)
           gone == DropFuture(b, f)
           g == Slot(gone.future)
<1>1. /\ Sound(heap, cells, {}, {}, {}, {}) /\ Room(cells) /\ heap.future[f] # Dead
      /\ Available(State(heap, f)) \/ heap.future[f].promise # None
      /\ Free(heap.cont) # {} /\ cells' = ds
  BY DEF SoundNow, Then, Usable, Room, NextOf, Longer, NextCell
<1>2. heap \in Heaps /\ CellsSound(cells) /\ k \in Numbers
  BY <1>1 DEF Sound, CellsSound, Room, NextOf, Numbers
<1>3. c \in Conts /\ heap.cont[c] = Dead  BY <1>1, <1>2, FreeSlots
<1>4. j \in DOMAIN cells  BY <1>1, SoundObjects DEF FutureSound
<1>5. PICK w \in BOOLEAN : heap' = GetFuture(WithCont(gone, c, WrappedIs(gone.cont[c], w)), c, g)
  <2> HIDE DEF c
  <2>1. made = [heap EXCEPT !.promise[c] = [NewPromise(k) EXCEPT !.given = TRUE],
                            !.cont[c] = [wrapped |-> FALSE, state |-> Pending, awaits |-> j]]
    <3>1. [NewPromise(k) EXCEPT !.given = TRUE] = Given(k)  BY <1>2, MadeGiven
    <3>2. [wrapped |-> FALSE, state |-> Pending, awaits |-> j] = ContMade(j)
      BY DEF ContMade
    <3> QED BY <1>2, <3>1, <3>2 DEF Heaps, WithPromise, WithCont
  <2> HIDE DEF made, j
  <2>2. \E w \in BOOLEAN : heap' = GetFuture([gone EXCEPT !.cont[c].wrapped = w], c, g)
    BY <2>1 DEF Then, NextCell, NextOf, c, j
  <2> HIDE DEF gone
  <2>3. \A w : [gone EXCEPT !.cont[c].wrapped = w] = WithCont(gone, c, WrappedIs(gone.cont[c], w))
    BY DEF WithCont, WrappedIs
  <2> QED BY <2>2, <2>3
<1> DEFINE r == Given(k)
           t == ContMade(j)
           loose == {c}
           y == WithCont(gone, c, WrappedIs(gone.cont[c], w))
<1>6. k = NextOf(cells) /\ ds = Longer(cells, FreshCell) /\ r = Given(k) /\ t = ContMade(j)
      /\ made = WithCont(WithPromise(heap, c, r), c, t) /\ loose = {c}
      /\ b = Schedule(made, f, c) /\ gone = DropFuture(b, f) /\ y = WithCont(gone, c, WrappedIs(gone.cont[c], w))
      /\ j = heap.future[f].cell /\ g = Slot(gone.future)
  OBVIOUS
<1> HIDE DEF k, ds, c, j, made, b, gone, g, r, t, loose, y
<1>7. /\ Sound(made, ds, {}, loose, {}, {}) /\ made.future = heap.future
      /\ made.promise[c] = r /\ r.future = None /\ r.state = "own" /\ r.own = Pending /\ r.given
      /\ made.cont[c] = t /\ heap.promise[c] = Dead
      /\ \A q \in Places : q # c => made.promise[q] = heap.promise[q]
  <2>1. Sound(heap, cells, {}, {}, {}, {}) /\ Room(cells)  BY ONLY <1>1
  <2> QED BY ONLY SMTT(200), <2>1, <1>3, <1>4, <1>6, ThenMade
<1>8. r \in PromiseObjects /\ r # Dead /\ r.cell = k  BY <1>2, <1>6, GivenFields
<1>9. t # Dead /\ t.awaits = j
  <2>1. j \in Numbers  BY <1>2, <1>4, RootFacts
  <2> QED BY <1>6, <2>1, ContMadeFields
<1>10. c \in Places /\ c # None /\ None # "own"  BY <1>3, NameFacts
<1>11. heap.future[f].promise # c /\ made.future[f].promise # c
  BY <1>1, <1>7, <1>10, FutureState
<1>12. State(made, f) = State(heap, f)
  <2>1. heap.future[f].promise # None => /\ heap.future[f].promise \in Places
                                         /\ heap.promise[heap.future[f].promise].state = "own"
    BY <1>1, FutureState
  <2> QED BY ONLY <1>7, <1>11, <2>1 DEF State, PromiseState
<1>13. /\ loose = {c} /\ Sound(made, ds, {}, loose, {}, {})
       /\ made.cont[c] # Dead /\ made.promise[c] # Dead /\ made.promise[c].future = None
       /\ made.future[f] # Dead
       /\ Available(State(made, f)) \/ made.future[f].promise # None
       /\ made.cont[c].awaits = made.future[f].cell
  BY <1>1, <1>6, <1>7, <1>8, <1>9, <1>12
<1>14. Sound(gone, ds, {}, {}, {}, {}) /\ gone.promise[c] = made.promise[c] /\ gone.future[f] = Dead
  <2>1. made.future[f].promise # c /\ b = Schedule(made, f, c) /\ gone = DropFuture(b, f)
    BY ONLY <1>6, <1>11
  <2> QED BY ONLY <1>3, <2>1, <1>13, f \in Futures, ScheduleSound
<1>15. gone.cont[c] # Dead  BY <1>3, <1>7, <1>8, <1>14, SoundObjects
<1>16. Sound(y, ds, {}, {}, {}, {}) /\ y.promise = gone.promise /\ y.future = gone.future
  <2>1. y = WithCont(gone, c, WrappedIs(gone.cont[c], w)) /\ Sound(gone, ds, {}, {}, {}, {})
    BY ONLY <1>6, <1>14
  <2> QED BY ONLY <1>3, <2>1, <1>15, w \in BOOLEAN, WrappedSound
<1>17. y \in Heaps /\ gone \in Heaps  BY <1>14, <1>16 DEF Sound
<1>18. g \in Futures /\ gone.future[g] = Dead
  <2>1. Free(gone.future) # {}  BY <1>14, <1>17 DEF Free, Heaps
  <2> QED BY <1>6, <1>17, <2>1, FreeSlots
<1>19. y.promise[c] = r /\ r \in PromiseObjects  BY <1>7, <1>8, <1>14, <1>16
<1> DEFINE r2 == FutureIs(GivenIs(y.promise[c]), g)
           t2 == NewFuture(c, Pending, y.promise[c].cell)
           x == WithFuture(WithPromise(y, c, r2), g, t2)
<1>20. heap' = x
  <2>1. heap' = GetFuture(y, c, g)  BY <1>5, <1>6
  <2> QED BY <1>7, <1>10, <1>17, <1>18, <1>19, <2>1, GetHeap
<1>21. /\ y.promise[c] # Dead /\ y.promise[c].future = None /\ y.promise[c].state = "own"
       /\ y.promise[c].own # Invalid /\ y.future[g] = Dead
  BY <1>7, <1>8, <1>16, <1>18, <1>19, StateFacts
<1>22. r2 = FutureIs(GivenIs(y.promise[c]), g) /\ t2 = NewFuture(c, Pending, y.promise[c].cell)
       /\ x = WithFuture(WithPromise(y, c, r2), g, t2)
  OBVIOUS
<1> HIDE DEF r2, t2, x
<1>23. Sound(x, ds, {}, {}, {}, {})
  BY ONLY <1>10, <1>16, <1>18, <1>21, <1>22, GetFutureSound
<1> QED BY <1>1, <1>20, <1>23 DEF SoundNow

(* A promise whose outcome is there already and that has no task left ends *)
(* alone, and breaks nothing.                                              *)
LEMMA EndsAlone ==
    ASSUME NEW h, NEW cs, NEW run, NEW hand, NEW p \in Places, run = Conts \intersect {p},
           Sound(h, cs, run, {}, {}, hand), h.promise[p] # Dead, h.promise[p].task = None,
           NEW k, k = h.promise[p].sets, cs[k].outcome # Pending,
           NEW x, x = Ended(h, p)
    PROVE  Sound(x, cs, {}, {}, {}, hand) /\ Unowned(x, k)
<1> DEFINE D == Doomed(h, p)
           gone == {h.promise[q].sets : q \in D}
           ds == Broken(cs, gone)
<1>0. p \in Places /\ h.promise[p] # Dead /\ h.promise[p].task = None /\ k = h.promise[p].sets
      /\ cs[k].outcome # Pending /\ run = Conts \intersect {p} /\ x = Ended(h, p)
      /\ Sound(h, cs, run, {}, {}, hand)
  OBVIOUS
<1>1. D = {p}
  <2>1. D = Doomed(h, p)  OBVIOUS
  <2>2. p \in D  BY <1>0, <2>1, DoomedFacts
  <2>3. {p} \in SUBSET Places /\ p \in {p} /\ DiesToo(h, {p})  BY <1>0 DEF DiesToo
  <2>4. \A q \in D : q \in {p}  BY ONLY <2>3 DEF Doomed
  <2> QED BY <2>2, <2>4
<1>2. gone = {k}  BY <1>0, <1>1
<1>3. D = Doomed(h, p) /\ gone = {h.promise[q].sets : q \in Doomed(h, p)} /\ ds = Broken(cs, gone)
  OBVIOUS
<1>4. CellsSound(cs) /\ Distinct(h)  BY <1>0 DEF Sound
<1> HIDE DEF D, gone, ds
<1>5. ds = cs
  <2>1. cs = [i \in DOMAIN cs |-> cs[i]]  BY <1>4 DEF CellsSound
  <2>2. \A i \in DOMAIN cs : ~(i \in gone /\ cs[i].outcome = Pending)  BY <1>0, <1>2
  <2> QED BY <1>3, <2>1, <2>2 DEF Broken
<1>6. /\ Sound(x, ds, {}, {}, {}, hand)
      /\ \A q \in Places : x.promise[q] # Dead => q # p /\ x.promise[q] = h.promise[q]
  BY ONLY <1>0, <1>3, EndedSound
<1>7. Unowned(x, k)  BY ONLY <1>0, <1>4, <1>6 DEF Unowned, Distinct
<1> QED BY <1>5, <1>6, <1>7

(* The promise that forward_to() is about, and the task that ran.          *)
Forwarded(h, f, p) == IF p \in Conts THEN WithCont(ForwardTo(h, f, p), p, Dead) ELSE ForwardTo(h, f, p)

LEMMA ForwardReady ==
    ASSUME NEW h, NEW cs, NEW run, NEW p \in Places, run = Conts \intersect {p},
           Sound(h, cs, run, {}, {}, {}),
           h.promise[p] # Dead, h.promise[p].state # None, PromiseState(h, p) = Pending,
           NEW k, k = h.promise[p].sets, k \in DOMAIN cs, cs[k].outcome = Pending, cs[k].like = 0,
           NEW f \in Futures, h.future[f] # Dead, Available(State(h, f)),
           NEW j, j = h.future[f].cell, Root(cs, j) # k, NEW ds, ds = Follow(cs, k, j),
           NEW x, x = Forwarded(h, f, p)
    PROVE  Sound(x, ds, {}, {}, {}, {})
<1> DEFINE s == State(h, f)
           a == TakeState(h, f)
           es == Resolve(cs, k, s)
           b == Set(a, p, s)
           c == DropFuture(b, f)
           spent == {f}
           hand == {} \union {s}
<1>0. p \in Places /\ run = Conts \intersect {p} /\ Sound(h, cs, run, {}, {}, {})
      /\ h.promise[p] # Dead /\ h.promise[p].state # None /\ PromiseState(h, p) = Pending
      /\ k = h.promise[p].sets /\ k \in DOMAIN cs /\ cs[k].outcome = Pending /\ cs[k].like = 0
      /\ f \in Futures /\ h.future[f] # Dead /\ Available(s) /\ j = h.future[f].cell
      /\ Root(cs, j) # k /\ ds = Follow(cs, k, j)
  OBVIOUS
<1>1. /\ h.promise[p] \in PromiseObjects /\ PromiseSound(h, cs, p, {})
      /\ FutureSound(h, cs, f, {}) /\ CellsSound(cs)
  BY <1>0, SoundObjects
<1>2. s \in States /\ s = OutcomeIn(cs, j) /\ j \in DOMAIN cs
  <2>1. Sound(h, cs, run, {}, {}, {}) /\ f \in Futures /\ h.future[f] # Dead
    BY ONLY <1>0
  <2>2. s \in States /\ s = OutcomeIn(cs, h.future[f].cell)
    <3>1. s = State(h, f) /\ f \notin {}  OBVIOUS
    <3> HIDE DEF s
    <3> QED BY ONLY <2>1, <3>1, FutureState, SMTT(200)
  <2>3. h.future[f].cell \in DOMAIN cs  BY ONLY <1>1, Zenon DEF FutureSound
  <2>4. j = h.future[f].cell  BY ONLY <1>0
  <2> QED BY ONLY <2>2, <2>3, <2>4
<1>3. s \in Outcomes  BY <1>0, <1>2, StateFacts
<1>4. h.promise[p].future # f
  <2>1. f # None  BY NameFacts
  <2> SUFFICES ASSUME h.promise[p].future = f PROVE FALSE  OBVIOUS
  <2>2. h.promise[p].state = "own" /\ h.future[f].promise = p /\ p # None
    BY <1>0, <1>1, <2>1, NameFacts DEF PromiseSound
  <2>3. s = PromiseState(h, p)  BY <2>2 DEF State
  <2> QED BY <1>0, <1>3, <2>3, StateFacts
<1>5. x = Ended(c, p)  BY <1>0 DEF Forwarded, ForwardTo, Ended
<1>6. s = State(h, f) /\ a = TakeState(h, f) /\ es = Resolve(cs, k, s) /\ b = Set(a, p, s)
      /\ c = DropFuture(b, f) /\ spent = {f} /\ hand = {} \union {s} /\ spent \subseteq {f}
      /\ hand \ {s} = {}
  OBVIOUS
<1> HIDE DEF s, a, es, b, c, spent, hand
<1>7. /\ Sound(a, cs, run, {}, spent, hand)
      /\ a.future[f] # Dead /\ a.promise[p] = h.promise[p] /\ a.cont = h.cont
  BY <1>0, <1>4, <1>6, TakeSound
<1>8. /\ a.promise[p] # Dead /\ a.promise[p].state # None /\ k = a.promise[p].sets
      /\ p \in Conts => p \in run
  BY <1>0, <1>7
<1>9. PromiseState(a, p) = Pending  BY ONLY <1>0, <1>7 DEF PromiseState
<1>10. Sound(b, es, run, {}, spent, hand \ {s}) /\ SetDone(a, b, es, run, p, k, s)
  <2>1. es = Resolve(cs, k, s) /\ b = Set(a, p, s) /\ p \in Places
    BY ONLY <1>0, <1>6
  <2>2. Sound(a, cs, run, {}, spent, hand)  BY ONLY <1>7
  <2> QED BY ONLY <2>1, <2>2, <1>3, <1>8, <1>9, SetSound
<1>11. Sound(b, es, run, {}, spent, {}) /\ b.future[f] # Dead
  BY <1>6, <1>7, <1>10 DEF SetDone
<1>12. Sound(c, es, run, {}, {}, {}) /\ Without(b, c, f)
  <2>1. c = DropFuture(b, f) /\ spent \subseteq {f} /\ f \in Futures
    BY ONLY <1>0, <1>6
  <2> QED BY ONLY <2>1, <1>11, DropFutureSound
<1>13. c.promise[p] # Dead /\ c.promise[p].task = None /\ c.promise[p].sets = k
  <2>1. b.promise[p] \in PromiseObjects
    BY <1>0, <1>10, <1>11, SoundObjects DEF SetDone
  <2>2. LET e == FutureIs(b.promise[p], None) IN e # Dead /\ e.task = b.promise[p].task
                                                 /\ e.sets = b.promise[p].sets
    BY <2>1, PromiseFields
  <2> QED BY ONLY <1>0, <1>10, <1>12, <2>2 DEF SetDone, Without
<1>14. es[k].outcome # Pending /\ k = c.promise[p].sets
  BY <1>3, <1>10, <1>13, StateFacts DEF SetDone
<1>15. Sound(x, es, {}, {}, {}, {}) /\ Unowned(x, k)
  BY ONLY <1>0, <1>5, <1>12, <1>13, <1>14, EndsAlone
<1> QED BY ONLY <1>0, <1>1, <1>2, <1>3, <1>6, <1>15, MergeSound

LEMMA ForwardPending ==
    ASSUME NEW h, NEW cs, NEW run, NEW p \in Places, run = Conts \intersect {p},
           Sound(h, cs, run, {}, {}, {}),
           h.promise[p] # Dead, h.promise[p].state # None, PromiseState(h, p) = Pending,
           NEW k, k = h.promise[p].sets, k \in DOMAIN cs,
           NEW f \in Futures, h.future[f] # Dead, ~Available(State(h, f)), h.future[f].promise # None,
           NEW j, j = h.future[f].cell, Root(cs, j) # k, NEW ds, ds = Follow(cs, k, j),
           NEW x, x = Forwarded(h, f, p)
    PROVE  Sound(x, ds, {}, {}, {}, {})
<1> DEFINE q == h.future[f].promise
           a == DropFuture(h, f)
           o == a.promise[q].sets
           b == MovePromise(a, p, q)
           c == WithPromise(b, q, SetsIs(b.promise[q], o))
           hand == {}
           y == IF p \in Conts THEN WithCont(c, p, Dead) ELSE c
<1>0. p \in Places /\ run = Conts \intersect {p} /\ Sound(h, cs, run, {}, {}, {})
      /\ h.promise[p] # Dead /\ h.promise[p].state # None /\ PromiseState(h, p) = Pending
      /\ k = h.promise[p].sets /\ k \in DOMAIN cs
      /\ f \in Futures /\ h.future[f] # Dead /\ ~Available(State(h, f)) /\ j = h.future[f].cell
      /\ q # None /\ Root(cs, j) # k /\ ds = Follow(cs, k, j)
  OBVIOUS
<1>1. FutureSound(h, cs, f, {}) /\ CellsSound(cs) /\ j \in DOMAIN cs
  BY ONLY ZenonT(60), <1>0, SoundObjects DEF FutureSound
<1>2. /\ State(h, f) \in States /\ State(h, f) = OutcomeIn(cs, j)
      /\ q \in Places /\ h.promise[q] # Dead /\ h.promise[q].state = "own"
      /\ State(h, f) = h.promise[q].own
  <2>1. Sound(h, cs, run, {}, {}, {}) /\ f \in Futures /\ h.future[f] # Dead  BY ONLY <1>0
  <2>2. q # None  BY ONLY <1>0
  <2>3. f \notin {}  BY ONLY Zenon
  <2>4. j = h.future[f].cell  BY ONLY <1>0
  <2> QED BY ONLY <2>1, <2>2, <2>3, <2>4, FutureState, SMTT(200)
<1>3. h.promise[q].own = Pending  BY <1>0, <1>1, <1>2, RootFacts, StateFacts
<1>4. h.promise[q] \in PromiseObjects /\ h.promise[q].sets = Root(cs, j)
  <2>1. h.promise[q] \in PromiseObjects /\ PromiseSound(h, cs, q, {})
    BY <1>0, <1>2, SoundObjects
  <2>2. h.promise[q].cell = j  BY <1>0, <1>1 DEF FutureSound
  <2> QED BY <2>1, <2>2 DEF PromiseSound
<1>5. q # p  BY <1>0, <1>4
<1>6. /\ a = DropFuture(h, f) /\ o = a.promise[q].sets /\ b = MovePromise(a, p, q)
      /\ c = WithPromise(b, q, SetsIs(b.promise[q], o))
      /\ y = IF p \in Conts THEN WithCont(c, p, Dead) ELSE c
      /\ q = h.future[f].promise /\ hand = {}
  OBVIOUS
<1> HIDE DEF q, a, o, b, c, y, hand
<1>7. Sound(a, cs, run, {}, {}, hand) /\ Without(h, a, f)
  <2>1. {} \subseteq {f}  OBVIOUS
  <2>2. a = DropFuture(h, f) /\ f \in Futures /\ h.future[f] # Dead /\ Sound(h, cs, run, {}, {}, {})
    BY ONLY <1>0, <1>6
  <2>3. Sound(a, cs, run, {}, {}, {}) /\ Without(h, a, f)
    BY ONLY <2>1, <2>2, DropFutureSound
  <2> QED BY <1>6, <2>3
<1>8. a.promise[p] = h.promise[p] /\ a.cont = h.cont /\ a.promise[q] = FutureIs(h.promise[q], None)
  BY ONLY <1>0, <1>2, <1>5, <1>6, <1>7 DEF Without
<1>9. /\ a.promise[q] # Dead /\ a.promise[q].future = None /\ a.promise[q].state = "own"
      /\ a.promise[q].own = Pending /\ a.promise[q].sets = h.promise[q].sets
  <2>1. LET e == FutureIs(h.promise[q], None) IN
        /\ e # Dead /\ e.future = None /\ e.own = h.promise[q].own /\ e.state = h.promise[q].state
        /\ e.sets = h.promise[q].sets
    <3>1. None \in Futures \union {None} /\ h.promise[q] \in PromiseObjects  BY <1>4
    <3> QED BY ONLY <3>1, PromiseFields
  <2> QED BY ONLY <1>2, <1>3, <1>8, <2>1
<1>10. PromiseState(a, p) = Pending  BY ONLY <1>0, <1>8 DEF PromiseState
<1>11. x = y
  <2>1. ForwardTo(h, f, p) = c
    <3>1. ForwardTo(h, f, p) = [b EXCEPT !.promise[q].sets = h.promise[q].sets]
      BY ONLY <1>0, <1>6 DEF ForwardTo
    <3>2. h.promise[q].sets = o  BY <1>6, <1>9
    <3>3. [b EXCEPT !.promise[q].sets = o] = WithPromise(b, q, SetsIs(b.promise[q], o))
      BY DEF WithPromise, SetsIs
    <3> QED BY ONLY <1>6, <3>1, <3>2, <3>3
  <2> QED BY <1>6, <2>1 DEF Forwarded
<1>12. /\ a.promise[p] # Dead /\ a.promise[p].state # None
       /\ k = a.promise[p].sets /\ Root(cs, j) = o
  BY <1>0, <1>4, <1>6, <1>8, <1>9
<1>13. Sound(y, ds, {}, {}, {}, hand)
  <2>1. p \in Places /\ run = Conts \intersect {p} /\ ds = Follow(cs, k, j)
    BY ONLY <1>0
  <2> QED BY ONLY <2>1, <1>1, <1>2, <1>5, <1>6, <1>7, <1>9, <1>10, <1>12, JoinSound
<1> QED BY <1>6, <1>11, <1>13

LEMMA ForwardSound ==
    ASSUME NEW h, NEW cs, NEW run, NEW p \in Places, run = Conts \intersect {p},
           Sound(h, cs, run, {}, {}, {}),
           h.promise[p] # Dead, h.promise[p].state # None, PromiseState(h, p) = Pending,
           NEW k, k = h.promise[p].sets,
           NEW f \in Futures, h.future[f] # Dead,
           Available(State(h, f)) \/ h.future[f].promise # None,
           NEW j, j = h.future[f].cell, j \notin WaitingFor(h, cs, k), NEW ds, ds = Follow(cs, k, j),
           NEW x, x = Forwarded(h, f, p)
    PROVE  Sound(x, ds, {}, {}, {}, {})
<1>0. p \in Places /\ run = Conts \intersect {p} /\ Sound(h, cs, run, {}, {}, {})
      /\ h.promise[p] # Dead /\ h.promise[p].state # None /\ PromiseState(h, p) = Pending
      /\ k = h.promise[p].sets
      /\ f \in Futures /\ h.future[f] # Dead /\ j = h.future[f].cell
      /\ ds = Follow(cs, k, j) /\ x = Forwarded(h, f, p)
  OBVIOUS
<1>1. h.promise[p] \in PromiseObjects /\ PromiseSound(h, cs, p, {}) /\ FutureSound(h, cs, f, {})
  BY <1>0, SoundObjects
<1>2. k \in DOMAIN cs /\ cs[k].like = 0 /\ cs[k].outcome = Pending
  <2>1. CASE h.promise[p].state = "own"
    <3>1. h.promise[p].own = Pending  BY <1>0, <2>1 DEF PromiseState
    <3> QED BY <1>0, <1>1, <2>1, <3>1, StateFacts DEF PromiseSound
  <2>2. CASE h.promise[p].state # "own"
    <3>1. h.promise[p].state \in Conts  BY <1>0, <1>1, <2>2 DEF PromiseObjects
    <3> QED BY <1>0, <1>1, <3>1 DEF PromiseSound
  <2> QED BY <2>1, <2>2
<1>3. j \in DOMAIN cs  BY <1>0, <1>1 DEF FutureSound
<1>4. Root(cs, j) # k  BY <1>2, <1>3, WaitsForItself
<1>5. CASE Available(State(h, f))  BY ONLY <1>0, <1>2, <1>4, <1>5, ForwardReady
<1>6. CASE ~Available(State(h, f))
  <2>1. h.future[f].promise # None  BY <1>6
  <2> QED BY ONLY <1>0, <1>2, <1>4, <1>6, <2>1, ForwardPending
<1> QED BY <1>5, <1>6

LEMMA ForwardStep ==
    ASSUME SoundNow, NEW f \in Futures, NEW p \in Promises, Forward(f, p)
    PROVE  SoundNow'
<1> DEFINE k == heap.promise[p].sets
           j == heap.future[f].cell
           run == {}
           ds == Follow(cells, k, j)
           x == Forwarded(heap, f, p)
<1>1. /\ Sound(heap, cells, {}, {}, {}, {})
      /\ heap.promise[p] # Dead /\ heap.promise[p].state # None
      /\ PromiseState(heap, p) = Pending /\ heap.future[f] # Dead
  BY DEF SoundNow, Forward, Usable
<1>2. Available(State(heap, f)) \/ heap.future[f].promise # None
  BY DEF Forward, Usable
<1>3. heap' = ForwardTo(heap, f, p) /\ cells' = ds /\ j \notin WaitingFor(heap, cells, k)
  BY DEF Forward
<1>4. p \in Places /\ p \notin Conts /\ run = Conts \intersect {p}  BY NameFacts
<1>5. heap' = x  BY <1>3, <1>4 DEF Forwarded
<1>6. k = heap.promise[p].sets /\ j = heap.future[f].cell /\ ds = Follow(cells, k, j)
      /\ x = Forwarded(heap, f, p)
  OBVIOUS
<1>7. Sound(heap, cells, run, {}, {}, {})  BY <1>1
<1> HIDE DEF k, j, ds, x, run
<1>8. Sound(x, ds, {}, {}, {}, {})
  BY ONLY <1>1, <1>2, <1>3, <1>4, <1>6, <1>7, f \in Futures, ForwardSound
<1> QED BY <1>3, <1>5, <1>8 DEF SoundNow

-----------------------------------------------------------------------------
(* A task *)

(* x is h after the task that runs took its argument.                      *)
Taken(h, x) ==
    /\ x.promise = h.promise /\ x.cont = h.cont
    /\ \A f \in Futures : h.future[f] # Dead => x.future[f] = h.future[f]

LEMMA TakenSound ==
    ASSUME NEW h, NEW cs, NEW run, NEW s, NEW hand, hand = {s}, NEW c \in Conts,
           Sound(h, cs, run, {}, {}, hand), h.cont[c] # Dead,
           s = h.cont[c].state, s \in Outcomes, s = OutcomeIn(cs, h.cont[c].awaits),
           h.cont[c].awaits \in DOMAIN cs, ~(Failed(s) /\ ~h.cont[c].wrapped),
           NEW x \in Takes(h, c)
    PROVE  Sound(x, cs, run, {}, {}, {}) /\ Taken(h, x)
<1>0. /\ Sound(h, cs, run, {}, {}, hand) /\ h \in Heaps /\ s \in States
      /\ \A e \in hand \ {} : e = s
  BY StateFacts DEF Sound
<1>1. CASE x = h /\ ~Failed(s)
  <2>1. Sound(h, cs, run, {}, {}, {})  BY <1>0, <1>1, HandSound
  <2> QED BY <1>1, <2>1 DEF Taken
<1>2. CASE x = Report(h, s)
  <2>1. Sound(x, cs, run, {}, {}, hand) /\ (Failed(s) => s \in x.seen)
    BY <1>0, <1>2, ReportSound
  <2>2. Sound(x, cs, run, {}, {}, {})  BY <1>0, <2>1, HandSound
  <2>3. x.promise = h.promise /\ x.future = h.future /\ x.cont = h.cont
    BY <1>0, <1>2, ReportFields
  <2> QED BY <2>2, <2>3 DEF Taken
<1> DEFINE k == h.cont[c].awaits
<1>3. ASSUME NEW f \in Free(h.future), x = WithFuture(h, f, NewFuture(None, s, k))
      PROVE  Sound(x, cs, run, {}, {}, {}) /\ Taken(h, x)
  <2>1. f \in Futures /\ h.future[f] = Dead  BY <1>0 DEF Free, Heaps
  <2> DEFINE t == NewFuture(None, s, k)
  <2>2. x = WithFuture(h, f, t) /\ t = NewFuture(None, OutcomeIn(cs, k), k)
        /\ OutcomeIn(cs, k) \in Outcomes /\ k \in DOMAIN cs
    BY <1>3
  <2>7. OutcomeIn(cs, k) = s  BY <1>3
  <2>8. Sound(h, cs, run, {}, {}, hand)  BY <1>0
  <2> HIDE DEF t, k
  <2>3. /\ Sound(x, cs, run, {}, {}, hand \ {OutcomeIn(cs, k)})
        /\ x.promise = h.promise /\ x.cont = h.cont
        /\ \A g \in Futures : g # f => x.future[g] = h.future[g]
    <3>1. Sound(x, cs, run, {}, {}, hand \ {OutcomeIn(cs, k)})
      BY ONLY <2>8, <2>1, <2>2, ReadyFutureSound
    <3>2. h \in Heaps /\ CellsSound(cs)  BY <2>8 DEF Sound
    <3>3. k \in Numbers /\ OutcomeIn(cs, k) \in States
      BY <2>2, <3>2, RootFacts, StateFacts
    <3>4. None \in Places \union {None}  OBVIOUS
    <3>5. t \in FutureObjects  BY ONLY <2>2, <3>3, <3>4, NewFutureFields
    <3> QED BY <2>1, <2>2, <3>1, <3>2, <3>5, WithFutureHeap
  <2>4. hand \ {OutcomeIn(cs, k)} = {}  BY <2>7
  <2>5. Sound(x, cs, run, {}, {}, {})  BY <2>3, <2>4
  <2>6. Taken(h, x)  BY ONLY <2>1, <2>3 DEF Taken
  <2> QED BY <2>5, <2>6
<1>4. \/ x = h /\ ~Failed(s)
      \/ x = Report(h, s)
      \/ \E f \in Free(h.future) : x = WithFuture(h, f, NewFuture(None, s, k))
  BY DEF Takes, WithFuture, NewFuture
<1> QED BY <1>1, <1>2, <1>3, <1>4

LEMMA SettleSound ==
    ASSUME NEW h, NEW cs, NEW run, NEW hand, NEW c \in Conts, run = {c},
           Sound(h, cs, run, {}, {}, hand),
           h.promise[c] # Dead, h.promise[c].state # None, PromiseState(h, c) = Pending,
           NEW k, k = h.promise[c].sets, NEW s \in Outcomes, hand \subseteq {s},
           NEW ds, ds = Resolve(cs, k, s), NEW x, x = Settle(h, c, s)
    PROVE  Sound(x, ds, {}, {}, {}, {})
<1> DEFINE a == Set(h, c, s)
<1>1. c \in Places /\ run = Conts \intersect {c} /\ (c \in Conts => c \in run)
  BY NameFacts
<1>2. x = Ended(a, c)  BY DEF Settle, Ends, Ended, WithCont
<1>3. a = Set(h, c, s) /\ hand \ {s} = {}  OBVIOUS
<1> HIDE DEF a
<1>4. Sound(a, ds, run, {}, {}, hand \ {s}) /\ SetDone(h, a, ds, run, c, k, s)
  <2>1. ds = Resolve(cs, k, s) /\ k = h.promise[c].sets
        /\ h.promise[c] # Dead /\ h.promise[c].state # None /\ PromiseState(h, c) = Pending
    OBVIOUS
  <2>2. Sound(h, cs, run, {}, {}, hand)  OBVIOUS
  <2>3. c \in Places /\ (c \in Conts => c \in run) /\ a = Set(h, c, s)
    BY ONLY <1>1, <1>3
  <2> QED BY ONLY <2>1, <2>2, <2>3, s \in Outcomes, SetSound
<1>5. Sound(a, ds, run, {}, {}, {})  BY <1>3, <1>4
<1>6. a.promise[c] # Dead /\ a.promise[c].task = None /\ k = a.promise[c].sets /\ ds[k].outcome # Pending
  BY <1>4, StateFacts DEF SetDone
<1>7. Sound(x, ds, {}, {}, {}, {}) /\ Unowned(x, k)
  BY ONLY <1>1, <1>2, <1>5, <1>6, EndsAlone
<1> QED BY <1>7

LEMMA RunStep ==
    ASSUME SoundNow, Run
    PROVE  SoundNow'
<1> DEFINE c == Head(heap.tasks)
           h == WithTasks(heap, Tail(heap.tasks))
           k == h.promise[c].sets
           s == h.cont[c].state
           run == {c}
           hand == {s}
<1>1. Sound(heap, cells, {}, {}, {}, {}) /\ heap.tasks # <<>>  BY DEF SoundNow, Run
<1>2. /\ c \in Conts /\ heap.cont[c] # Dead /\ heap.promise[c] # Dead
      /\ heap.cont[c].state \in Outcomes /\ heap.cont[c].awaits \in DOMAIN cells
      /\ heap.cont[c].state = OutcomeIn(cells, heap.cont[c].awaits)
      /\ heap.promise[c].state # None /\ PromiseState(heap, c) = Pending
      /\ Sound(h, cells, {c}, {}, {}, {heap.cont[c].state})
      /\ h.promise = heap.promise /\ h.future = heap.future /\ h.cont = heap.cont
      /\ h.seen = heap.seen
  <2> HIDE DEF c, h
  <2>1. c = Head(heap.tasks) /\ h = WithTasks(heap, Tail(heap.tasks))  BY DEF c, h
  <2>2. Runs(heap, cells, c) /\ SameObjects(heap, h) /\ Sound(h, cells, {c}, {}, {}, {heap.cont[c].state})
    BY ONLY <1>1, <2>1, PopSound
  <2> QED BY ONLY <2>2 DEF Runs, SameObjects
<1>3. \/ /\ heap' = Settle(h, c, s) /\ cells' = Resolve(cells, k, s)
      \/ /\ ~(Failed(s) /\ ~h.cont[c].wrapped)
         /\ \E x \in Takes(h, c), out \in {Result(k), Error(k)} :
               heap' = Settle(x, c, out) /\ cells' = Resolve(cells, k, out)
      \/ /\ ~(Failed(s) /\ ~h.cont[c].wrapped)
         /\ \E x \in Takes(h, c), f \in Live(h.future) :
               /\ Usable(f) /\ h.future[f].cell \notin WaitingFor(h, cells, k)
               /\ heap' = WithCont(ForwardTo(x, f, c), c, Dead)
               /\ cells' = Follow(cells, k, h.future[f].cell)
  <2>1. h = [heap EXCEPT !.tasks = Tail(@)]  BY DEF WithTasks
  <2> HIDE DEF h
  <2> QED BY <2>1 DEF Run, WithCont
<1>4. k = h.promise[c].sets /\ s = h.cont[c].state /\ run = {c} /\ hand = {s}  OBVIOUS
<1> HIDE DEF c, h, k, s, run, hand
<1>5. /\ Sound(h, cells, run, {}, {}, hand) /\ s \in Outcomes /\ h.cont[c] # Dead /\ h.promise[c] # Dead
      /\ h.promise[c].state # None
  BY <1>2, <1>4
<1>6. PromiseState(h, c) = Pending  BY ONLY <1>2 DEF PromiseState
<1>7. k \in Numbers
  <2>1. h.promise[c] \in PromiseObjects  BY <1>2, <1>5, NameFacts, SoundObjects
  <2> QED BY <1>4, <2>1 DEF PromiseObjects
<1>8. CASE heap' = Settle(h, c, s) /\ cells' = Resolve(cells, k, s)
  <2>1. hand \subseteq {s}  BY <1>4
  <2>2. Sound(heap', cells', {}, {}, {}, {})
    BY ONLY <1>2, <1>4, <1>5, <1>6, <1>8, <2>1, SettleSound
  <2> QED BY <2>2 DEF SoundNow
<1>9. ASSUME ~(Failed(s) /\ ~h.cont[c].wrapped), NEW x \in Takes(h, c)
      PROVE  Sound(x, cells, run, {}, {}, {}) /\ Taken(h, x)
  <2>1. /\ hand = {s} /\ s = h.cont[c].state /\ s = OutcomeIn(cells, h.cont[c].awaits)
        /\ h.cont[c].awaits \in DOMAIN cells /\ c \in Conts
    BY <1>2, <1>4
  <2> QED BY ONLY <1>5, <1>9, <2>1, TakenSound
<1>10. ASSUME ~(Failed(s) /\ ~h.cont[c].wrapped), NEW x \in Takes(h, c),
              NEW out \in {Result(k), Error(k)},
              heap' = Settle(x, c, out), cells' = Resolve(cells, k, out)
       PROVE  SoundNow'
  <2>1. Sound(x, cells, run, {}, {}, {}) /\ Taken(h, x)  BY <1>9, <1>10
  <2>2. out \in Outcomes  BY <1>7, <1>10, StateFacts
  <2>3. x.promise[c] # Dead /\ x.promise[c].state # None /\ k = x.promise[c].sets
    BY <1>4, <1>5, <2>1 DEF Taken
  <2>4. PromiseState(x, c) = Pending  BY ONLY <1>6, <2>1 DEF PromiseState, Taken
  <2> DEFINE none == {}
  <2>5. Sound(x, cells, run, {}, {}, none) /\ none \subseteq {out} /\ run = {c} /\ c \in Conts
    BY <1>2, <1>4, <2>1
  <2> HIDE DEF none
  <2>6. heap' = Settle(x, c, out) /\ cells' = Resolve(cells, k, out)  BY <1>10
  <2>7. Sound(heap', cells', {}, {}, {}, {})
    BY ONLY <2>2, <2>3, <2>4, <2>5, <2>6, SettleSound
  <2> QED BY <2>7 DEF SoundNow
<1>11. ASSUME ~(Failed(s) /\ ~h.cont[c].wrapped), NEW x \in Takes(h, c), NEW f \in Live(h.future),
              Usable(f), h.future[f].cell \notin WaitingFor(h, cells, k),
              heap' = WithCont(ForwardTo(x, f, c), c, Dead),
              cells' = Follow(cells, k, h.future[f].cell)
       PROVE  SoundNow'
  <2> DEFINE j == h.future[f].cell
  <2>1. Sound(x, cells, run, {}, {}, {}) /\ Taken(h, x)  BY <1>9, <1>11
  <2>2. f \in Futures /\ h.future[f] # Dead
    <3>1. h \in Heaps  BY <1>5 DEF Sound
    <3> QED BY <3>1, <1>11 DEF Live, Heaps
  <2>3. x.promise[c] # Dead /\ x.promise[c].state # None /\ k = x.promise[c].sets
    BY <1>4, <1>5, <2>1 DEF Taken
  <2>4. PromiseState(x, c) = Pending  BY ONLY <1>6, <2>1 DEF PromiseState, Taken
  <2>5. x.future[f] # Dead /\ j = x.future[f].cell /\ x.future[f] = heap.future[f]
    BY <1>2, <2>1, <2>2 DEF Taken
  <2>6. State(x, f) = State(heap, f)
    BY ONLY <1>2, <2>1, <2>5 DEF Taken, State, PromiseState
  <2>7. Available(State(x, f)) \/ x.future[f].promise # None
    BY ONLY <1>11, <2>5, <2>6 DEF Usable
  <2>8. WaitingFor(x, cells, k) = WaitingFor(h, cells, k)
    <3>1. x.promise = h.promise /\ x.cont = h.cont  BY <2>1 DEF Taken
    <3>2. \A so : WaitsToo(x, cells, so) <=> WaitsToo(h, cells, so)
      BY ONLY <3>1 DEF WaitsToo
    <3> QED BY ONLY <3>2 DEF WaitingFor
  <2>9. j \notin WaitingFor(x, cells, k) /\ cells' = Follow(cells, k, j)
    BY <1>11, <2>8
  <2>10. c \in Places /\ run = Conts \intersect {c} /\ heap' = Forwarded(x, f, c)
    BY <1>2, <1>4, <1>11, NameFacts DEF Forwarded
  <2> HIDE DEF j
  <2>11. Sound(heap', cells', {}, {}, {}, {})
    BY ONLY <2>1, <2>2, <2>3, <2>4, <2>5, <2>7, <2>9, <2>10, ForwardSound
  <2> QED BY <2>11 DEF SoundNow
<1> QED BY <1>3, <1>8, <1>10, <1>11

-----------------------------------------------------------------------------
LEMMA InitSound == FutureInit => SoundNow
<1> SUFFICES ASSUME FutureInit PROVE SoundNow  OBVIOUS
<1>1. /\ heap \in Heaps /\ cells = <<>> /\ heap.tasks = <<>>
      /\ \A p \in Places : heap.promise[p] = Dead
      /\ \A f \in Futures : heap.future[f] = Dead
      /\ \A c \in Conts : heap.cont[c] = Dead
  BY DEF FutureInit, Heaps
<1>2. CellsSound(cells)  BY <1>1, SlotsAssumption DEF CellsSound
<1>3. Distinct(heap) /\ Promised(heap, cells, {}) /\ Expected(heap, cells, {}) /\ Awaited(heap, cells, {}, {})
  BY <1>1, NameFacts DEF Distinct, Promised, Expected, Awaited
<1>4. Tasked(heap, {}, {})
  <2>1. \A c \in Conts : ~Queued(heap, c, {}, {})  BY <1>1 DEF Queued
  <2>2. \A c \in Conts : Count(heap.tasks, {c}) = 0  BY <1>1, CountEmpty
  <2> QED BY <2>1, <2>2 DEF Tasked, Indicator
<1>5. ErrorsSound(heap, cells, {}, {})  BY <1>1 DEF ErrorsSound
<1> QED BY <1>1, <1>2, <1>3, <1>4, <1>5 DEF SoundNow, Sound

LEMMA SoundStep == SoundNow /\ [FutureNext]_futureVars => SoundNow'
<1>1. ASSUME SoundNow, FutureNext PROVE SoundNow'
  BY ONLY <1>1, MakePromiseStep, MakeReadyStep, RunStep, AskFutureStep, SetPromiseStep, EndPromiseStep,
          RelocatePromiseStep, EndFutureStep, RelocateFutureStep, ConsumeStep, ThenStep, ForwardStep
     DEF FutureNext
<1>2. ASSUME SoundNow, UNCHANGED futureVars PROVE SoundNow'
  BY ONLY <1>2 DEF futureVars, SoundNow
<1> QED BY <1>1, <1>2

-----------------------------------------------------------------------------
(* What the run checks follows. *)

LEMMA LiveFacts ==
    ASSUME SoundNow
    PROVE  /\ \A p : p \in Live(heap.promise) <=> p \in Places /\ heap.promise[p] # Dead
           /\ \A f : f \in Live(heap.future) <=> f \in Futures /\ heap.future[f] # Dead
           /\ \A c : c \in Live(heap.cont) <=> c \in Conts /\ heap.cont[c] # Dead
BY DEF SoundNow, Sound, Heaps, Live

LEMMA LinkedHolds == ASSUME SoundNow PROVE Linked
<1>1. Sound(heap, cells, {}, {}, {}, {})  BY DEF SoundNow
<1>2. ASSUME NEW f \in Futures, heap.future[f] # Dead, heap.future[f].promise # None
      PROVE  heap.promise[heap.future[f].promise] # Dead
             /\ heap.promise[heap.future[f].promise].future = f
  BY <1>1, <1>2, FutureState
<1>3. ASSUME NEW p \in Places, heap.promise[p] # Dead, heap.promise[p].future # None
      PROVE  heap.future[heap.promise[p].future] # Dead
             /\ heap.future[heap.promise[p].future].promise = p
  <2>1. PromiseSound(heap, cells, p, {})  BY <1>1, <1>3, SoundObjects
  <2> QED BY ONLY <1>3, <2>1 DEF PromiseSound
<1> QED BY <1>2, <1>3, LiveFacts DEF Linked

LEMMA FuturesTellHolds == ASSUME SoundNow PROVE FuturesTell
<1>1. Sound(heap, cells, {}, {}, {}, {})  BY DEF SoundNow
<1>2. ASSUME NEW f \in Futures, heap.future[f] # Dead, NEW k, k = Root(cells, heap.future[f].cell)
      PROVE  /\ State(heap, f) = cells[k].outcome
             /\ cells[k].outcome = Pending => (heap.future[f].promise = None <=> cells[k].broken)
  <2>1. /\ State(heap, f) = cells[k].outcome
        /\ heap.future[f].promise = None => State(heap, f) = heap.future[f].own
        /\ heap.future[f].promise # None => heap.future[f].promise \in Places
    BY SMTT(200), <1>1, <1>2, FutureState DEF OutcomeIn
  <2>2. FutureSound(heap, cells, f, {})  BY <1>1, <1>2, SoundObjects
  <2>3. CASE heap.future[f].promise = None
    BY <1>2, <2>1, <2>2, <2>3 DEF FutureSound, OutcomeIn
  <2>4. CASE heap.future[f].promise # None
    <3> DEFINE p == heap.future[f].promise
    <3>1. p \in Places /\ heap.promise[p] # Dead /\ heap.promise[p].cell = heap.future[f].cell
      BY <2>1, <2>2, <2>4 DEF FutureSound
    <3>2. PromiseSound(heap, cells, p, {})  BY <1>1, <3>1, SoundObjects
    <3>3. ~cells[k].broken  BY <1>2, <3>1, <3>2 DEF PromiseSound
    <3> QED BY <2>1, <2>4, <3>3
  <2> QED BY <2>3, <2>4
<1> QED BY <1>2, LiveFacts DEF FuturesTell

LEMMA ContinuationsTellHolds == ASSUME SoundNow PROVE ContinuationsTell
<1>1. Sound(heap, cells, {}, {}, {}, {}) /\ Distinct(heap) /\ Tasked(heap, {}, {})
  BY DEF SoundNow, Sound
<1>2. ASSUME NEW c \in Conts, heap.cont[c] # Dead,
             NEW owners, owners = {p \in Live(heap.promise) : heap.promise[p].task = c},
             NEW queued, queued = {i \in DOMAIN heap.tasks : heap.tasks[i] = c},
             NEW s, s = Outcome(heap.cont[c].awaits)
      PROVE  /\ heap.cont[c].state = s
             /\ Cardinality(owners) = (IF s = Pending THEN 1 ELSE 0)
             /\ Cardinality(queued) = (IF s = Pending THEN 0 ELSE 1)
             /\ \A p \in owners : heap.promise[p].state = c
  <2>1. ContSound(heap, cells, c, {}, {})  BY <1>1, <1>2, SoundObjects
  <2>2. /\ heap.cont[c].state = s
        /\ s = Pending => \E p \in Places : heap.promise[p] # Dead /\ heap.promise[p].task = c
    BY ONLY <1>2, <2>1 DEF ContSound, Outcome, OutcomeIn
  <2>3. \A p : p \in owners <=> p \in Places /\ heap.promise[p] # Dead /\ heap.promise[p].task = c
    BY <1>2, LiveFacts
  <2>4. ASSUME NEW p \in owners
        PROVE  /\ p \in Places /\ heap.promise[p] # Dead /\ heap.promise[p].state = c /\ s = Pending
               /\ heap.promise[p].sets = Root(cells, heap.cont[c].awaits)
    <3>1. p \in Places /\ heap.promise[p] # Dead /\ heap.promise[p].task = c
      BY <2>3, <2>4
    <3>2. PromiseSound(heap, cells, p, {})  BY <1>1, <3>1, SoundObjects
    <3>3. c # None  BY <1>2, NameFacts
    <3>4. heap.promise[p].state \in Conts /\ heap.promise[p].state = c
      BY <3>1, <3>2, <3>3 DEF PromiseSound
    <3>5. heap.cont[c].state = Pending /\ Root(cells, heap.cont[c].awaits) = heap.promise[p].sets
      BY ONLY <3>2, <3>4 DEF PromiseSound
    <3> QED BY <2>2, <3>1, <3>4, <3>5
  <2>5. Cardinality(owners) = (IF s = Pending THEN 1 ELSE 0)
    <3>1. CASE s = Pending
      <4>1. PICK p \in owners : TRUE  BY <2>2, <2>3, <3>1
      <4>2. \A q \in owners : q = p  BY <1>1, <2>4, <4>1 DEF Distinct
      <4>3. owners = {p}  BY <4>1, <4>2
      <4> QED BY <3>1, <4>3, FS_Singleton
    <3>2. CASE s # Pending
      <4>1. owners = {}  BY <2>4, <3>2
      <4> QED BY <3>2, <4>1, FS_EmptySet
    <3> QED BY <3>1, <3>2
  <2>6. Cardinality(queued) = (IF s = Pending THEN 0 ELSE 1)
    <3>1. Count(heap.tasks, {c}) = Indicator(Queued(heap, c, {}, {}))
      BY <1>1, <1>2 DEF Tasked
    <3>2. Queued(heap, c, {}, {}) <=> s # Pending  BY <1>2, <2>2 DEF Queued
    <3>3. Count(heap.tasks, {c}) = Cardinality(queued)
      <4>1. DOMAIN heap.tasks = 1 .. Len(heap.tasks)  BY <1>1 DEF Sound, Heaps
      <4>2. queued = Hits(heap.tasks, {c})  BY ONLY <1>2, <4>1 DEF Hits
      <4> QED BY <4>2 DEF Count
    <3> QED BY ONLY <3>1, <3>2, <3>3 DEF Indicator
  <2> QED BY <2>2, <2>4, <2>5, <2>6
<1> SUFFICES ASSUME NEW c \in Live(heap.cont)
             PROVE  LET owners == {p \in Live(heap.promise) : heap.promise[p].task = c}
                        queued == {i \in DOMAIN heap.tasks : heap.tasks[i] = c}
                        s == Outcome(heap.cont[c].awaits)
                    IN  /\ heap.cont[c].state = s
                        /\ Cardinality(owners) = (IF s = Pending THEN 1 ELSE 0)
                        /\ Cardinality(queued) = (IF s = Pending THEN 0 ELSE 1)
                        /\ \A p \in owners : heap.promise[p].state = c
  BY DEF ContinuationsTell
<1> DEFINE owners == {p \in Live(heap.promise) : heap.promise[p].task = c}
           queued == {i \in DOMAIN heap.tasks : heap.tasks[i] = c}
           s == Outcome(heap.cont[c].awaits)
<1>3. /\ owners = {p \in Live(heap.promise) : heap.promise[p].task = c}
      /\ queued = {i \in DOMAIN heap.tasks : heap.tasks[i] = c}
      /\ s = Outcome(heap.cont[c].awaits) /\ c \in Conts /\ heap.cont[c] # Dead
  BY LiveFacts
<1> HIDE DEF owners, queued, s
<1>4. /\ heap.cont[c].state = s
      /\ Cardinality(owners) = (IF s = Pending THEN 1 ELSE 0)
      /\ Cardinality(queued) = (IF s = Pending THEN 0 ELSE 1)
      /\ \A p \in owners : heap.promise[p].state = c
  BY ONLY <1>2, <1>3
<1> QED BY <1>4 DEF owners, queued, s

LEMMA NoErrorIsLostHolds == ASSUME SoundNow PROVE NoErrorIsLost
<1>1. ErrorsSound(heap, cells, {}, {})  BY DEF SoundNow, Sound
<1>2. \A s : HeldIn(heap, {}, s) => Held(s)  BY LiveFacts DEF HeldIn, Held
<1> QED BY <1>1, <1>2 DEF ErrorsSound, NoErrorIsLost

(* Through every sequence of uses of promises and futures, of any number   *)
(* of them: each future and each continuation gets the outcome of the      *)
(* promise it stands for, once, no pointer of one leads to an object that  *)
(* is gone, and no exception disappears with the object that held it       *)
(* (future.hh).                                                            *)
THEOREM FuturesExactHolds == FutureSpec => []FuturesExact
<1>1. FutureInit => SoundNow  BY InitSound
<1>2. SoundNow /\ [FutureNext]_futureVars => SoundNow'  BY SoundStep
<1>3. SoundNow => FuturesExact
  BY LinkedHolds, FuturesTellHolds, ContinuationsTellHolds, NoErrorIsLostHolds DEF FuturesExact, CellsAgree
<1> QED BY <1>1, <1>2, <1>3, PTL DEF FutureSpec
=============================================================================
