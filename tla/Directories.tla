----------------------------- MODULE Directories -----------------------------
(***************************************************************************)
(* list_directory(): a fiber reads a directory with getdents(), in the     *)
(* syscall thread, and produces its entries on a stream, one at a time;    *)
(* the caller holds the subscription to the stream, its next() is called   *)
(* for each entry, and done() tells it of the end.                         *)
(*                                                                         *)
(* The stream lives as long as the fiber.  Entries are numbers; 0 is "."   *)
(* or "..".                                                                *)
(*                                                                         *)
(* recursive_touch_directory() makes the directories of a path that are    *)
(* not there, and is to flush them on its way back;                        *)
(* check_direct_io_support() makes a file in a directory, and is to remove *)
(* it.  Both open what they made as a file, which make_file_impl() refuses *)
(* for all but block devices (future_all12.cc:7277): so neither gets that  *)
(* far.  Fibers run them at the same time, and each system call is one     *)
(* step of the syscall thread.                                             *)
(***************************************************************************)
EXTENDS Naturals, Sequences, FiniteSets
LOCAL INSTANCE SequencesExt

CONSTANTS
    Listings,        \* the sequences of entries that are listed
    TouchPaths,      \* the paths that are touched, as sequences of names
    Touchers         \* the fibers that touch and check directories

VARIABLES
    directory,   \* the entries
    work,        \* struct work, and the stream in it
    lister,      \* the fiber
    holder,      \* the subscription, and who holds it
    tree,        \* directories and test files made, and who left a descriptor open
    toucher      \* the calls of recursive_touch_directory(), check_direct_io_support()

listVars == <<directory, work, lister, holder>>

ListInit ==
    /\ directory \in Listings
    /\ work = [alive |-> TRUE, buffer |-> <<>>, read |-> 0, eof |-> FALSE]
    /\ lister = [at |-> "loop", crashed |-> "no"]
    /\ holder = [subscribed |-> TRUE, dropped |-> FALSE, late |-> FALSE, asked |-> FALSE,
                 done |-> "no", given |-> <<>>, busy |-> 0]

(* The fiber ends, and the stream with it.  A promise of done() that has   *)
(* not been kept by then never is, and its caller is told nothing.         *)
Ends(done) ==
    /\ work' = [work EXCEPT !.alive = FALSE]
    /\ lister' = [lister EXCEPT !.at = "ended"]
    /\ holder' = [holder EXCEPT !.busy = 0, !.done = done]

(* The buffer holds no entry: the directory is read on *)
Fetch ==
    /\ lister.at = "loop" /\ ~work.eof /\ work.buffer = <<>>
    /\ lister' = [lister EXCEPT !.at = "syscall"]
    /\ UNCHANGED <<directory, work, holder>>

(* getdents() gives some entries, none at the end, or fails *)
GetDents_mut(n) ==
    /\ lister.at = "syscall" /\ n <= Len(directory) - work.read
    /\ n = 0 <=> work.read = Len(directory)
    /\ work' = [work EXCEPT !.buffer = SubSeq(directory, work.read + 1, work.read + n),
                            !.read = @ + n, !.eof = (work.read + n = Len(directory))]
    /\ lister' = [lister EXCEPT !.at = "loop"]
    /\ UNCHANGED <<directory, holder>>

GetDents(n) ==
    /\ lister.at = "syscall" /\ n <= Len(directory) - work.read
    /\ n = 0 <=> work.read = Len(directory)
    /\ work' = [work EXCEPT !.buffer = SubSeq(directory, work.read + 1, work.read + n),
                            !.read = @ + n, !.eof = (n = 0)]
    /\ lister' = [lister EXCEPT !.at = "loop"]
    /\ UNCHANGED <<directory, holder>>

GetDentsFails ==
    /\ lister.at = "syscall"
    /\ Ends("no")
    /\ UNCHANGED directory

SkipDots ==
    /\ lister.at = "loop" /\ work.buffer # <<>> /\ Head(work.buffer) = 0
    /\ work' = [work EXCEPT !.buffer = Tail(@)]
    /\ UNCHANGED <<directory, lister, holder>>

(* produce(): calls next() through the subscription, if it is there.  It   *)
(* answers at once, later, or fails.                                       *)
Produce ==
    /\ lister.at = "loop" /\ ~work.eof /\ work.buffer # <<>> /\ Head(work.buffer) # 0
    /\ IF ~holder.subscribed
       THEN lister' = [lister EXCEPT !.crashed = "next", !.at = "ended"] /\ UNCHANGED <<work, holder>>
       ELSE /\ work' = [work EXCEPT !.buffer = Tail(@)]
            /\ \E busy \in 0 .. 1 :
                  /\ holder' = [holder EXCEPT !.given = Append(@, Head(work.buffer)), !.busy = @ + busy]
                  /\ lister' = [lister EXCEPT !.at = IF busy = 1 THEN "next" ELSE "loop"]
    /\ UNCHANGED directory

NextAnswers ==
    /\ lister.at = "next" /\ lister.crashed = "no"
    /\ holder' = [holder EXCEPT !.busy = @ - 1]
    /\ lister' = [lister EXCEPT !.at = "loop"]
    /\ UNCHANGED <<directory, work>>

(* The failure goes to done(), and ends the loop *)
NextFails ==
    /\ lister.at = "next"
    /\ Ends("failed")
    /\ UNCHANGED directory

(* close(), by the continuation of the loop *)
CloseList ==
    /\ lister.at = "loop" /\ work.eof
    /\ Ends("value")
    /\ UNCHANGED directory

(* The caller asks for done(), which follows a pointer that the end of the *)
(* stream has cleared, or lets the subscription go.                        *)
AskDone ==
    /\ holder.subscribed /\ ~holder.asked /\ lister.crashed = "no"
    /\ holder' = [holder EXCEPT !.asked = TRUE]
    /\ lister' = IF work.alive THEN lister ELSE [lister EXCEPT !.crashed = "done"]
    /\ UNCHANGED <<directory, work>>

Unsubscribe ==
    /\ holder.subscribed /\ lister.crashed = "no"
    /\ holder' = [holder EXCEPT !.subscribed = FALSE, !.dropped = work.alive]
    /\ UNCHANGED <<directory, work, lister>>

ListNext ==
    \/ Fetch
    \/ \E n \in 0 .. 2 : GetDents(n)
    \/ GetDentsFails
    \/ SkipDots \/ Produce \/ NextAnswers \/ NextFails \/ CloseList
    \/ AskDone \/ Unsubscribe

ListDone == lister.at = "ended"

-----------------------------------------------------------------------------
(* recursive_touch_directory(), check_direct_io_support().  The path <<>>  *)
(* is the current directory of a relative path, the root of an absolute    *)
(* one, and is there.                                                      *)

touchVars == <<tree, toucher>>

PathsTo(path) == {SubSeq(path, 1, k) : k \in 1 .. Len(path)}

TouchInit ==
    /\ \E made \in SUBSET {Head(path) : path \in TouchPaths} :
          tree = [made |-> {<<name>> : name \in made}, tests |-> {}, left |-> {}]
    /\ \E kind \in [Touchers -> {"touch", "check"}], path \in [Touchers -> TouchPaths],
          absolute \in BOOLEAN :
          toucher = [t \in Touchers |->
                       [kind |-> kind[t], absolute |-> absolute, path |-> path[t],
                        at |-> "start", depth |-> 0, why |-> "no"]]

Steps(t, at) == toucher[t].at = at

Failed(t, why) == [toucher EXCEPT ![t].at = "failed", ![t].why = why]

Fails(t, why) == toucher' = Failed(t, why) /\ UNCHANGED tree

Reached(t) == SubSeq(toucher[t].path, 1, toucher[t].depth)

(* "/" is touched as well, "./" is not *)
First(t) == IF toucher[t].absolute THEN 0 ELSE 1

StartTouch(t) ==
    /\ Steps(t, "start") /\ toucher[t].kind = "touch"
    /\ toucher' = [toucher EXCEPT ![t].at = "mkdir", ![t].depth = First(t)]
    /\ UNCHANGED tree

(* touch_directory(base), where EEXIST is no error *)
TouchDirectory(t) ==
    /\ Steps(t, "mkdir")
    /\ \/ /\ tree' = [tree EXCEPT !.made = @ \union ({Reached(t)} \ {<<>>})]
          /\ toucher' = IF toucher[t].depth = Len(toucher[t].path)
                        THEN [toucher EXCEPT ![t].at = "sync"]
                        ELSE [toucher EXCEPT ![t].depth = @ + 1]
       \/ Fails(t, "mkdir")

(* What was opened is no file: make_file_impl() throws, and nobody has the *)
(* descriptor.                                                             *)
NoFile(t) == Failed(t, "no file")

(* sync_directory() of the deepest directory: either way the failure takes *)
(* the place of all the flushes that were to follow.                       *)
SyncDirectory(t) ==
    /\ Steps(t, "sync")
    /\ \/ toucher' = NoFile(t) /\ tree' = [tree EXCEPT !.left = @ \union {t}]
       \/ Fails(t, "open")

(* check_direct_io_support() of a directory: its type is asked for, and a  *)
(* test file is made and opened.  Where the file system has no direct I/O  *)
(* the open fails with EINVAL after it has made the file.  What            *)
(* make_file_impl() throws is no system_error: cleanup() is not called.    *)
TestType(t) ==
    /\ Steps(t, "start") /\ toucher[t].kind = "check"
    /\ IF toucher[t].path \in tree.made
       THEN toucher' = [toucher EXCEPT ![t].at = "test"] /\ UNCHANGED tree
       ELSE Fails(t, "absent")

TestOpen(t) ==
    /\ Steps(t, "test")
    /\ LET there == [tree EXCEPT !.tests = @ \union {toucher[t].path}]
       IN  \/ toucher' = NoFile(t) /\ tree' = [there EXCEPT !.left = @ \union {t}]
           \/ toucher' = Failed(t, "open") /\ tree' \in {tree, there}

TouchNext ==
    \E t \in Touchers :
        \/ StartTouch(t) \/ TouchDirectory(t) \/ SyncDirectory(t)
        \/ TestType(t) \/ TestOpen(t)

-----------------------------------------------------------------------------
(* Properties *)

Entries == SelectSeq(directory, LAMBDA e : e # 0)

(* list_directory() gives every entry once and in order, one at a time; a  *)
(* done() succeeds after all of them, unless next() or getdents() fails;   *)
(* of the latter it never tells.  It stops only if the subscription is let *)
(* go while the fiber runs, or done() is asked late.                       *)
ListExact ==
    /\ IsPrefix(holder.given, Entries)
    /\ holder.busy <= 1
    /\ holder.done = "value" => holder.given = Entries
    /\ lister.at = "ended" => (work.eof <=> holder.done = "value")
    /\ lister.crashed = "next" => holder.dropped
    /\ lister.crashed = "done" => ~work.alive

(* Every directory has all those above it, whoever touches which path and  *)
(* wherever it fails; a touch that came to its flush has made its path.  A *)
(* test file stays behind in a directory only by a check that failed after *)
(* it was made, and a descriptor by exactly those calls whose open did not *)
(* fail.                                                                   *)
TouchExact ==
    /\ \A path \in tree.made : PathsTo(path) \subseteq tree.made
    /\ \A t \in Touchers :
          /\ toucher[t].kind = "touch" /\ toucher[t].why \in {"open", "no file"} =>
                PathsTo(toucher[t].path) \subseteq tree.made
          /\ toucher[t].why = "mkdir" => PathsTo(Reached(t)) \ {Reached(t)} \subseteq tree.made
          /\ t \in tree.left <=> toucher[t].why = "no file"
    /\ \A path \in tree.tests :
          /\ path \in tree.made
          /\ \E t \in Touchers : /\ toucher[t].kind = "check" /\ toucher[t].path = path
                                /\ toucher[t].why \in {"open", "no file"}

=============================================================================
