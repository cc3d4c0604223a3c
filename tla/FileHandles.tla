---------------------------- MODULE FileHandles ----------------------------
(***************************************************************************)
(* posix_file_impl and posix_file_handle_impl (future_all12.cc): files and *)
(* the handles that carry a descriptor to other reactors.  They share the  *)
(* descriptor through a count that is made with the first handle; the last *)
(* of them closes it.  The count is atomic, so that it does not matter on  *)
(* which reactor a file or a handle is.                                    *)
(*                                                                         *)
(* A descriptor is named by its open(): a number the kernel gives out once *)
(* more is a new one here, and a use of the old one is a use of a closed   *)
(* descriptor.                                                             *)
(***************************************************************************)
EXTENDS Naturals, FiniteSets

CONSTANTS
    Objects,    \* the files and handles there may be at once
    MaxOpens,   \* bound: how many descriptors are opened
    Accepted    \* those for which the ioctl in make_file_impl() succeeds

Descriptors == 1 .. MaxOpens
NoDescriptor == 0
NoObject == "none"

ASSUME FilesAssumption ==
    /\ IsFiniteSet(Objects) /\ Objects # {} /\ NoObject \notin Objects
    /\ MaxOpens \in Nat \ {0}

VARIABLES
    object,     \* what each of Objects is
    count,      \* per descriptor, *_refcount; 0 while there is none
    open,       \* the descriptors open in the kernel
    opened      \* bound: the opens so far are 1 .. opened

fileVars == <<object, count, open, opened>>

Nothing == [kind |-> "nothing", fd |-> NoDescriptor, counted |-> FALSE]
File(fd, counted) == [kind |-> "file", fd |-> fd, counted |-> counted]
Handle(fd) == [kind |-> "handle", fd |-> fd, counted |-> TRUE]

Awaited == [kind |-> "awaited", fd |-> NoDescriptor, counted |-> FALSE]

IsFile(o) == object[o].kind = "file"
IsHandle(o) == object[o].kind = "handle"
Free(o) == object[o].kind = "nothing"

(* Where the next file or handle goes: objects are alike.                  *)
NextFree ==
    IF \E o \in Objects : Free(o) THEN CHOOSE o \in Objects : Free(o) ELSE NoObject

(* One file is open from the start.                                        *)
FilesInit ==
    /\ object = [p \in Objects |-> IF p = CHOOSE o \in Objects : TRUE
                                   THEN File(1, FALSE) ELSE Nothing]
    /\ count = [fd \in Descriptors |-> 0]
    /\ open = {1} /\ opened = 1

-----------------------------------------------------------------------------
(* posix_file_impl::dup(), to a free p: the first one makes the count.     *)
Dup(o, p) ==
    /\ IsFile(o) /\ p \in Objects
    /\ object' = [object EXCEPT ![o].counted = TRUE, ![p] = Handle(object[o].fd)]
    /\ count' = [count EXCEPT ![object[o].fd] = IF object[o].counted THEN @ + 1 ELSE 2]
    /\ UNCHANGED <<open, opened>>

(* posix_file_handle_impl::clone().                                        *)
Clone(o, p) ==
    /\ IsHandle(o) /\ p \in Objects
    /\ object' = [object EXCEPT ![p] = object[o]]
    /\ count' = [count EXCEPT ![object[o].fd] = @ + 1]
    /\ UNCHANGED <<open, opened>>

(* posix_file_handle_impl::to_file(), which moves the handle's share.      *)
ToFile(o) ==
    /\ IsHandle(o)
    /\ object' = [object EXCEPT ![o] = File(@.fd, TRUE)]
    /\ UNCHANGED <<count, open, opened>>

(* A drop that finds the count at one before it takes its own share off.   *)
IsLast_mut(o) == object[o].counted => count[object[o].fd] <= 2

(* The fetch_add(-1) of close() and of the destructors: is this the last?  *)
IsLast(o) == object[o].counted => count[object[o].fd] = 1

(* o gives up its share.                                                   *)
GiveUp(o) ==
    /\ object' = [object EXCEPT ![o] = Nothing]
    /\ count' = IF object[o].counted
                THEN [count EXCEPT ![object[o].fd] = @ - 1] ELSE count

(* ~posix_file_handle_impl(), and ~posix_file_impl() of a file that was    *)
(* not closed: the last one calls close() itself.                          *)
Destroy(o) ==
    /\ IsFile(o) \/ IsHandle(o)
    /\ GiveUp(o)
    /\ open' = IF IsLast(o) THEN open \ {object[o].fd} ELSE open
    /\ UNCHANGED opened

-----------------------------------------------------------------------------
(* The system calls, as the syscall thread makes them.                     *)
CallOpen(fd) ==
    /\ open' \in {open, open \union {fd}}
    /\ UNCHANGED <<object, count, opened>>

CallClose(fd) ==
    /\ open' = open \ {fd}
    /\ UNCHANGED <<object, count, opened>>

-----------------------------------------------------------------------------
(* A fiber waits for a file.                                               *)
Await ==
    /\ NextFree \in Objects /\ opened < MaxOpens
    /\ object' = [object EXCEPT ![NextFree] = Awaited]
    /\ opened' = opened + 1
    /\ UNCHANGED <<count, open>>

(* What it gets: a file, or an exception when open() failed or when the    *)
(* ioctl of make_file_impl() does, in file::file(), which leaves the       *)
(* descriptor to nobody.                                                   *)
NewFile(o, fd) ==
    /\ object' = [object EXCEPT ![o] =
           IF fd \in open \cap Accepted THEN File(fd, FALSE) ELSE Nothing]
    /\ UNCHANGED <<count, open, opened>>

Holders(fd) == {o \in Objects : (IsFile(o) \/ IsHandle(o)) /\ object[o].fd = fd}
=============================================================================
