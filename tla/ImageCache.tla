------------------------------ MODULE ImageCache ------------------------------
(***************************************************************************)
(* The cache of reader executables, src/native/wtop_worker_image_cache.h.  *)
(*                                                                         *)
(* A controller needs a descriptor of an executable image to spawn its     *)
(* reader from.  Sealed images are shared: the cache holds one descriptor  *)
(* and counts its users, and every controller duplicates it.  The lock is  *)
(* dropped while an image is built, so two controllers may build at once.  *)
(* `table' is the process's descriptor table, restricted to a few numbers. *)
(* Code of the embedding program may close a descriptor it does not own    *)
(* and get the same number for a file of its own; that is what the cache's *)
(* identity check is for.  One slot of the cache is modelled; the two      *)
(* share nothing.  An image is its (device, inode, size) identity.         *)
(***************************************************************************)
EXTENDS Integers, FiniteSets

CONSTANTS
    Controllers,    \* controller threads
    Fds,            \* descriptor numbers
    Sealed,         \* images that could be sealed (memfd)
    Plain,          \* images that could not (a file, never shared)
    None            \* -1, no descriptor; a free entry of the table

Images == Sealed \cup Plain

ASSUME ImageAssumption ==
    /\ IsFiniteSet(Controllers)
    /\ None \notin Fds \cup Images
    /\ Sealed \cap Plain = {}
    /\ "foreign" \notin Images \cup {None}

VARIABLES
    table,      \* descriptor -> image, "foreign", or None when free
    entry,      \* the cache slot: [fd, users, identity]
    ctl         \* controller -> [pc, file, shared]

vars == <<table, entry, ctl>>

NoEntry == [fd |-> None, users |-> 0, identity |-> None]

Free(f)    == table[f] = None
Open(f, i) == [table EXCEPT ![f] = i]

Move(c, pc, file, shared) ==
    ctl' = [ctl EXCEPT ![c] = [pc |-> pc, file |-> file, shared |-> shared]]

\* cached_immutable: the held descriptor still is the image it was.
Cached == entry.users > 0 /\ entry.fd # None /\ table[entry.fd] = entry.identity

Init ==
    /\ table = [f \in Fds |-> None]
    /\ entry = NoEntry
    /\ ctl = [c \in Controllers |-> [pc |-> "none", file |-> None, shared |-> FALSE]]

-----------------------------------------------------------------------------
Start(c) ==
    /\ ctl[c].pc = "none"
    /\ Move(c, "lookup", None, FALSE)
    /\ UNCHANGED <<table, entry>>

\* acquire_image, first critical section: duplicate the cached descriptor.
Hit(c) ==
    /\ ctl[c].pc = "lookup" /\ Cached
    /\ \E f \in Fds :
          /\ Free(f)
          /\ table' = Open(f, entry.identity)
          /\ entry' = [entry EXCEPT !.users = @ + 1]
          /\ Move(c, "spawn", f, TRUE)

\* Nothing cached, or fcntl(F_DUPFD) fails.
Miss(c) ==
    /\ ctl[c].pc = "lookup"
    /\ Move(c, "create", None, FALSE)
    /\ UNCHANGED <<table, entry>>

\* immutable_image: only a sealed image is offered to the cache.
AfterCreating(i) == IF i \in Sealed THEN "install" ELSE "spawn"

\* A new image is none that is open or that the slot remembers.
New(i) == i # entry.identity /\ \A f \in Fds : table[f] # i

\* create_image, outside the lock.
Create(c) ==
    /\ ctl[c].pc = "create"
    /\ \E f \in Fds, i \in Images :
          /\ Free(f) /\ New(i)
          /\ table' = Open(f, i)
          /\ Move(c, AfterCreating(i), f, FALSE)
    /\ UNCHANGED entry

CreateFails(c) ==
    /\ ctl[c].pc = "create"
    /\ Move(c, "release", None, FALSE)
    /\ UNCHANGED <<table, entry>>

\* Mutant: the slot is not examined again.
SlotEmptyAssumed == TRUE

SlotEmpty == entry.users = 0 /\ entry.fd = None

\* Second critical section: the slot is still empty, a second descriptor of
\* the new image becomes the cached one.
Install(c) ==
    /\ ctl[c].pc = "install" /\ SlotEmpty
    /\ \E f \in Fds :
          /\ Free(f)
          /\ table' = Open(f, table[ctl[c].file])
          /\ entry' = [fd |-> f, users |-> 1, identity |-> table[ctl[c].file]]
          /\ Move(c, "spawn", ctl[c].file, TRUE)

\* Mutant: the image built in vain stays open.
AdoptKeeping(c) ==
    /\ ctl[c].pc = "install" /\ ~SlotEmpty /\ Cached
    /\ \E f \in Fds :
          /\ Free(f)
          /\ table' = Open(f, entry.identity)
          /\ Move(c, "spawn", f, TRUE)
    /\ entry' = [entry EXCEPT !.users = @ + 1]

\* Another controller installed its image meanwhile: use that one and close
\* the image built in vain.
Adopt(c) ==
    /\ ctl[c].pc = "install" /\ ~SlotEmpty /\ Cached
    /\ \E f \in Fds :
          /\ Free(f)
          /\ table' = [Open(f, entry.identity) EXCEPT ![ctl[c].file] = None]
          /\ Move(c, "spawn", f, TRUE)
    /\ entry' = [entry EXCEPT !.users = @ + 1]

\* The slot holds a descriptor that is no longer its image, or fcntl fails:
\* the new image is used by this controller alone.
KeepPrivate(c) ==
    /\ ctl[c].pc = "install"
    /\ Move(c, "spawn", ctl[c].file, FALSE)
    /\ UNCHANGED <<table, entry>>

\* spawn_reader's end, successful or not: close_image on the own descriptor.
Spawned(c) ==
    /\ ctl[c].pc = "spawn"
    /\ table' = Open(ctl[c].file, None)
    /\ \E pc \in {"run", "release"} : Move(c, pc, None, ctl[c].shared)
    /\ UNCHANGED entry

\* The child has been reaped.
Reaped(c) ==
    /\ ctl[c].pc = "run"
    /\ Move(c, "release", None, ctl[c].shared)
    /\ UNCHANGED <<table, entry>>

\* Mutant: the descriptor is closed without looking what it is.
AfterLastUserBlindly == Open(entry.fd, None)

\* The last user closes the descriptor if it still is the image.
AfterLastUser == IF Cached THEN Open(entry.fd, None) ELSE table

\* release_image.
Release(c) ==
    /\ ctl[c].pc = "release"
    /\ IF ctl[c].shared /\ entry.users = 1
       THEN table' = AfterLastUser /\ entry' = NoEntry
       ELSE /\ UNCHANGED table
            /\ entry' = IF ctl[c].shared /\ entry.users > 0
                        THEN [entry EXCEPT !.users = @ - 1] ELSE entry
    /\ Move(c, "none", None, FALSE)

(* The embedding program.                                                   *)

\* It opens a file; or it closes the cached descriptor, open for as long as a
\* reader runs, and a file of its own gets the number.
ForeignOpens ==
    \E f \in Fds :
       /\ Free(f) \/ (Cached /\ f = entry.fd)
       /\ table' = Open(f, "foreign")
       /\ UNCHANGED <<entry, ctl>>

ForeignCloses ==
    \E f \in Fds :
       /\ table[f] = "foreign"
       /\ table' = Open(f, None)
       /\ UNCHANGED <<entry, ctl>>

ControllerStep(c) ==
    \/ Start(c) \/ Hit(c) \/ Miss(c) \/ Create(c) \/ CreateFails(c) \/ Install(c) \/ Adopt(c)
    \/ KeepPrivate(c) \/ Spawned(c) \/ Reaped(c) \/ Release(c)

Next == (\E c \in Controllers : ControllerStep(c)) \/ ForeignOpens \/ ForeignCloses

Spec == Init /\ [][Next]_vars

-----------------------------------------------------------------------------
(* Properties.                                                              *)

Shared == {c \in Controllers : ctl[c].shared}
Building == {c \in Controllers : ctl[c].pc \in {"install", "spawn"}}

\* Every variable has its type; only a sealed image is shared; a
\* controller owns a descriptor exactly while it builds or spawns.
TypeOK ==
    /\ table \in [Fds -> Images \cup {"foreign", None}]
    /\ entry \in [fd : Fds \cup {None}, users : 0..Cardinality(Controllers),
                  identity : Sealed \cup {None}]
    /\ ctl \in [Controllers ->
                  [pc : {"none", "lookup", "create", "install", "spawn", "run", "release"},
                   file : Fds \cup {None}, shared : BOOLEAN]]
    /\ \A c \in Controllers : ctl[c].file # None <=> c \in Building

\* The user count (acquire_image, release_image) is the number of controllers that will release the shared
\* image, and the slot is filled exactly while there are some: no interleaving
\* of two builds, failures and releases closes the image under a user or keeps
\* it after the last one.
UsersExact ==
    /\ entry.users = Cardinality(Shared)
    /\ entry.users > 0 <=> entry.fd # None

\* No descriptor leaks and none is owned twice: the image descriptors that are
\* open are the cached one and those of the controllers about to spawn, each
\* of them its own, and every controller about to spawn has an image.
DescriptorsExact ==
    /\ {f \in Fds : table[f] \in Images}
         = {ctl[c].file : c \in Building} \cup (IF Cached THEN {entry.fd} ELSE {})
    /\ \A c \in Building : Cached => ctl[c].file # entry.fd
    /\ \A c, d \in Building : ctl[c].file = ctl[d].file => c = d

\* A descriptor of the embedding program is never closed or replaced by the
\* cache, even if it took the number the cache believes to be its own.
ForeignUntouched ==
    [][\A f \in Fds : table[f] = "foreign" /\ table'[f] # "foreign" => ctl' = ctl]_vars

=============================================================================
