---------------------------- MODULE RemovableProbes ----------------------------
(***************************************************************************)
(* The capacity of removable drives on Windows (wtop_windows.c).  A query  *)
(* of such a drive may never return, so it runs in a thread of its own     *)
(* that writes into its probe's `working' record; the collector, which     *)
(* visits the drive letters in order, takes the record over once the       *)
(* thread has ended.  At most MaxProbes threads exist at a time.           *)
(*                                                                         *)
(* Ages are counted in collections since the thread finished.  A record is *)
(* due again after 5 s if it is incomplete, else after 30 s; which         *)
(* collection that is depends on how far apart they are.                   *)
(***************************************************************************)
EXTENDS Integers, FiniteSets

CONSTANTS
    MostLetters,    \* bound on the drive letters
    HitAge,         \* bound on the ages
    Machines        \* the machines: drive letters, MAX_REMOVABLE_PROBES (2),
                    \* the kinds the drives have at first, which of them never
                    \* answer, how often drives change, the first collection
                    \* at which an incomplete record is 5 s old (miss) and at
                    \* which a complete one is 30 s old (hit)

ASSUME ProbeAssumption ==
    /\ MostLetters \in Nat \ {0}
    /\ HitAge \in Nat
    /\ \A m \in Machines :
        /\ m.letters \in 1..MostLetters /\ m.probes \in Nat \ {0}
        /\ m.kinds \subseteq {"absent", "fixed", "remote", "removable"}
        /\ m.stuck \subseteq 1..m.letters /\ m.changes \in Nat
        /\ m.miss \in 1..HitAge /\ m.hit \in m.miss..HitAge

VARIABLES
    machine,    \* the member of Machines; it never changes
    kind,       \* what each letter is now
    probe,      \* removable_probes
    visiting,   \* the letter the collector is at, 0 between collections
    listed,     \* letters GetLogicalDriveStrings has named in this collection
    shown,      \* what the last record of each letter says of its capacity
    changed     \* changes so far (bound)

moving == <<kind, probe, visiting, listed, shown, changed>>
vars   == <<machine, moving>>

Letters   == machine.letters    \* the drive letters are 1..Letters
MaxProbes == machine.probes     \* MAX_REMOVABLE_PROBES
Stuck     == machine.stuck      \* drives whose queries never return
Changes   == machine.changes    \* bound on the changes of the drives
Miss      == machine.miss       \* REMOVABLE_CAPACITY_MISS_REFRESH_MS, in collections
Hit       == machine.hit        \* REMOVABLE_CAPACITY_REFRESH_MS, in collections

Drives == 1..Letters
Kinds  == {"absent", "fixed", "remote", "removable"}

\* `got' says which of the two queries of a measurement worked; `outdated' is
\* a ghost: the letter was seen to change after the measurement had begun.
Nothing == [got |-> "none", age |-> 0, outdated |-> FALSE]
NoProbe == [thread |-> "none", kind |-> "absent", working |-> Nothing,
            cached |-> Nothing, has_cached |-> FALSE, discard |-> FALSE]

Init ==
    /\ machine \in Machines
    /\ kind \in [Drives -> machine.kinds]
    /\ probe = [d \in Drives |-> NoProbe]
    /\ visiting = 0 /\ listed = {}
    /\ shown = [d \in Drives |-> "nothing"]
    /\ changed = 0

-----------------------------------------------------------------------------
\* A drive is plugged, unplugged or replaced.
Change(d) ==
    /\ changed < Changes /\ changed' = changed + 1
    /\ \E k \in Kinds \ {kind[d]} : kind' = [kind EXCEPT ![d] = k]
    /\ UNCHANGED <<probe, visiting, listed, shown>>

\* removable_probe_worker: the capacity, then the file system.
Measure(d) ==
    /\ probe[d].thread = "started" /\ d \notin Stuck
    /\ \E got \in IF kind[d] = "absent" THEN {"none"} ELSE {"none", "capacity", "all"} :
          probe' = [probe EXCEPT ![d].thread = "ended", ![d].working.got = got, ![d].working.age = 0]
    /\ UNCHANGED <<kind, visiting, listed, shown, changed>>

-----------------------------------------------------------------------------
NoticedKeepingWorking(p, k) ==      \* a mistake: only the cached record is dropped
    [p EXCEPT !.kind = k, !.has_cached = FALSE, !.cached = Nothing, !.working.outdated = TRUE]

\* A change of the letter's kind: what is known is forgotten, and what a
\* thread is still measuring will be.
Noticed(p, k) ==
    [p EXCEPT !.kind = k, !.has_cached = FALSE, !.cached = Nothing,
              !.discard = p.thread # "none", !.working.outdated = TRUE]

Older(m) == [m EXCEPT !.age = IF @ < Hit THEN @ + 1 ELSE @]


\* collect_completed_removable_probes.
Completed(p) ==
    IF p.thread # "ended" THEN p
    ELSE [p EXCEPT !.thread = "none", !.discard = FALSE, !.working = Nothing,
                   !.cached = IF p.discard THEN @ ELSE Older(p.working),
                   !.has_cached = @ \/ ~p.discard]

Begin ==
    /\ visiting = 0
    /\ listed' = {d \in Drives : kind[d] # "absent"}
    /\ probe' = [d \in Drives |-> Completed([probe[d] EXCEPT !.cached = Older(@)])]
    /\ visiting' = 1
    /\ UNCHANGED <<kind, shown, changed>>

Threads == {d \in Drives : probe[d].thread # "none"}

\* The removable drive's record is missing or old enough.
Refresh(p) == IF p.cached.got = "all" THEN Hit ELSE Miss
Due(p) == p.thread = "none" /\ (p.has_cached => p.cached.age >= Refresh(p))

RoomFor(d) == Cardinality(Threads) < MaxProbes

Started(p) == [p EXCEPT !.thread = "started", !.working = Nothing, !.discard = FALSE]

\* What the record of a removable drive says; `failed' is CreateThread's answer.
Says(p, failed) ==
    IF ~p.has_cached THEN IF failed THEN "unavailable" ELSE "pending"
    ELSE IF p.cached.got = "none" THEN IF failed THEN "unavailable" ELSE "failed"
    ELSE IF p.cached.outdated THEN "outdated"
    ELSE IF p.cached.got = "all" /\ p.cached.age < Refresh(p) THEN "fresh" ELSE "partial"

\* One round of push_mount_records' loop.
Visit(d) ==
    LET k == kind[d]
        p == IF probe[d].kind = k THEN probe[d] ELSE Noticed(probe[d], k)
        Record(q, says) == /\ probe' = [probe EXCEPT ![d] = q]
                           /\ shown' = [shown EXCEPT ![d] = says]
    IN
    /\ visiting = d
    /\ visiting' = d + 1
    /\ IF d \notin listed \/ k = "absent"   \* nothing is said of it
       THEN /\ listed' = listed \ {d}
            /\ Record(probe[d], "nothing")
       ELSE /\ UNCHANGED listed
            /\ \/ k = "remote" /\ Record(p, "skipped")
               \/ k = "fixed" /\ Record(p, "asked")
               \/ /\ k = "removable"
                  /\ IF Due(p) /\ RoomFor(d)
                     THEN \/ Record(Started(p), Says(p, FALSE))
                          \/ Record(p, Says(p, TRUE))
                     ELSE Record(p, Says(p, FALSE))
    /\ UNCHANGED <<kind, changed>>

\* Letters this collection has not seen.
ForgetUnseen ==
    /\ visiting = Letters + 1
    /\ visiting' = 0
    /\ probe' = [d \in Drives |-> IF d \in listed THEN probe[d] ELSE Noticed(probe[d], "absent")]
    /\ listed' = {}
    /\ UNCHANGED <<kind, shown, changed>>

Collect == Begin \/ (\E d \in Drives : Visit(d)) \/ ForgetUnseen

Next == UNCHANGED machine /\ (Collect \/ \E d \in Drives : Change(d) \/ Measure(d))

Spec == Init /\ [][Next]_vars

-----------------------------------------------------------------------------
\* No capacity is shown that was measured before the letter was last seen to
\* have gone or to have become another kind of drive.
NeverOutdated == \A d \in Drives : shown[d] # "outdated"

\* Threads run, those that are not stuck return, and collections go on; a
\* thread can be created again and again unless it can never be.
Starts(d) == d \in Drives /\ Visit(d) /\ probe'[d].thread = "started"
LiveSpec ==
    /\ Spec
    /\ WF_moving(Collect)
    /\ \A d \in 1..MostLetters : WF_moving(d \in Drives /\ Measure(d)) /\ SF_moving(Starts(d))

\* Removable drives share the threads that stuck drives have left.  They are
\* served in the order of their letters, and a drive that is asked again may take
\* the thread another one has just given up.  One that has just been asked rests
\* until its record is due, for a collection at least if Miss > 1: only so many
\* drives can count on a thread.
Asked == {d \in Drives : kind[d] = "removable" /\ d \notin Stuck}
Taken == {d \in Stuck : kind[d] = "removable" \/ probe[d].thread # "none"}
Resting == IF Miss > 1 THEN 1 ELSE 0
EnoughThreads ==
    /\ Cardinality(Taken) < MaxProbes
    /\ Cardinality(Asked) <= MaxProbes - Cardinality(Taken) + Resting

=============================================================================
