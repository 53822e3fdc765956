------------------------------ MODULE DurableFile ------------------------------
(***************************************************************************)
(* What the layout store promises to the program: a file and its backup    *)
(* that change at one instant, however many calls, failures and instances  *)
(* are behind it.                                                          *)
(*                                                                         *)
(* A load answers with what the file held at an instant within the call,   *)
(* or, when that was of no use, with what the backup held after it.  A     *)
(* save that answers "saved" has put the session's                         *)
(* version in the place of the file at that instant; one that answers      *)
(* "failed" has left the file alone.  Neither file ever holds anything but *)
(* a version somebody asked to save, or what an editor wrote.  A power     *)
(* loss brings back both files as they were together at some instant since *)
(* they were last known to be on disk, never a part of a text; where       *)
(* replacing a file writes through, that is no instant before it.          *)
(***************************************************************************)
EXTENDS Integers

VARIABLES
    writeThrough,   \* a file that was replaced is on disk; it never changes
    layout,         \* what layout.yml holds: a version, Bad, or Nothing (no file)
    backup,         \* what its backup holds
    recent,         \* pairs of the two that a power loss may bring back
    issued,         \* versions made so far
    call,           \* instance -> "none", "load", "recover", "read" or "save" under way
    held,           \* instance -> the layout of its session
    answer          \* instance -> how its last call ended

files    == <<layout, backup, recent>>
sessions == <<call, held, answer>>
vars     == <<writeThrough, files, issued, sessions>>

Bad       == -1     \* a text that does not parse
Nothing   == -2     \* no text
Issued    == 0..issued
Instances == DOMAIN call

Init ==
    /\ writeThrough \in BOOLEAN
    /\ layout \in {0, Nothing} /\ backup = layout /\ recent = {<<layout, backup>>}
    /\ issued = 0
    /\ \A p \in Instances : call[p] = "none" /\ held[p] = Nothing /\ answer[p] = "none"

\* The two files change at once; what they were may still come back.
Becomes(l, b, durable) ==
    /\ layout' = l /\ backup' = b
    /\ \/ ~durable /\ recent' = recent \cup {<<l, b>>}
       \/ recent' = {<<l, b>>}

Calls(p, c)   == call' = [call EXCEPT ![p] = c]
Holds(p, v)   == held' = [held EXCEPT ![p] = v]
Answers(p, a) == answer' = [answer EXCEPT ![p] = a]
Ends(p, a)    == Calls(p, "none") /\ Answers(p, a)

(* Loads.                                                                   *)

BeginLoad(p) ==
    /\ call[p] = "none"
    /\ Calls(p, "load") /\ Answers(p, "none")
    /\ UNCHANGED <<files, issued, held>>

Read(p) ==
    /\ call[p] = "load" /\ layout \in Issued
    /\ Calls(p, "read") /\ Holds(p, layout)
    /\ UNCHANGED <<files, issued, answer>>

FindNothing(p) ==
    /\ call[p] = "load" /\ layout = Nothing
    /\ Holds(p, Nothing) /\ Ends(p, "default")
    /\ UNCHANGED <<files, issued>>

\* The file cannot be read or is spoiled: the backup is tried after it.
GiveUp(p) ==
    /\ call[p] = "load" /\ layout # Nothing
    /\ Calls(p, "recover")
    /\ UNCHANGED <<files, issued, held, answer>>

Recover(p) ==
    /\ call[p] = "recover"
    /\ \/ backup \in Issued /\ Holds(p, backup) /\ Ends(p, "recovered_backup")
       \/ Holds(p, Nothing) /\ Ends(p, "error")
    /\ UNCHANGED <<files, issued>>

EndLoad(p) ==
    /\ call[p] = "read"
    /\ Ends(p, "loaded")
    /\ UNCHANGED <<files, issued, held>>

(* Saves.                                                                   *)

BeginSave(p) ==
    /\ call[p] = "none"
    /\ issued' = issued + 1
    /\ Calls(p, "save") /\ Holds(p, issued') /\ Answers(p, "none")
    /\ UNCHANGED files

Save(p) ==
    /\ call[p] = "save"
    /\ Becomes(held[p], backup, writeThrough)
    /\ Ends(p, "saved")
    /\ UNCHANGED <<issued, held>>

Refuse(p) ==
    /\ call[p] = "save"
    /\ Ends(p, "failed")
    /\ UNCHANGED <<files, issued, held>>

\* A load that has read the file and a save that has not yet replaced it may
\* put a text the file held into the backup.
BackUp(p) ==
    /\ call[p] \in {"read", "save"}
    /\ \E text \in Issued \cup {Bad} : Becomes(layout, text, writeThrough)
    /\ UNCHANGED <<issued, sessions>>

(* The surroundings.                                                        *)

Spoil ==
    /\ layout # Nothing
    /\ Becomes(Bad, backup, FALSE)
    /\ UNCHANGED <<issued, sessions>>

Settle ==
    /\ Becomes(layout, backup, TRUE)
    /\ UNCHANGED <<issued, sessions>>

\* One instance is gone at any moment of its call, the files are left alone.
Vanish(p) ==
    /\ Ends(p, "none") /\ Holds(p, Nothing)
    /\ UNCHANGED <<files, issued>>

\* Every instance is gone; the next ones have nothing in hand.
Lose ==
    /\ \E pair \in recent : Becomes(pair[1], pair[2], TRUE)
    /\ call' = [p \in Instances |-> "none"] /\ held' = [p \in Instances |-> Nothing]
    /\ answer' = [p \in Instances |-> "none"]
    /\ UNCHANGED issued

Next ==
    /\ UNCHANGED writeThrough
    /\ \/ \E p \in Instances :
            \/ BeginLoad(p) \/ Read(p) \/ FindNothing(p) \/ GiveUp(p) \/ Recover(p)
            \/ EndLoad(p) \/ BeginSave(p) \/ Save(p) \/ Refuse(p) \/ BackUp(p) \/ Vanish(p)
       \/ Spoil \/ Settle \/ Lose

Spec == Init /\ [][Next]_vars

=============================================================================
