--------------------------------- MODULE Store ---------------------------------
(***************************************************************************)
(* Durable files: layout.yml and its backup, as layout_store.lua loads and *)
(* saves them through file_backup.lua and the native atomic_write, with    *)
(* failing system calls, a machine that may lose power at any step, and    *)
(* several program instances that share the directory and may be killed.   *)
(*                                                                         *)
(* A name leads to a file, a file has a content, and its data is `synced'  *)
(* once fsync has returned.  Power loss keeps a name space of the recent   *)
(* `past', because no code syncs the directory, and leaves data that was   *)
(* not synced torn or whole.                                               *)
(***************************************************************************)
EXTENDS Integers, Sequences

CONSTANTS
    Settings,       \* the surroundings a behaviour may have, as records (below)
    MaxAttempts     \* names tried by one atomic_write (100 in the code)

ASSUME StoreAssumption ==
    /\ \A s \in Settings :
        /\ s.platform \in {"linux", "macos", "windows"}
        /\ {s.versions, s.names, s.faults, s.crashes, s.strays, s.edits, s.depth} \subseteq Nat
        /\ s.anytime \in BOOLEAN
    /\ MaxAttempts \in Nat \ {0}

VARIABLE setting    \* the member of Settings this behaviour has; it never changes

Procs        == setting.procs       \* program instances, each with a process id of its own
Platform     == setting.platform    \* "linux", "macos" or "windows"
MaxVersion   == setting.versions    \* bound: layouts saved in a behaviour
MaxCount     == setting.names       \* bound: temporary names tried by one instance
MaxFaults    == setting.faults      \* bound: system calls that fail
MaxCrashes   == setting.crashes     \* bound: power losses
MaxStrays    == setting.strays      \* bound: instances killed, and files that unlink leaves
MaxEdits     == setting.edits       \* bound: times somebody spoils layout.yml
EditsAnytime == setting.anytime     \* whether also while an instance loads or saves
Depth        == setting.depth       \* directories above layout.yml that save creates

Bad      == -1                  \* a text that does not parse
Nothing  == -2                  \* no text in hand
Versions == 0..MaxVersion
Main     == <<"main">>
Bak      == <<"bak">>
Targets  == {Main, Bak}
Temp(t, p, n) == t \o <<p, n>>
Temps    == {Temp(t, p, n) : t \in Targets, p \in Procs, n \in 1..MaxCount}
Names    == Targets \cup Temps
Absent   == [text |-> Nothing, whole |-> TRUE, synced |-> TRUE]

VARIABLES
    fs,         \* name -> file
    past,       \* name spaces a power loss may bring back
    dirs,       \* how many of the directories exist
    pc,         \* instance -> its next step
    job,        \* instance -> "load" or "save"
    target,     \* instance -> the file its atomic_write replaces
    text,       \* instance -> what it writes, or has just read
    temp,       \* instance -> the temporary name it holds
    tries,      \* instance -> names tried by the present atomic_write
    count,      \* instance -> its `counter'
    held,       \* instance -> the layout of the session
    result,     \* instance -> how its last load or save ended
    version,    \* versions made so far
    before,     \* what the last save found in layout.yml
    blamed,     \* instances whose present job has met a fault
    kept,       \* temporary names that nobody is left to remove
    faults, crashes, strays, edits

disk    == <<fs, past>>
proc    == <<pc, job, target, text, temp, tries, count, held, result>>
bounds  == <<faults, crashes, strays, kept, edits>>
vars    == <<setting, disk, dirs, proc, version, before, blamed, bounds>>

Stored(t)    == [text |-> t, whole |-> TRUE, synced |-> TRUE]
Content(f)   == IF f.whole THEN f.text ELSE Bad
Exists(n)    == fs[n] # Absent
Parses(f)    == Content(f) \in Versions

Init ==
    /\ setting \in Settings
    /\ \/ dirs = Depth /\ fs = [n \in Names |-> IF n \in Targets THEN Stored(0) ELSE Absent]
       \/ dirs = 0 /\ fs = [n \in Names |-> Absent]
    /\ past = {fs}
    /\ pc = [p \in Procs |-> "idle"]        /\ job = [p \in Procs |-> "load"]
    /\ target = [p \in Procs |-> Main]      /\ text = [p \in Procs |-> Nothing]
    /\ temp = [p \in Procs |-> Main]        /\ tries = [p \in Procs |-> 0]
    /\ count = [p \in Procs |-> 0]          /\ held = [p \in Procs |-> Nothing]
    /\ result = [p \in Procs |-> "none"]
    /\ version = 0 /\ before = 0 /\ blamed = {} /\ kept = {}
    /\ faults = 0 /\ crashes = 0 /\ strays = 0 /\ edits = 0

Rename(from, to) == [fs EXCEPT ![to] = fs[from], ![from] = Absent]
Place(n, file)   == [fs EXCEPT ![n] = file]
Recent(new)      == IF crashes < MaxCrashes THEN past \cup {new} ELSE {new}
Journal(new)     == fs' = new /\ past' = Recent(new)

Step(p, to)  == pc' = [pc EXCEPT ![p] = to]
At(p, step)  == pc[p] = step
Begin(p, step) == Step(p, step) /\ result' = [result EXCEPT ![p] = "none"] /\ blamed' = blamed \ {p}
Finish(p, how) == Step(p, "idle") /\ result' = [result EXCEPT ![p] = how]

Resting        == \A p \in Procs : pc[p] = "idle"

Fail(p) ==
    /\ faults < MaxFaults
    /\ faults' = faults + 1
    /\ blamed' = blamed \cup {p}
    /\ UNCHANGED <<crashes, strays, kept, edits>>
Safe == UNCHANGED <<bounds, blamed>>

\* Temporary files are left behind for good.
Stray(names) ==
    /\ strays < MaxStrays
    /\ strays' = strays + 1
    /\ kept' = kept \cup names
    /\ UNCHANGED <<faults, crashes, edits>>

-----------------------------------------------------------------------------
(***************************************************************************)
(* Load.  A text that cannot be read or parsed is looked for in the backup *)
(* unless the file is simply missing; a good one refreshes the backup.     *)
(* Every file is read at an instant of its own.                            *)
(***************************************************************************)
BeginLoad(p) ==
    /\ At(p, "idle")
    /\ job' = [job EXCEPT ![p] = "load"]
    /\ Begin(p, "read")
    /\ UNCHANGED <<disk, dirs, target, text, temp, tries, count, held, version, before, bounds>>

ReadRefreshing(p) ==    \* a mistake: the backup is refreshed before the text is parsed
    /\ At(p, "read") /\ Exists(Main)
    /\ held' = [held EXCEPT ![p] = Content(fs[Main])]
    /\ Step(p, "refresh")
    /\ UNCHANGED <<disk, dirs, job, target, text, temp, tries, count, result, version, before, blamed, bounds>>

Read(p) ==
    /\ At(p, "read")
    /\ UNCHANGED <<disk, dirs, job, target, text, temp, tries, count, version, before>>
    /\ \/ /\ ~Exists(Main)
          /\ held' = [held EXCEPT ![p] = Nothing]
          /\ Finish(p, "default") /\ Safe
       \/ /\ Exists(Main) /\ Parses(fs[Main])
          /\ held' = [held EXCEPT ![p] = Content(fs[Main])]
          /\ Step(p, "refresh") /\ UNCHANGED result /\ Safe
       \/ /\ Exists(Main) /\ ~Parses(fs[Main])
          /\ Step(p, "recover") /\ UNCHANGED <<held, result>> /\ Safe
       \/ /\ Exists(Main) /\ Fail(p)
          /\ Step(p, "recover") /\ UNCHANGED <<held, result>>

Recovered(p, layout, how) == held' = [held EXCEPT ![p] = layout] /\ Finish(p, how)

Recover(p) ==
    /\ At(p, "recover")
    /\ \/ Parses(fs[Bak]) /\ Recovered(p, Content(fs[Bak]), "recovered_backup") /\ Safe
       \/ ~Parses(fs[Bak]) /\ Recovered(p, Nothing, "error") /\ Safe
       \/ Fail(p) /\ Recovered(p, Nothing, "error")
    /\ UNCHANGED <<disk, dirs, job, target, text, temp, tries, count, version, before>>

\* The file is read anew: another instance may have replaced it meanwhile.
Refresh(p) ==
    /\ At(p, "refresh")
    /\ \/ text' = [text EXCEPT ![p] = Content(fs[Main])]
          /\ Step(p, "compare") /\ UNCHANGED result /\ Safe
       \/ Fail(p) /\ Finish(p, "loaded") /\ UNCHANGED text
    /\ UNCHANGED <<disk, dirs, job, target, temp, tries, count, held, version, before>>

\* A backup that cannot be read is written like one that differs.
Compare(p) ==
    /\ At(p, "compare")
    /\ \/ text[p] \in {Nothing, Content(fs[Bak])} /\ Finish(p, "loaded") /\ Safe
       \/ text[p] \notin {Nothing, Content(fs[Bak])} /\ Step(p, "capture") /\ UNCHANGED result /\ Safe
       \/ text[p] # Nothing /\ Fail(p) /\ Step(p, "capture") /\ UNCHANGED result
    /\ UNCHANGED <<disk, dirs, job, target, text, temp, tries, count, held, version, before>>

-----------------------------------------------------------------------------
(***************************************************************************)
(* Save: make the directories, copy the present file to the backup, write  *)
(* the new one.                                                            *)
(***************************************************************************)
BeginSave(p) ==
    /\ At(p, "idle") /\ version < MaxVersion
    /\ job' = [job EXCEPT ![p] = "save"]
    /\ version' = version + 1
    /\ held' = [held EXCEPT ![p] = version + 1]
    /\ Begin(p, "mkdir")
    /\ UNCHANGED <<disk, dirs, target, text, temp, tries, count, before, bounds>>

MakeDirectoryStrictly(p) == \* a mistake: EEXIST is an error
    /\ At(p, "mkdir")
    /\ \/ dirs = Depth /\ Step(p, "capture") /\ UNCHANGED <<dirs, result>>
       \/ dirs < Depth /\ dirs' = dirs + 1 /\ UNCHANGED <<pc, result>>
       \/ dirs < Depth /\ dirs > 0 /\ Finish(p, "failed") /\ UNCHANGED dirs
    /\ UNCHANGED <<disk, job, target, text, temp, tries, count, held, version, before, blamed, bounds>>

\* One mkdir; a directory that exists, made by whoever, is as good as made.
MakeDirectory(p) ==
    /\ At(p, "mkdir")
    /\ \/ dirs = Depth /\ Step(p, "capture") /\ UNCHANGED <<dirs, result>> /\ Safe
       \/ dirs < Depth /\ dirs' = dirs + 1 /\ UNCHANGED <<pc, result>> /\ Safe
       \/ dirs < Depth /\ Fail(p) /\ Finish(p, "failed") /\ UNCHANGED dirs
    /\ UNCHANGED <<disk, job, target, text, temp, tries, count, held, version, before>>

-----------------------------------------------------------------------------
(***************************************************************************)
(* FileBackup.capture: failures are kept quiet.                            *)
(***************************************************************************)
AfterCapture(p) == IF job[p] = "save" THEN "encode" ELSE "loaded"

StartWrite(p, t, content) ==
    /\ target' = [target EXCEPT ![p] = t]
    /\ text' = [text EXCEPT ![p] = content]
    /\ tries' = [tries EXCEPT ![p] = 0]
    /\ Step(p, "create")

CaptureOnLoad(p) ==   \* a mistake: only a load refreshes the backup
    /\ At(p, "capture")
    /\ IF job[p] = "save" THEN Step(p, "encode") /\ UNCHANGED <<target, text, tries>>
       ELSE StartWrite(p, Bak, Content(fs[Main]))
    /\ Safe
    /\ UNCHANGED <<disk, dirs, job, temp, count, held, result, version, before>>

Capture(p) ==
    /\ At(p, "capture")
    /\ \/ /\ Exists(Main)
          /\ StartWrite(p, Bak, Content(fs[Main])) /\ Safe
       \/ /\ ~Exists(Main)
          /\ Step(p, AfterCapture(p)) /\ UNCHANGED <<target, text, tries>> /\ Safe
       \/ /\ Fail(p)
          /\ Step(p, AfterCapture(p)) /\ UNCHANGED <<target, text, tries>>
    /\ UNCHANGED <<disk, dirs, job, temp, count, held, result, version, before>>

\* The layout of the session is encoded after the capture and may be refused.
Encode(p) ==
    /\ At(p, "encode")
    /\ \/ StartWrite(p, Main, held[p]) /\ UNCHANGED result /\ Safe
       \/ Fail(p) /\ Finish(p, "failed") /\ UNCHANGED <<target, text, tries>>
    /\ UNCHANGED <<disk, dirs, job, temp, count, held, version, before>>

Loaded(p) ==
    /\ At(p, "loaded")
    /\ Finish(p, "loaded")
    /\ UNCHANGED <<disk, dirs, job, target, text, temp, tries, count, held, version, before, blamed, bounds>>

-----------------------------------------------------------------------------
(***************************************************************************)
(* atomic_write: a new file beside the target, its data, fsync, close and  *)
(* rename; whatever fails, the new file is removed.                        *)
(***************************************************************************)
EndedQuietly(p, ok) ==    \* a mistake: a save that failed answers like one that did not
    IF target[p] = Bak THEN Step(p, AfterCapture(p)) /\ UNCHANGED result
    ELSE Finish(p, "saved")

Ended(p, ok) ==
    IF target[p] = Bak THEN Step(p, AfterCapture(p)) /\ UNCHANGED result
    ELSE Finish(p, IF ok THEN "saved" ELSE "failed")

\* Linux and Windows count, mkstemp looks for a free name itself.
Candidates(p) ==
    IF Platform = "macos" THEN {n \in Temps : ~Exists(n) /\ \E k \in 1..MaxCount : n = Temp(target[p], p, k)}
    ELSE {Temp(target[p], p, count[p] + 1)}

\* The name can be taken: an earlier life with this process id left it.
Create(p) ==
    /\ At(p, "create") /\ tries[p] < MaxAttempts /\ count[p] < MaxCount
    /\ \E n \in Candidates(p) :
        /\ temp' = [temp EXCEPT ![p] = n]
        /\ count' = [count EXCEPT ![p] = @ + 1]
        /\ tries' = [tries EXCEPT ![p] = @ + 1]
        /\ IF Exists(n) THEN UNCHANGED <<disk, pc>>
           ELSE /\ Journal(Place(n, [text |-> text[p], whole |-> FALSE, synced |-> FALSE]))
                /\ Step(p, "write")
    /\ UNCHANGED <<dirs, job, target, text, held, result, version, before, blamed, bounds>>

\* open() fails for another reason, or the last name was taken too: Windows
\* then deletes that name, or tries to.
CreateFails(p) ==
    /\ At(p, "create")
    /\ \/ Fail(p) /\ UNCHANGED disk
       \/ tries[p] = MaxAttempts /\ Safe /\ UNCHANGED disk
       \/ tries[p] = MaxAttempts /\ Safe /\ Platform = "windows" /\ Journal(Place(temp[p], Absent))
    /\ Ended(p, FALSE)
    /\ UNCHANGED <<dirs, job, target, text, temp, tries, count, held, version, before>>

\* Short writes go on, EINTR too; a failure may leave a part of the text.
Write(p) ==
    /\ At(p, "write")
    /\ \/ fs' = Place(temp[p], [fs[temp[p]] EXCEPT !.whole = TRUE]) /\ Step(p, "sync") /\ Safe
       \/ Fail(p) /\ Step(p, "undo") /\ UNCHANGED fs
    /\ UNCHANGED <<past, dirs, job, target, text, temp, tries, count, held, result, version, before>>

SyncSkipped(p) ==   \* a mistake: no fsync
    /\ At(p, "sync")
    /\ Step(p, "close")
    /\ UNCHANGED <<disk, dirs, job, target, text, temp, tries, count, held, result, version, before, blamed, bounds>>

Sync(p) ==
    /\ At(p, "sync")
    /\ \/ fs' = Place(temp[p], [fs[temp[p]] EXCEPT !.synced = TRUE]) /\ Step(p, "close") /\ Safe
       \/ Fail(p) /\ Step(p, "undo") /\ UNCHANGED fs
    /\ UNCHANGED <<past, dirs, job, target, text, temp, tries, count, held, result, version, before>>

Close(p) ==
    /\ At(p, "close")
    /\ \/ Step(p, "rename") /\ Safe
       \/ Fail(p) /\ Step(p, "undo")
    /\ UNCHANGED <<disk, dirs, job, target, text, temp, tries, count, held, result, version, before>>

\* MoveFileEx with MOVEFILE_WRITE_THROUGH returns once the move is on disk.
Replace(p) ==
    /\ At(p, "rename")
    /\ fs' = Rename(temp[p], target[p])
    /\ past' = IF Platform = "windows" THEN {fs'} ELSE Recent(fs')
    /\ before' = IF target[p] = Main THEN Content(fs[Main]) ELSE before
    /\ Ended(p, TRUE)
    /\ UNCHANGED <<dirs, job, target, text, temp, tries, count, held, version, blamed, bounds>>

ReplaceFails(p) ==
    /\ At(p, "rename")
    /\ Fail(p)
    /\ Step(p, "undo")
    /\ UNCHANGED <<disk, dirs, job, target, text, temp, tries, count, held, result, version, before>>

UndoKeeping(p) ==   \* a mistake: the temporary file stays
    /\ At(p, "undo")
    /\ Ended(p, FALSE)
    /\ UNCHANGED <<disk, dirs, job, target, text, temp, tries, count, held, version, before, blamed, bounds>>

\* Nobody looks whether unlink has removed it.
Undo(p) ==
    /\ At(p, "undo")
    /\ \/ Journal(Place(temp[p], Absent)) /\ UNCHANGED bounds
       \/ Stray({temp[p]}) /\ UNCHANGED disk
    /\ Ended(p, FALSE)
    /\ UNCHANGED <<dirs, job, target, text, temp, tries, count, held, version, before, blamed>>

-----------------------------------------------------------------------------
(***************************************************************************)
(* The surroundings.                                                       *)
(***************************************************************************)
Flush ==
    /\ crashes < MaxCrashes /\ past # {fs}
    /\ past' = {fs}
    /\ UNCHANGED <<fs, dirs, proc, version, before, blamed, bounds>>

\* An editor saves a text that does not parse.
Spoil ==
    /\ edits < MaxEdits /\ Exists(Main)
    /\ EditsAnytime \/ Resting
    /\ edits' = edits + 1
    /\ Journal(Place(Main, Stored(Bad)))
    /\ UNCHANGED <<dirs, proc, version, before, blamed, faults, crashes, strays, kept>>

Holding == {"write", "sync", "close", "rename", "undo"}     \* a temporary file

\* One instance is killed, or quits, at any step.  The next one may have been
\* given its process id, and counts from zero.
Killed(p) ==
    /\ Stray(IF pc[p] \in Holding THEN {temp[p]} ELSE {})
    /\ pc' = [pc EXCEPT ![p] = "idle"]    /\ result' = [result EXCEPT ![p] = "none"]
    /\ held' = [held EXCEPT ![p] = Nothing] /\ count' = [count EXCEPT ![p] = 0]
    /\ temp' = [temp EXCEPT ![p] = Main]    /\ tries' = [tries EXCEPT ![p] = 0]
    /\ UNCHANGED <<disk, dirs, job, target, text, version, before, blamed>>

\* Power is lost: an older name space, unsynced data torn.  Every instance is
\* gone; the next ones start with the same process ids and counters at zero.
PowerLoss ==
    /\ crashes < MaxCrashes
    /\ crashes' = crashes + 1
    /\ \E space \in past, torn \in SUBSET {n \in Names : fs[n] # Absent /\ ~fs[n].synced} :
        fs' = [n \in Names |->
                IF space[n] = Absent THEN Absent
                ELSE [text |-> space[n].text, synced |-> TRUE,
                      whole |-> space[n].whole /\ (space[n].synced \/ n \notin torn)]]
    /\ past' = {fs'}
    /\ pc' = [p \in Procs |-> "idle"]    /\ result' = [p \in Procs |-> "none"]
    /\ held' = [p \in Procs |-> Nothing] /\ count' = [p \in Procs |-> 0]
    /\ temp' = [p \in Procs |-> Main]    /\ tries' = [p \in Procs |-> 0]
    /\ UNCHANGED <<dirs, job, target, text, version, before, blamed, kept, faults, strays, edits>>

Next ==
    /\ UNCHANGED setting
    /\ \/ \E p \in Procs :
            \/ BeginLoad(p) \/ Read(p) \/ Recover(p) \/ Refresh(p) \/ Compare(p)
            \/ BeginSave(p) \/ MakeDirectory(p)
            \/ Capture(p) \/ Encode(p) \/ Loaded(p)
            \/ Create(p) \/ CreateFails(p) \/ Write(p) \/ Sync(p) \/ Close(p)
            \/ Replace(p) \/ ReplaceFails(p) \/ Undo(p) \/ Killed(p)
       \/ Flush \/ Spoil \/ PowerLoss

Spec == Init /\ [][Next]_vars

-----------------------------------------------------------------------------
\* layout.yml and its backup are never seen half-written: not by another
\* instance, and not after a power loss at any step of atomic_write.
NeverTorn == \A t \in Targets : fs[t].whole

\* When every instance rests and there is a backup, a layout can be loaded
\* from the file or from its backup: whatever fails and whenever the power
\* goes, and after an editor has spoiled the file once if nothing else fails.
Recoverable == Resting /\ Exists(Bak) => \E t \in Targets : Parses(fs[t])

\* Without power loss no temporary file outlives the call that made it, unless
\* its instance was killed with the file in hand or unlink itself failed.
NoLeftovers == Resting /\ crashes = 0 => \A n \in Temps \ kept : ~Exists(n)

\* A save is only refused because something really failed, and a load only
\* falls back on the backup, or on nothing, for that reason or because an
\* editor spoiled the layout: another instance doing the same at the same time
\* is no reason, nor are names left behind, as long as they are fewer than the
\* names one atomic_write tries.
RefusedForCause ==
    \A p \in Procs :
        /\ result[p] = "failed" => p \in blamed
        /\ result[p] \in {"recovered_backup", "error"} => p \in blamed \/ edits > 0

\* After saves and loads of one instance in which nothing failed the backup holds
\* the file itself or the generation it replaced, though the instance was killed.
BackupTrails ==
    (\E p \in Procs : Procs = {p}) /\ Resting /\ faults = 0 /\ crashes = 0 /\ edits = 0 /\ Exists(Main) /\ Exists(Bak) =>
        Content(fs[Bak]) \in {Content(fs[Main]), before}

-----------------------------------------------------------------------------
(* Store implements DurableFile: its calls take effect at one step, the     *)
(* temporary files, the capture and the system calls are not seen.          *)

\* The call of an instance, as its caller sees it: a load has read the file
\* once it is past its first step.
CallOf(p) ==
    IF pc[p] = "idle" THEN "none"
    ELSE IF pc[p] = "read" THEN "load"
    ELSE IF pc[p] = "recover" THEN "recover"
    ELSE IF job[p] = "load" THEN "read" ELSE "save"

Pair(space) == <<Content(space[Main]), Content(space[Bak])>>

File == INSTANCE DurableFile WITH
    writeThrough <- Platform = "windows",
    layout       <- Content(fs[Main]),
    backup       <- Content(fs[Bak]),
    recent       <- {Pair(space) : space \in past},
    issued       <- version,
    call         <- [p \in Procs |-> CallOf(p)],
    held         <- held,
    answer       <- result

\* A load answers with one version that the file or its backup held; a save
\* takes effect when it answers "saved" and not at all when it answers
\* "failed"; a power loss brings back a file and a backup of one instant,
\* whole, and on Windows none from before the last replacement.
ImplementsDurableFile == File!Spec
=============================================================================
