------------------------------ MODULE StoreProofs ------------------------------
(***************************************************************************)
(* Theorems about Store, for all its settings: any instances that share    *)
(* the directory, on every platform, any bound on versions, names, failing *)
(* calls, power losses and kills.                                          *)
(***************************************************************************)
EXTENDS Store, FiniteSetTheorems, SequenceTheorems, TLAPS

-----------------------------------------------------------------------------
(* The inductive invariant.                                                 *)

Steps   == {"idle", "read", "recover", "refresh", "compare", "mkdir", "capture", "encode", "loaded",
            "create", "write", "sync", "close", "rename", "undo"}
Writing == Holding \cup {"create"}                          \* within atomic_write
Results == {"none", "default", "loaded", "recovered_backup", "error", "failed", "saved"}
Texts   == Versions \cup {Bad}
Files   == [text : Texts, whole : BOOLEAN, synced : BOOLEAN] \cup {Absent}

Types ==
    /\ setting \in Settings
    /\ fs \in [Names -> Files] /\ past \subseteq [Names -> Files]
    /\ pc \in [Procs -> Steps] /\ job \in [Procs -> {"load", "save"}]
    /\ target \in [Procs -> Targets] /\ text \in [Procs -> Texts \cup {Nothing}]
    /\ temp \in [Procs -> Names] /\ tries \in [Procs -> Nat]
    /\ count \in [Procs -> 0..MaxCount]
    /\ held \in [Procs -> Texts \cup {Nothing}] /\ result \in [Procs -> Results]
    /\ version \in Versions
    /\ faults \in 0..MaxFaults /\ crashes \in 0..MaxCrashes /\ edits \in 0..MaxEdits
    /\ strays \in 0..MaxStrays

\* The temporary names of instance p for target t.
TempsOf(t, p) == {Temp(t, p, k) : k \in 1..MaxCount}

\* What an instance has in hand, and what its temporary file holds.
Writer(p) ==
    /\ pc[p] \in {"mkdir", "encode"} => job[p] = "save"
    /\ pc[p] \in {"read", "recover", "refresh", "compare", "loaded"} => job[p] = "load"
    /\ pc[p] \in {"mkdir", "capture", "encode"} \cup Writing /\ job[p] = "save" =>
         held[p] \in Versions
    /\ pc[p] \in Writing => /\ text[p] \in Texts
                            /\ target[p] = Main => job[p] = "save" /\ text[p] \in Versions
    /\ pc[p] \in Holding => /\ temp[p] \in TempsOf(target[p], p)
                            /\ fs[temp[p]] # Absent /\ fs[temp[p]].text = text[p]
    /\ pc[p] = "create" /\ tries[p] > 0 => temp[p] \in TempsOf(target[p], p)
    /\ pc[p] \in {"sync", "close", "rename"} => fs[temp[p]].whole
    /\ pc[p] \in {"close", "rename"} => fs[temp[p]].synced

Writers == \A p \in Procs : Writer(p)

\* In no name space, present or past, is a layout or a backup half-written.
Durable == \A space \in past \cup {fs}, t \in Targets : space[t].whole /\ space[t].synced

\* Of the temporary names of an instance no more are taken than there were
\* power losses, kills and files that unlink left, the one in use excepted.
Taken(space, t, p) == {k \in 1..MaxCount : space[Temp(t, p, k)] # Absent}
InUse(t, p)        == IF pc[p] \in Holding /\ target[p] = t THEN 1 ELSE 0

Counting ==
    \A p \in Procs, t \in Targets :
        /\ \A space \in past : Cardinality(Taken(space, t, p)) <= crashes + strays + 1
        /\ Cardinality(Taken(fs, t, p)) <= crashes + strays + InUse(t, p)

\* The names one atomic_write has tried were taken; mkstemp tries none in vain.
Tried(p) ==
    pc[p] = "create" =>
        /\ tries[p] <= count[p]
        /\ Platform = "macos" => tries[p] = 0
        /\ (count[p] - tries[p] + 1)..count[p] \subseteq Taken(fs, target[p], p)

AllTried == \A p \in Procs : Tried(p)

\* A temporary file is only given up after a fault.
Blame == \A p \in Procs : pc[p] = "undo" => p \in blamed /\ faults > 0

StoreInv == Types /\ Writers /\ Durable /\ Counting /\ AllTried /\ Blame

-----------------------------------------------------------------------------
(* Names.                                                                   *)

\* A temporary name tells its target, its instance and its number.
LEMMA TempParts ==
    ASSUME NEW t \in Targets, NEW p, NEW k
    PROVE  LET n == Temp(t, p, k) IN
           Len(n) = 3 /\ Len(t) = 1 /\ n[1] = t[1] /\ n[2] = p /\ n[3] = k
<1>1. PICK a : t = <<a>>
  BY DEF Targets, Main, Bak
<1> DEFINE S == {a, p, k}
           n == <<a>> \o <<p, k>>
<1>2. <<a>> \in Seq(S) /\ <<p, k>> \in Seq(S) /\ Len(<<a>>) = 1 /\ Len(<<p, k>>) = 2
  OBVIOUS
<1>3. Len(n) = 3 /\ \A i \in 1..3 : n[i] = IF i <= 1 THEN <<a>>[i] ELSE <<p, k>>[i - 1]
  BY <1>2, ConcatProperties
<1>4. n[1] = a /\ n[2] = p /\ n[3] = k
  BY <1>3
<1> QED BY <1>1, <1>3, <1>4 DEF Temp

LEMMA TempNames ==
    /\ Main # Bak
    /\ \A t, u \in Targets : \A p, k : Temp(t, p, k) # u
    /\ \A t, u \in Targets : \A p, q, j, k : Temp(t, p, j) = Temp(u, q, k) => t = u /\ p = q /\ j = k
<1>1. Main # Bak
  BY DEF Main, Bak
<1>2. \A t, u \in Targets : \A p, k : Temp(t, p, k) # u
  <2> SUFFICES ASSUME NEW t \in Targets, NEW u \in Targets, NEW p, NEW k
               PROVE  Temp(t, p, k) # u
    OBVIOUS
  <2>1. Len(Temp(t, p, k)) = 3 /\ Len(u) = 1
    BY TempParts
  <2> QED BY <2>1
<1>3. ASSUME NEW t \in Targets, NEW u \in Targets, NEW p, NEW q, NEW j, NEW k,
             Temp(t, p, j) = Temp(u, q, k)
      PROVE  t = u /\ p = q /\ j = k
  <2>1. t[1] = u[1] /\ p = q /\ j = k
    BY <1>3, TempParts
  <2> QED BY <2>1 DEF Targets, Main, Bak
<1> QED BY <1>1, <1>2, <1>3

\* Every temporary name belongs to one instance and one target.
LEMMA TempOwned ==
    /\ Names = Targets \cup Temps /\ Main \in Names /\ Bak \in Names
    /\ \A t \in Targets, p \in Procs : TempsOf(t, p) \subseteq Temps
    /\ \A t, u \in Targets, p, q \in Procs : t # u \/ p # q => TempsOf(t, p) \cap TempsOf(u, q) = {}
    /\ \A n \in Temps : n \notin Targets /\ \E t \in Targets, p \in Procs : n \in TempsOf(t, p)
<1>1. Names = Targets \cup Temps /\ Main \in Names /\ Bak \in Names
  BY DEF Names, Targets
<1>2. \A t \in Targets, p \in Procs : TempsOf(t, p) \subseteq Temps
  BY DEF Temps, TempsOf
<1>3. \A t, u \in Targets, p, q \in Procs : t # u \/ p # q => TempsOf(t, p) \cap TempsOf(u, q) = {}
  BY TempNames DEF TempsOf
<1>4. \A n \in Temps : n \notin Targets /\ \E t \in Targets, p \in Procs : n \in TempsOf(t, p)
  BY TempNames DEF Temps, TempsOf
<1> QED BY <1>1, <1>2, <1>3, <1>4

-----------------------------------------------------------------------------
(* Settings and files.                                                      *)

LEMMA SettingTypes ==
    ASSUME setting \in Settings
    PROVE  /\ MaxVersion \in Nat /\ MaxCount \in Nat /\ MaxFaults \in Nat
           /\ MaxCrashes \in Nat /\ MaxEdits \in Nat /\ MaxStrays \in Nat
           /\ Platform \in {"linux", "macos", "windows"}
BY StoreAssumption DEF MaxVersion, MaxCount, MaxFaults, MaxCrashes, MaxStrays, MaxEdits, Platform

\* A step never changes the setting, and all that is made of it.
LEMMA SettingKept ==
    ASSUME UNCHANGED setting
    PROVE  /\ Procs' = Procs /\ Platform' = Platform /\ Names' = Names /\ Temps' = Temps
           /\ Versions' = Versions /\ Texts' = Texts /\ Files' = Files
           /\ MaxCount' = MaxCount /\ MaxFaults' = MaxFaults /\ MaxCrashes' = MaxCrashes
           /\ MaxEdits' = MaxEdits /\ MaxVersion' = MaxVersion /\ EditsAnytime' = EditsAnytime
           /\ MaxStrays' = MaxStrays /\ Steps' = Steps
<1>1. /\ Procs' = Procs /\ Platform' = Platform /\ MaxCount' = MaxCount
      /\ MaxFaults' = MaxFaults /\ MaxCrashes' = MaxCrashes /\ MaxEdits' = MaxEdits
      /\ MaxVersion' = MaxVersion /\ EditsAnytime' = EditsAnytime /\ MaxStrays' = MaxStrays
  BY DEF Procs, Platform, MaxCount, MaxFaults, MaxCrashes, MaxStrays, MaxEdits, MaxVersion, EditsAnytime
<1>2. Temps' = Temps /\ Versions' = Versions
  BY <1>1 DEF Temps, Versions
<1>3. Names' = Names /\ Texts' = Texts
  BY <1>2 DEF Names, Texts
<1>4. Files' = Files
  BY <1>3 DEF Files
<1> QED BY <1>1, <1>2, <1>3, <1>4 DEF Steps

LEMMA TextsAreNumbers ==
    ASSUME setting \in Settings
    PROVE  Versions \subseteq Nat /\ 0 \in Versions /\ Bad \notin Versions /\ Nothing \notin Texts
BY SettingTypes DEF Versions, Texts, Bad, Nothing

LEMMA FileTypes ==
    ASSUME setting \in Settings
    PROVE  /\ Absent.text = Nothing /\ Absent.whole /\ Absent.synced
           /\ \A f \in Files \ {Absent} :
                f.text \in Texts /\ f.whole \in BOOLEAN /\ f.synced \in BOOLEAN /\ Content(f) \in Texts
           /\ \A t \in Texts, w, s \in BOOLEAN :
                LET f == [text |-> t, whole |-> w, synced |-> s] IN f \in Files \ {Absent}
           /\ \A f \in Files : Parses(f) <=> f # Absent /\ f.whole /\ f.text \in Versions
           /\ \A t \in Texts : Stored(t) \in Files \ {Absent}
<1>1. Absent.text = Nothing /\ Absent.whole /\ Absent.synced
  BY DEF Absent
<1>2. \A f \in Files \ {Absent} :
         f.text \in Texts /\ f.whole \in BOOLEAN /\ f.synced \in BOOLEAN
  BY DEF Files
<1>3. \A f \in Files \ {Absent} : Content(f) \in Texts
  BY <1>2 DEF Content, Texts
<1>4. ASSUME NEW t \in Texts, NEW w \in BOOLEAN, NEW s \in BOOLEAN
      PROVE  [text |-> t, whole |-> w, synced |-> s] \in Files \ {Absent}
  <2>1. [text |-> t, whole |-> w, synced |-> s].text # Absent.text
    BY <1>1, TextsAreNumbers
  <2> QED BY <2>1 DEF Files
<1>5. ASSUME NEW f \in Files
      PROVE  Parses(f) <=> f # Absent /\ f.whole /\ f.text \in Versions
  BY <1>1, <1>2, TextsAreNumbers DEF Parses, Content, Texts
<1>6. \A t \in Texts : Stored(t) \in Files \ {Absent}
  BY <1>4 DEF Stored
<1> QED BY <1>1, <1>2, <1>3, <1>4, <1>5, <1>6

-----------------------------------------------------------------------------
(* The steps of an instance.                                                *)

Act(p) ==
    \/ BeginLoad(p) \/ Read(p) \/ Recover(p) \/ Refresh(p) \/ Compare(p)
    \/ BeginSave(p) \/ MakeDirectory(p)
    \/ Capture(p) \/ Encode(p) \/ Loaded(p)
    \/ Create(p) \/ CreateFails(p) \/ Write(p) \/ Sync(p) \/ Close(p)
    \/ Replace(p) \/ ReplaceFails(p) \/ Undo(p)

\* The state of instance q that is its own.
Own(q) == <<pc[q], job[q], target[q], text[q], temp[q], tries[q], count[q], held[q]>>

\* A step of an instance does not touch another's state.
LEMMA OthersAreKept ==
    ASSUME Types, NEW p \in Procs, Act(p), NEW q \in Procs, q # p
    PROVE  Own(q)' = Own(q) /\ result'[q] = result[q] /\ (q \in blamed' <=> q \in blamed)
<1> USE DEF Types, Own, Step, Begin, Finish, Safe, Fail, Stray, Ended, StartWrite, disk, proc, bounds
<1>1. CASE BeginLoad(p)
  BY <1>1 DEF BeginLoad
<1>2. CASE Read(p)
  BY <1>2 DEF Read
<1>3. CASE Refresh(p)
  BY <1>3 DEF Refresh
<1>17. CASE Recover(p)
  BY <1>17 DEF Recover, Recovered
<1>18. CASE Compare(p)
  BY <1>18 DEF Compare
<1>4. CASE BeginSave(p)
  BY <1>4 DEF BeginSave
<1>5. CASE MakeDirectory(p)
  BY <1>5 DEF MakeDirectory
<1>6. CASE Capture(p)
  BY <1>6 DEF Capture
<1>7. CASE Encode(p)
  BY <1>7 DEF Encode
<1>8. CASE Loaded(p)
  BY <1>8 DEF Loaded
<1>9. CASE Create(p)
  BY <1>9 DEF Create
<1>10. CASE CreateFails(p)
  BY <1>10 DEF CreateFails
<1>11. CASE Write(p)
  BY <1>11 DEF Write
<1>12. CASE Sync(p)
  BY <1>12 DEF Sync
<1>13. CASE Close(p)
  BY <1>13 DEF Close
<1>14. CASE Replace(p)
  BY <1>14 DEF Replace
<1>15. CASE ReplaceFails(p)
  BY <1>15 DEF ReplaceFails
<1>16. CASE Undo(p)
  BY <1>16 DEF Undo
<1> QED BY <1>1, <1>2, <1>3, <1>4, <1>5, <1>6, <1>7, <1>8, <1>9, <1>10, <1>11,
           <1>12, <1>13, <1>14, <1>15, <1>16, <1>17, <1>18 DEF Act

\* Of the disk a step of an instance changes one temporary name of its own, or
\* it replaces its target.
TempChange(p) ==
    \E n \in TempsOf(target[p], p), f \in Files :
        fs' = [fs EXCEPT ![n] = f] /\ past' \subseteq past \cup {fs'}

LEMMA JournalIsRecent ==
    ASSUME NEW new, Journal(new)
    PROVE  fs' = new /\ past' \subseteq past \cup {fs'}
BY DEF Journal, Recent

LEMMA CreateChanges ==
    ASSUME Types, Writers, NEW p \in Procs, Create(p)
    PROVE  \E n \in TempsOf(target[p], p) :
             /\ temp' = [temp EXCEPT ![p] = n]
             /\ count' = [count EXCEPT ![p] = @ + 1] /\ tries' = [tries EXCEPT ![p] = @ + 1]
             /\ Platform # "macos" => n = Temp(target[p], p, count[p] + 1)
             /\ Platform = "macos" => fs[n] = Absent
             /\ \/ fs[n] # Absent /\ UNCHANGED <<fs, past, pc>>
                \/ /\ fs[n] = Absent
                   /\ fs' = [fs EXCEPT ![n] = [text |-> text[p], whole |-> FALSE, synced |-> FALSE]]
                   /\ past' \subseteq past \cup {fs'}
                   /\ pc' = [pc EXCEPT ![p] = "write"]
<1>1. PICK n \in Candidates(p) :
        /\ temp' = [temp EXCEPT ![p] = n]
        /\ count' = [count EXCEPT ![p] = @ + 1] /\ tries' = [tries EXCEPT ![p] = @ + 1]
        /\ IF Exists(n) THEN UNCHANGED <<disk, pc>>
           ELSE /\ Journal(Place(n, [text |-> text[p], whole |-> FALSE, synced |-> FALSE]))
                /\ Step(p, "write")
  BY DEF Create
<1>2. count[p] + 1 \in 1..MaxCount
  BY SettingTypes DEF Create, Types
<1>3. /\ n \in TempsOf(target[p], p)
      /\ Platform # "macos" => n = Temp(target[p], p, count[p] + 1)
      /\ Platform = "macos" => fs[n] = Absent
  BY <1>2 DEF Candidates, TempsOf, Exists
<1>4. CASE fs[n] # Absent
  BY <1>1, <1>3, <1>4 DEF Exists, disk
<1>5. CASE fs[n] = Absent
  BY <1>1, <1>3, <1>5, JournalIsRecent DEF Exists, Place, Step
<1> QED BY <1>4, <1>5

LEMMA DiskSteps ==
    ASSUME Types, Writers, NEW p \in Procs, Act(p)
    PROVE  UNCHANGED <<fs, past>> \/ TempChange(p) \/ Replace(p)
<1>1. target[p] \in Targets /\ Absent \in Files
  BY DEF Types, Files
<1>2. CASE Create(p)
  <2>1. text[p] \in Texts
    BY <1>2 DEF Create, At, Writers, Writer, Writing
  <2>2. [text |-> text[p], whole |-> FALSE, synced |-> FALSE] \in Files
    BY <2>1, FileTypes DEF Types
  <2>3. PICK n \in TempsOf(target[p], p) :
          \/ UNCHANGED <<fs, past, pc>>
          \/ /\ fs' = [fs EXCEPT ![n] = [text |-> text[p], whole |-> FALSE, synced |-> FALSE]]
             /\ past' \subseteq past \cup {fs'}
    BY <1>2, CreateChanges
  <2> QED BY <2>2, <2>3 DEF TempChange
<1>3. CASE CreateFails(p)
  <2>1. CASE UNCHANGED disk
    BY <2>1 DEF disk
  <2>2. CASE tries[p] = MaxAttempts /\ Journal(Place(temp[p], Absent))
    <3>1. temp[p] \in TempsOf(target[p], p)
      BY <1>3, <2>2, StoreAssumption DEF CreateFails, At, Writers, Writer
    <3> QED BY <1>1, <2>2, <3>1, JournalIsRecent DEF Place, TempChange
  <2> QED BY <1>3, <2>1, <2>2 DEF CreateFails
<1>4. ASSUME pc[p] \in Holding PROVE temp[p] \in TempsOf(target[p], p) /\ fs[temp[p]] \in Files \ {Absent}
  <2>1. temp[p] \in TempsOf(target[p], p) /\ fs[temp[p]] # Absent
    BY <1>4 DEF Writers, Writer
  <2>2. fs[temp[p]] \in Files
    BY DEF Types
  <2> QED BY <2>1, <2>2
<1>5. CASE Write(p)
  <2>1. [fs[temp[p]] EXCEPT !.whole = TRUE] \in Files
    BY <1>5, <1>4 DEF Write, At, Holding, Files
  <2> QED BY <1>5, <1>4, <2>1 DEF Write, At, Holding, Place, TempChange
<1>6. CASE Sync(p)
  <2>1. [fs[temp[p]] EXCEPT !.synced = TRUE] \in Files
    BY <1>6, <1>4 DEF Sync, At, Holding, Files
  <2> QED BY <1>6, <1>4, <2>1 DEF Sync, At, Holding, Place, TempChange
<1>7. CASE Undo(p)
  <2>1. CASE Journal(Place(temp[p], Absent))
    BY <1>1, <1>7, <2>1, <1>4, JournalIsRecent DEF Undo, At, Holding, Place, TempChange
  <2> QED BY <1>7, <2>1 DEF Undo, disk
<1> QED BY <1>2, <1>3, <1>5, <1>6, <1>7
        DEF Act, disk, BeginLoad, Read, Recover, Refresh, Compare, BeginSave, MakeDirectory, Capture,
            Encode, Loaded,
            Close, ReplaceFails

-----------------------------------------------------------------------------
(* Types.                                                                   *)

LEMMA InitTypes == Init => Types
<1> SUFFICES ASSUME Init PROVE Types
  OBVIOUS
<1>1. setting \in Settings
  BY DEF Init
<1>2. Stored(0) \in Files /\ Absent \in Files
  BY <1>1, FileTypes, TextsAreNumbers DEF Files, Texts
<1>3. fs \in [Names -> Files]
  BY <1>2 DEF Init
<1>4. Main \in Names /\ Main \in Targets
  BY TempOwned DEF Targets
<1> QED BY <1>1, <1>3, <1>4, SettingTypes, TextsAreNumbers DEF Init, Types, Steps, Results

\* Replace(p) moves a file to the target.
LEMMA ReplaceChanges ==
    ASSUME Types, Writers, NEW p \in Procs, Replace(p)
    PROVE  /\ temp[p] \in TempsOf(target[p], p) /\ fs[temp[p]] \in Files \ {Absent}
           /\ fs[temp[p]].text = text[p] /\ fs[temp[p]].whole /\ fs[temp[p]].synced
           /\ fs' = [fs EXCEPT ![target[p]] = fs[temp[p]], ![temp[p]] = Absent]
           /\ fs' \in [Names -> Files] /\ past' \subseteq past \cup {fs'}
<1>1. /\ temp[p] \in TempsOf(target[p], p) /\ fs[temp[p]] # Absent
      /\ fs[temp[p]].text = text[p] /\ fs[temp[p]].whole /\ fs[temp[p]].synced
  BY DEF Replace, At, Writers, Writer, Holding
<1>2. fs[temp[p]] \in Files /\ Absent \in Files
  BY DEF Types, Files
<1>3. fs' = [fs EXCEPT ![target[p]] = fs[temp[p]], ![temp[p]] = Absent]
  BY DEF Replace, Rename
<1>4. fs' \in [Names -> Files]
  BY <1>2, <1>3 DEF Types
<1>5. past' \subseteq past \cup {fs'}
  BY DEF Replace, Recent
<1> QED BY <1>1, <1>2, <1>3, <1>4, <1>5

LEMMA ActKeepsTypes ==
    ASSUME Types, Writers, NEW p \in Procs, Act(p), UNCHANGED setting
    PROVE  Types'
<1>1. fs' \in [Names -> Files] /\ past' \subseteq [Names -> Files]
  <2>1. CASE TempChange(p)
    <3>1. PICK n \in TempsOf(target[p], p), f \in Files :
            fs' = [fs EXCEPT ![n] = f] /\ past' \subseteq past \cup {fs'}
      BY <2>1 DEF TempChange
    <3>2. fs' \in [Names -> Files]
      BY <3>1 DEF Types
    <3> QED BY <3>1, <3>2 DEF Types
  <2>2. CASE Replace(p)
    BY <2>2, ReplaceChanges DEF Types
  <2> QED BY <2>1, <2>2, DiskSteps DEF Types
<1>2. /\ Main \in Names /\ Bak \in Names /\ \A t \in Targets : TempsOf(t, p) \subseteq Names
      /\ Main \in Targets /\ Bak \in Targets
  BY TempOwned DEF Targets
<1>3. \A n \in {Main, Bak} : Exists(n) => Content(fs[n]) \in Texts
  BY <1>2, FileTypes DEF Exists, Types
<1>4. \A n \in {Main, Bak} : Parses(fs[n]) => Content(fs[n]) \in Texts
  BY DEF Parses, Texts
<1>5. version \in Nat /\ MaxVersion \in Nat /\ MaxFaults \in Nat /\ faults \in 0..MaxFaults
      /\ MaxStrays \in Nat /\ strays \in 0..MaxStrays
  BY SettingTypes DEF Types, Versions
<1>6. /\ pc' \in [Procs -> Steps] /\ job' \in [Procs -> {"load", "save"}]
      /\ target' \in [Procs -> Targets] /\ text' \in [Procs -> Texts \cup {Nothing}]
      /\ temp' \in [Procs -> Names] /\ tries' \in [Procs -> Nat]
      /\ count' \in [Procs -> 0..MaxCount]
      /\ held' \in [Procs -> Texts \cup {Nothing}] /\ result' \in [Procs -> Results]
      /\ version' \in Versions
      /\ faults' \in 0..MaxFaults /\ crashes' = crashes /\ edits' = edits
      /\ strays' \in 0..MaxStrays
  <2> USE DEF Types, Steps, Results, Step, Begin, Finish, Safe, Fail, Stray, Ended, StartWrite, AfterCapture,
              disk, proc, bounds
  <2>1. CASE BeginLoad(p)
    BY <2>1 DEF BeginLoad
  <2>2. CASE Read(p)
    <3>1. held' \in [Procs -> Texts \cup {Nothing}]
      BY <2>2, <1>3, <1>4 DEF Read
    <3> QED BY <2>2, <3>1, <1>5 DEF Read
  <2>3. CASE Refresh(p)
    <3>1. Content(fs[Main]) \in Texts \cup {Nothing}
      BY <1>2, FileTypes DEF Content, Absent
    <3> QED BY <2>3, <3>1, <1>5 DEF Refresh
  <2>17. CASE Recover(p)
    BY <2>17, <1>4, <1>5 DEF Recover, Recovered
  <2>18. CASE Compare(p)
    BY <2>18, <1>5 DEF Compare
  <2>4. CASE BeginSave(p)
    <3>1. version + 1 \in Versions /\ version + 1 \in Texts
      BY <2>4, <1>5 DEF BeginSave, Versions, Texts
    <3> QED BY <2>4, <3>1 DEF BeginSave
  <2>5. CASE MakeDirectory(p)
    BY <2>5, <1>5 DEF MakeDirectory
  <2>6. CASE Capture(p)
    BY <2>6, <1>2, <1>3, <1>5 DEF Capture
  <2>7. CASE Encode(p)
    BY <2>7, <1>2, <1>5 DEF Encode
  <2>8. CASE Loaded(p)
    BY <2>8 DEF Loaded
  <2>9. CASE Create(p)
    <3>1. count[p] + 1 \in 0..MaxCount
      BY <2>9, SettingTypes DEF Create
    <3>2. PICK n \in TempsOf(target[p], p) :
            /\ temp' = [temp EXCEPT ![p] = n]
            /\ count' = [count EXCEPT ![p] = @ + 1] /\ tries' = [tries EXCEPT ![p] = @ + 1]
            /\ UNCHANGED pc \/ pc' = [pc EXCEPT ![p] = "write"]
      BY <2>9, CreateChanges
    <3>3. n \in Names
      BY <1>2
    <3>4. UNCHANGED <<job, target, text, held, result, version, bounds>>
      BY <2>9 DEF Create
    <3> QED BY <3>1, <3>2, <3>3, <3>4
  <2>10. CASE CreateFails(p)
    BY <2>10, <1>5 DEF CreateFails
  <2>11. CASE Write(p)
    BY <2>11, <1>5 DEF Write
  <2>12. CASE Sync(p)
    BY <2>12, <1>5 DEF Sync
  <2>13. CASE Close(p)
    BY <2>13, <1>5 DEF Close
  <2>14. CASE Replace(p)
    BY <2>14 DEF Replace
  <2>15. CASE ReplaceFails(p)
    BY <2>15, <1>5 DEF ReplaceFails
  <2>16. CASE Undo(p)
    BY <2>16, <1>5 DEF Undo
  <2> QED BY <2>1, <2>2, <2>3, <2>4, <2>5, <2>6, <2>7, <2>8, <2>9, <2>10, <2>11,
             <2>12, <2>13, <2>14, <2>15, <2>16, <2>17, <2>18 DEF Act
<1> QED BY <1>1, <1>6, SettingKept DEF Types

-----------------------------------------------------------------------------
(* What the instances have in hand.                                         *)

\* A step of an instance leaves the temporary files of the others alone.
LEMMA FilesOfOthers ==
    ASSUME Types, Writers, NEW p \in Procs, Act(p), NEW q \in Procs, q # p,
           NEW t \in Targets, NEW n \in TempsOf(t, q)
    PROVE  fs'[n] = fs[n]
<1>1. n \in Names /\ n \notin Targets /\ target[p] \in Targets
  BY TempOwned DEF Types
<1>2. n \notin TempsOf(target[p], p)
  BY <1>1, TempOwned
<1>3. CASE TempChange(p)
  BY <1>1, <1>2, <1>3 DEF TempChange, Types
<1>4. CASE Replace(p)
  <2>1. /\ temp[p] \in TempsOf(target[p], p)
        /\ fs' = [fs EXCEPT ![target[p]] = fs[temp[p]], ![temp[p]] = Absent]
    BY <1>4, ReplaceChanges
  <2> QED BY <1>1, <1>2, <2>1 DEF Types
<1> QED BY <1>3, <1>4, DiskSteps

LEMMA OthersWrite ==
    ASSUME Types, Writers, NEW p \in Procs, Act(p), UNCHANGED setting,
           NEW q \in Procs, q # p
    PROVE  Writer(q)'
<1>1. Writer(q) /\ target[q] \in Targets
  BY DEF Writers, Types
<1>2. /\ pc'[q] = pc[q] /\ job'[q] = job[q] /\ target'[q] = target[q] /\ text'[q] = text[q]
      /\ temp'[q] = temp[q] /\ tries'[q] = tries[q] /\ held'[q] = held[q]
  BY OthersAreKept DEF Own
<1>3. TempsOf(target[q], q)' = TempsOf(target[q], q) /\ Versions' = Versions /\ Texts' = Texts
  BY <1>2, SettingKept DEF TempsOf
<1>4. pc[q] \in Holding => fs'[temp[q]] = fs[temp[q]]
  <2>1. pc[q] \in Holding => temp[q] \in TempsOf(target[q], q)
    BY <1>1 DEF Writer
  <2> QED BY <1>1, <2>1, FilesOfOthers
<1> QED BY <1>1, <1>2, <1>3, <1>4 DEF Writer, Holding, Writing

LEMMA ActKeepsWriter ==
    ASSUME Types, Writers, Durable, NEW p \in Procs, Act(p), UNCHANGED setting
    PROVE  Writer(p)'
<1>1. Writer(p) /\ target[p] \in Targets /\ temp[p] \in Names
  BY DEF Writers, Types
<1>2. /\ Versions' = Versions /\ Texts' = Texts
      /\ \A t \in Targets : {Temp(t, p, k) : k \in 1..MaxCount'} = TempsOf(t, p)
      /\ Main \in Names /\ Main \in Targets /\ Bak \in Targets /\ Main # Bak
  BY SettingKept, TempOwned, TempNames DEF TempsOf, Targets
<1>3. Exists(Main) => Content(fs[Main]) \in Texts
  BY <1>2, FileTypes DEF Exists, Types
<1> USE DEF Writer, Writing, Holding, At, Step, Begin, Finish, Safe, Fail, Ended, StartWrite,
            AfterCapture, disk, proc, bounds
<1>4. CASE BeginLoad(p)
  BY <1>1, <1>4 DEF BeginLoad, Types
<1>5. CASE Read(p)
  BY <1>1, <1>2, <1>5 DEF Read, Types
<1>6. CASE Refresh(p)
  BY <1>1, <1>2, <1>6 DEF Refresh, Types
<1>20. CASE Recover(p)
  BY <1>1, <1>2, <1>20 DEF Recover, Recovered, Types
<1>21. CASE Compare(p)
  BY <1>1, <1>2, <1>21 DEF Compare, Types
<1>7. CASE BeginSave(p)
  <2>1. version + 1 \in Versions
    BY <1>7, SettingTypes DEF BeginSave, Versions, Types
  <2> QED BY <1>1, <1>2, <1>7, <2>1 DEF BeginSave, Types
<1>8. CASE MakeDirectory(p)
  BY <1>1, <1>2, <1>8 DEF MakeDirectory, Types
<1>9. CASE Capture(p)
  BY <1>1, <1>2, <1>3, <1>9 DEF Capture, Types
<1>10. CASE Encode(p)
  BY <1>1, <1>2, <1>10 DEF Encode, Types, Texts
<1>11. CASE Loaded(p)
  BY <1>1, <1>11 DEF Loaded, Types
<1>12. CASE Create(p)
  <2>1. PICK n \in TempsOf(target[p], p) :
          /\ temp' = [temp EXCEPT ![p] = n]
          /\ \/ fs[n] # Absent /\ UNCHANGED <<fs, pc>>
             \/ /\ fs' = [fs EXCEPT ![n] = [text |-> text[p], whole |-> FALSE, synced |-> FALSE]]
                /\ pc' = [pc EXCEPT ![p] = "write"]
    BY <1>12, CreateChanges
  <2>2. UNCHANGED <<job, target, text, held>> /\ pc[p] = "create"
    BY <1>12 DEF Create
  <2>3. temp'[p] = n /\ {Temp(target'[p], p, k) : k \in 1..MaxCount'} = TempsOf(target[p], p)
    BY <1>1, <1>2, <2>1, <2>2 DEF Types
  <2>4. n \in Names
    BY <1>1, TempOwned
  <2>5. CASE UNCHANGED <<fs, pc>>
    BY <1>1, <1>2, <2>2, <2>3, <2>5 DEF TempsOf
  <2>6. CASE /\ fs' = [fs EXCEPT ![n] = [text |-> text[p], whole |-> FALSE, synced |-> FALSE]]
             /\ pc' = [pc EXCEPT ![p] = "write"]
    <3>1. fs'[n] = [text |-> text[p], whole |-> FALSE, synced |-> FALSE] /\ pc'[p] = "write"
      BY <2>4, <2>6 DEF Types
    <3>2. fs'[n] # Absent /\ fs'[n].text = text[p]
      BY <1>1, <2>2, <3>1, FileTypes DEF Types
    <3> QED BY <1>1, <1>2, <2>2, <2>3, <3>1, <3>2 DEF TempsOf
  <2> QED BY <2>1, <2>5, <2>6
<1>13. CASE CreateFails(p)
  BY <1>1, <1>2, <1>13 DEF CreateFails, Types
<1>14. CASE Write(p)
  <2>1. fs[temp[p]] \in Files \ {Absent}
    BY <1>1, <1>14 DEF Write, Types
  <2>2. [fs[temp[p]] EXCEPT !.whole = TRUE] \in Files \ {Absent}
    BY <2>1, FileTypes DEF Types, Files
  <2>3. UNCHANGED <<job, target, text, temp, held>> /\ temp[p] \in TempsOf(target[p], p)
    BY <1>1, <1>14 DEF Write
  <2>4. TempsOf(target[p], p)' = TempsOf(target[p], p)
    BY <1>1, <1>2, <2>3 DEF TempsOf
  <2>5. CASE pc' = [pc EXCEPT ![p] = "undo"] /\ UNCHANGED fs
    BY <1>1, <1>2, <1>14, <2>3, <2>4, <2>5 DEF Write, Types
  <2>6. CASE /\ pc' = [pc EXCEPT ![p] = "sync"]
             /\ fs' = [fs EXCEPT ![temp[p]] = [fs[temp[p]] EXCEPT !.whole = TRUE]]
    <3>1. pc'[p] = "sync" /\ fs'[temp[p]] = [fs[temp[p]] EXCEPT !.whole = TRUE]
      BY <1>1, <2>6 DEF Types
    <3>2. /\ fs'[temp[p]] # Absent /\ fs'[temp[p]].text = fs[temp[p]].text
          /\ fs'[temp[p]].whole
      BY <2>1, <2>2, <3>1 DEF Files
    <3> QED BY <1>1, <1>2, <1>14, <2>3, <2>4, <3>1, <3>2 DEF Write
  <2> QED BY <1>14, <2>5, <2>6 DEF Write, Place
<1>15. CASE Sync(p)
  <2>1. fs[temp[p]] \in Files \ {Absent}
    BY <1>1, <1>15 DEF Sync, Types
  <2>2. [fs[temp[p]] EXCEPT !.synced = TRUE] \in Files \ {Absent}
    BY <2>1, FileTypes DEF Types, Files
  <2>3. UNCHANGED <<job, target, text, temp, held>> /\ temp[p] \in TempsOf(target[p], p)
    BY <1>1, <1>15 DEF Sync
  <2>4. TempsOf(target[p], p)' = TempsOf(target[p], p)
    BY <1>1, <1>2, <2>3 DEF TempsOf
  <2>5. CASE pc' = [pc EXCEPT ![p] = "undo"] /\ UNCHANGED fs
    BY <1>1, <1>2, <1>15, <2>3, <2>4, <2>5 DEF Sync, Types
  <2>6. CASE /\ pc' = [pc EXCEPT ![p] = "close"]
             /\ fs' = [fs EXCEPT ![temp[p]] = [fs[temp[p]] EXCEPT !.synced = TRUE]]
    <3>1. pc'[p] = "close" /\ fs'[temp[p]] = [fs[temp[p]] EXCEPT !.synced = TRUE]
      BY <1>1, <2>6 DEF Types
    <3>2. /\ fs'[temp[p]] # Absent /\ fs'[temp[p]].text = fs[temp[p]].text
          /\ fs'[temp[p]].synced /\ fs'[temp[p]].whole = fs[temp[p]].whole
      BY <2>1, <2>2, <3>1 DEF Files
    <3> QED BY <1>1, <1>2, <1>15, <2>3, <2>4, <3>1, <3>2 DEF Sync
  <2> QED BY <1>15, <2>5, <2>6 DEF Sync, Place
<1>16. CASE Close(p)
  <2>1. UNCHANGED <<job, target, text, temp, held>>
    BY <1>16 DEF Close
  <2>2. TempsOf(target[p], p)' = TempsOf(target[p], p)
    BY <1>1, <1>2, <2>1 DEF TempsOf
  <2> QED BY <1>1, <1>2, <1>16, <2>1, <2>2 DEF Close, Types
<1>17. CASE Replace(p)
  BY <1>1, <1>2, <1>17 DEF Replace, Types
<1>18. CASE ReplaceFails(p)
  BY <1>1, <1>2, <1>18 DEF ReplaceFails, Types, TempsOf
<1>19. CASE Undo(p)
  BY <1>1, <1>2, <1>19 DEF Undo, Types
<1> QED BY <1>4, <1>5, <1>6, <1>7, <1>8, <1>9, <1>10, <1>11, <1>12, <1>13, <1>14, <1>15,
           <1>16, <1>17, <1>18, <1>19, <1>20, <1>21 DEF Act

-----------------------------------------------------------------------------
(* The surroundings.                                                        *)

World == Flush \/ Spoil \/ PowerLoss \/ \E p \in Procs : Killed(p)

\* An instance that is killed loses what it has in hand; the files stay.
LEMMA KilledChanges ==
    ASSUME Types, NEW p \in Procs, Killed(p)
    PROVE  /\ UNCHANGED <<fs, past, dirs, job, target, text, version, before, blamed>>
           /\ UNCHANGED <<faults, crashes, edits>>
           /\ pc' = [pc EXCEPT ![p] = "idle"] /\ result' = [result EXCEPT ![p] = "none"]
           /\ held' = [held EXCEPT ![p] = Nothing] /\ count' = [count EXCEPT ![p] = 0]
           /\ temp' = [temp EXCEPT ![p] = Main] /\ tries' = [tries EXCEPT ![p] = 0]
           /\ strays' = strays + 1 /\ strays < MaxStrays /\ strays \in Nat
           /\ kept' = kept \cup (IF pc[p] \in Holding THEN {temp[p]} ELSE {})
BY SettingTypes DEF Killed, Stray, disk, Types

\* After a power loss the names lead to what they led to in some earlier name
\* space; only data that was not on disk may be torn.
LEMMA LossChanges ==
    ASSUME Types, PowerLoss, UNCHANGED setting
    PROVE  \E space \in past :
             /\ space \in [Names -> Files] /\ fs' \in [Names -> Files] /\ past' = {fs'}
             /\ \A n \in Names :
                  /\ fs'[n] = Absent <=> space[n] = Absent
                  /\ space[n] # Absent =>
                       /\ fs'[n].text = space[n].text /\ fs'[n].synced
                       /\ space[n].whole /\ space[n].synced => fs'[n].whole
<1>1. PICK space \in past, torn \in SUBSET {n \in Names : fs[n] # Absent /\ ~fs[n].synced} :
        fs' = [n \in Names |->
                IF space[n] = Absent THEN Absent
                ELSE [text |-> space[n].text, synced |-> TRUE,
                      whole |-> space[n].whole /\ (space[n].synced \/ n \notin torn)]]
  BY DEF PowerLoss
<1>2. space \in [Names -> Files] /\ past' = {fs'} /\ Absent \in Files
  BY DEF PowerLoss, Types, Files
<1>3. ASSUME NEW n \in Names
      PROVE  /\ fs'[n] = Absent <=> space[n] = Absent
             /\ space[n] # Absent =>
                  /\ fs'[n].text = space[n].text /\ fs'[n].synced
                  /\ space[n].whole /\ space[n].synced => fs'[n].whole
             /\ fs'[n] \in Files
  <2>1. CASE space[n] = Absent
    BY <1>1, <1>2, <2>1
  <2>2. CASE space[n] # Absent
    <3>1. space[n] \in Files \ {Absent}
      BY <1>2, <2>2
    <3> DEFINE w == space[n].whole /\ (space[n].synced \/ n \notin torn)
    <3>2. fs'[n] = [text |-> space[n].text, synced |-> TRUE, whole |-> w]
      BY <1>1, <2>2
    <3>3. space[n].text \in Texts /\ w \in BOOLEAN
      BY <3>1, FileTypes DEF Types
    <3>4. [text |-> space[n].text, whole |-> w, synced |-> TRUE] \in Files \ {Absent}
      BY <3>3, FileTypes DEF Types
    <3>5. [text |-> space[n].text, synced |-> TRUE, whole |-> w]
              = [text |-> space[n].text, whole |-> w, synced |-> TRUE]
      OBVIOUS
    <3>6. fs'[n].text = space[n].text /\ fs'[n].synced /\ fs'[n].whole = w
      BY <3>2
    <3> QED BY <2>2, <3>2, <3>4, <3>5, <3>6
  <2> QED BY <2>1, <2>2
<1>4. fs' \in [Names -> Files]
  BY <1>1, <1>3
<1> QED BY <1>2, <1>3, <1>4

LEMMA SpoilChanges ==
    ASSUME Types, Spoil
    PROVE  /\ fs' = [fs EXCEPT ![Main] = Stored(Bad)] /\ past' \subseteq past \cup {fs'}
           /\ Stored(Bad) \in Files \ {Absent} /\ Stored(Bad).whole /\ Stored(Bad).synced
           /\ Stored(Bad).text = Bad /\ fs' \in [Names -> Files] /\ fs[Main] # Absent
<1>1. fs' = [fs EXCEPT ![Main] = Stored(Bad)] /\ past' \subseteq past \cup {fs'}
  BY JournalIsRecent DEF Spoil, Place
<1>2. Stored(Bad) \in Files \ {Absent}
  BY FileTypes DEF Types, Texts
<1>3. Stored(Bad).whole /\ Stored(Bad).synced /\ Stored(Bad).text = Bad
  BY DEF Stored
<1>4. fs' \in [Names -> Files]
  BY <1>1, <1>2 DEF Types
<1> QED BY <1>1, <1>2, <1>3, <1>4 DEF Spoil, Exists

LEMMA WorldKeepsTypes ==
    ASSUME Types, World, UNCHANGED setting
    PROVE  Types'
<1>1. MaxCrashes \in Nat /\ MaxEdits \in Nat /\ MaxCount \in Nat /\ Main \in Names
  BY SettingTypes, TempOwned DEF Types
<1>2. CASE Flush
  BY <1>2, SettingKept DEF Flush, Types, proc, bounds
<1>3. CASE Spoil
  <2>1. fs' \in [Names -> Files] /\ past' \subseteq [Names -> Files]
    BY <1>3, SpoilChanges DEF Types
  <2>2. UNCHANGED <<proc, version, faults, crashes, strays>> /\ edits' \in 0..MaxEdits
    BY <1>1, <1>3 DEF Spoil, Types
  <2> QED BY <2>1, <2>2, SettingKept DEF Types, proc
<1>4. CASE PowerLoss
  <2>1. fs' \in [Names -> Files] /\ past' \subseteq [Names -> Files]
    BY <1>4, LossChanges
  <2>2. /\ pc' = [p \in Procs |-> "idle"]    /\ result' = [p \in Procs |-> "none"]
        /\ held' = [p \in Procs |-> Nothing] /\ count' = [p \in Procs |-> 0]
        /\ temp' = [p \in Procs |-> Main]    /\ tries' = [p \in Procs |-> 0]
        /\ UNCHANGED <<job, target, text, version, faults, strays, edits>>
        /\ crashes' \in 0..MaxCrashes
    BY <1>1, <1>4 DEF PowerLoss, Types
  <2> QED BY <1>1, <2>1, <2>2, SettingKept DEF Types, Steps, Results
<1>5. ASSUME NEW p \in Procs, Killed(p) PROVE Types'
  <2>1. /\ pc' \in [Procs -> Steps] /\ result' \in [Procs -> Results]
        /\ held' \in [Procs -> Texts \cup {Nothing}] /\ count' \in [Procs -> 0..MaxCount]
        /\ temp' \in [Procs -> Names] /\ tries' \in [Procs -> Nat]
        /\ strays' \in 0..MaxStrays
    BY <1>1, <1>5, KilledChanges, SettingTypes DEF Types, Steps, Results
  <2> QED BY <1>5, <2>1, KilledChanges, SettingKept DEF Types
<1> QED BY <1>2, <1>3, <1>4, <1>5 DEF World

LEMMA WorldKeepsWriters ==
    ASSUME Types, Writers, World, UNCHANGED setting
    PROVE  Writers'
<1> SUFFICES ASSUME NEW p \in Procs PROVE Writer(p)'
  BY SettingKept DEF Writers
<1>1. Writer(p) /\ target[p] \in Targets /\ Main \in Targets
  BY DEF Writers, Types, Targets
<1>2. CASE PowerLoss
  BY <1>2 DEF PowerLoss, Writer, Writing, Holding
<1>3. CASE Flush \/ Spoil
  <2>1. UNCHANGED <<pc, job, target, text, temp, tries, held>>
    BY <1>3 DEF Flush, Spoil, proc
  <2>2. TempsOf(target[p], p)' = TempsOf(target[p], p) /\ Versions' = Versions /\ Texts' = Texts
    BY <2>1, SettingKept DEF TempsOf
  <2>3. \A n \in TempsOf(target[p], p) : fs'[n] = fs[n]
    <3>1. UNCHANGED fs \/ fs' = [fs EXCEPT ![Main] = Stored(Bad)]
      BY <1>3, SpoilChanges DEF Flush
    <3>2. \A n \in TempsOf(target[p], p) : n \in Names /\ n # Main
      BY <1>1, TempOwned
    <3> QED BY <3>1, <3>2 DEF Types
  <2> QED BY <1>1, <2>1, <2>2, <2>3 DEF Writer, Writing, Holding
<1>4. ASSUME NEW q \in Procs, Killed(q) PROVE Writer(p)'
  <2>1. CASE p = q
    <3>1. pc'[p] = "idle"
      BY <1>4, <2>1, KilledChanges DEF Types
    <3> QED BY <3>1 DEF Writer, Writing, Holding
  <2>2. CASE p # q
    <3>1. /\ pc'[p] = pc[p] /\ held'[p] = held[p] /\ temp'[p] = temp[p] /\ tries'[p] = tries[p]
          /\ UNCHANGED <<fs, job, target, text>>
      BY <1>4, <2>2, KilledChanges DEF Types
    <3>2. TempsOf(target[p], p)' = TempsOf(target[p], p) /\ Versions' = Versions /\ Texts' = Texts
      BY <3>1, SettingKept DEF TempsOf
    <3> QED BY <1>1, <3>1, <3>2 DEF Writer, Writing, Holding
  <2> QED BY <2>1, <2>2
<1> QED BY <1>2, <1>3, <1>4 DEF World

-----------------------------------------------------------------------------
(* Layout and backup are whole.                                             *)

LEMMA ActKeepsDurable ==
    ASSUME Types, Writers, Durable, NEW p \in Procs, Act(p)
    PROVE  Durable'
<1> SUFFICES ASSUME NEW t \in Targets
             PROVE  \A space \in past' \cup {fs'} : space[t].whole /\ space[t].synced
  BY DEF Durable
<1>1. t \in Names /\ target[p] \in Targets /\ \A n \in TempsOf(target[p], p) : n # t
  BY TempOwned DEF Types
<1>2. CASE UNCHANGED <<fs, past>>
  BY <1>2 DEF Durable
<1>3. CASE TempChange(p)
  <2>1. fs'[t] = fs[t] /\ past' \subseteq past \cup {fs'}
    BY <1>1, <1>3 DEF TempChange, Types
  <2> QED BY <2>1 DEF Durable
<1>4. CASE Replace(p)
  <2>1. /\ temp[p] \in TempsOf(target[p], p) /\ fs[temp[p]].whole /\ fs[temp[p]].synced
        /\ fs' = [fs EXCEPT ![target[p]] = fs[temp[p]], ![temp[p]] = Absent]
        /\ past' \subseteq past \cup {fs'}
    BY <1>4, ReplaceChanges
  <2>2. fs'[t] = fs[t] \/ fs'[t] = fs[temp[p]]
    BY <1>1, <2>1 DEF Types
  <2> QED BY <2>1, <2>2 DEF Durable
<1> QED BY <1>2, <1>3, <1>4, DiskSteps

LEMMA WorldKeepsDurable ==
    ASSUME Types, Durable, World, UNCHANGED setting
    PROVE  Durable'
<1> SUFFICES ASSUME NEW t \in Targets
             PROVE  \A space \in past' \cup {fs'} : space[t].whole /\ space[t].synced
  BY DEF Durable
<1>1. t \in Names
  BY TempOwned
<1>2. CASE Flush
  BY <1>2 DEF Flush, Durable
<1>3. CASE Spoil
  <2>1. fs'[t] = fs[t] \/ fs'[t] = Stored(Bad)
    BY <1>1, <1>3, SpoilChanges DEF Types
  <2> QED BY <1>3, <2>1, SpoilChanges DEF Durable
<1>4. CASE PowerLoss
  <2>1. PICK space \in past :
          /\ fs' \in [Names -> Files] /\ past' = {fs'}
          /\ \A n \in Names :
               /\ fs'[n] = Absent <=> space[n] = Absent
               /\ space[n] # Absent =>
                    /\ fs'[n].synced
                    /\ space[n].whole /\ space[n].synced => fs'[n].whole
    BY <1>4, LossChanges
  <2>2. space[t].whole /\ space[t].synced
    BY DEF Durable
  <2>3. Absent.whole /\ Absent.synced
    BY DEF Absent
  <2> QED BY <1>1, <2>1, <2>2, <2>3
<1>5. CASE \E p \in Procs : Killed(p)
  BY <1>5, KilledChanges DEF Durable
<1> QED BY <1>2, <1>3, <1>4, <1>5 DEF World

-----------------------------------------------------------------------------
(* Temporary files.                                                         *)

LEMMA TakenIsFinite ==
    ASSUME setting \in Settings, NEW space, NEW t, NEW p
    PROVE  IsFiniteSet(Taken(space, t, p)) /\ Cardinality(Taken(space, t, p)) \in Nat
<1>1. IsFiniteSet(1..MaxCount)
  BY FS_Interval, SettingTypes
<1>2. Taken(space, t, p) \subseteq 1..MaxCount
  BY DEF Taken
<1> QED BY <1>1, <1>2, FS_Subset, FS_CardinalityType

\* A name space in which no more names are taken, or one more at most, and one
\* in which a name has become free.
LEMMA TakenChanges ==
    ASSUME setting \in Settings, NEW old, NEW new, NEW t, NEW p, NEW k \in 1..MaxCount,
           \A i \in 1..MaxCount \ {k} : new[Temp(t, p, i)] # Absent => old[Temp(t, p, i)] # Absent
    PROVE  /\ Cardinality(Taken(new, t, p)) <= Cardinality(Taken(old, t, p)) + 1
           /\ (new[Temp(t, p, k)] # Absent => old[Temp(t, p, k)] # Absent) =>
                Cardinality(Taken(new, t, p)) <= Cardinality(Taken(old, t, p))
           /\ new[Temp(t, p, k)] = Absent /\ old[Temp(t, p, k)] # Absent =>
                Cardinality(Taken(new, t, p)) + 1 <= Cardinality(Taken(old, t, p))
<1> DEFINE A == Taken(old, t, p)
           B == Taken(new, t, p)
<1>1. /\ IsFiniteSet(A) /\ Cardinality(A) \in Nat /\ IsFiniteSet(B) /\ Cardinality(B) \in Nat
  BY TakenIsFinite
<1>2. /\ B \subseteq A \cup {k}
      /\ (new[Temp(t, p, k)] # Absent => old[Temp(t, p, k)] # Absent) => B \subseteq A
      /\ new[Temp(t, p, k)] = Absent => k \notin B
      /\ old[Temp(t, p, k)] # Absent => k \in A
  BY DEF Taken
<1> HIDE DEF A, B
<1>3. /\ IsFiniteSet(A \cup {k})
      /\ Cardinality(A \cup {k}) = IF k \in A THEN Cardinality(A) ELSE Cardinality(A) + 1
  BY <1>1, FS_AddElement
<1>4. Cardinality(B) <= Cardinality(A) + 1
  <2>1. Cardinality(B) <= Cardinality(A \cup {k})
    BY <1>2, <1>3, FS_Subset
  <2> QED BY <1>1, <1>3, <2>1
<1>5. B \subseteq A => Cardinality(B) <= Cardinality(A)
  BY <1>1, FS_Subset
<1>6. ASSUME k \in A, k \notin B
      PROVE  Cardinality(B) + 1 <= Cardinality(A)
  <2>1. /\ IsFiniteSet(B \cup {k}) /\ Cardinality(B \cup {k}) = Cardinality(B) + 1
    BY <1>1, <1>6, FS_AddElement
  <2>2. B \cup {k} \subseteq A
    BY <1>2, <1>6
  <2>3. Cardinality(B \cup {k}) <= Cardinality(A)
    BY <1>1, <2>2, FS_Subset
  <2> QED BY <2>1, <2>3
<1>7. A = Taken(old, t, p) /\ B = Taken(new, t, p)
  BY DEF A, B
<1> QED BY <1>2, <1>4, <1>5, <1>6, <1>7

\* What a step does to the temporary names of its own target: it takes none, or
\* takes the one it will use, or frees the one it used.
StaysInUse(p) == pc[p] \in Holding => pc'[p] \in Holding /\ target'[p] = target[p]

TouchesName(p, k) ==
    LET n == Temp(target[p], p, k) IN
    /\ \A i \in 1..MaxCount \ {k} : fs'[Temp(target[p], p, i)] = fs[Temp(target[p], p, i)]
    /\ \/ (fs'[n] # Absent => fs[n] # Absent) /\ StaysInUse(p)
       \/ pc[p] \notin Holding /\ pc'[p] \in Holding /\ target'[p] = target[p]
       \/ pc[p] \in Holding /\ fs'[n] = Absent /\ fs[n] # Absent

\* An instance gives up its temporary file, which stays.
LeavesFile(p) == UNCHANGED fs /\ pc[p] \in Holding /\ strays' = strays + 1

LEMMA OwnNames ==
    ASSUME Types, Writers, NEW p \in Procs, Act(p)
    PROVE  \/ UNCHANGED fs /\ StaysInUse(p)
           \/ \E k \in 1..MaxCount : TouchesName(p, k)
           \/ LeavesFile(p)
<1>1. /\ target[p] \in Targets /\ pc[p] \in Steps
      /\ \A i \in 1..MaxCount : Temp(target[p], p, i) \in Names
      /\ \A i, j \in 1..MaxCount : Temp(target[p], p, i) = Temp(target[p], p, j) => i = j
      /\ \A i \in 1..MaxCount : Temp(target[p], p, i) \notin Targets
      /\ fs \in [Names -> Files] /\ pc \in [Procs -> Steps] /\ target \in [Procs -> Targets]
  BY TempOwned, TempNames DEF Types, TempsOf
<1>2. CASE Create(p)
  <2>1. PICK n \in TempsOf(target[p], p) :
          \/ UNCHANGED <<fs, pc>>
          \/ /\ fs' = [fs EXCEPT ![n] = [text |-> text[p], whole |-> FALSE, synced |-> FALSE]]
             /\ pc' = [pc EXCEPT ![p] = "write"]
    BY <1>2, CreateChanges
  <2>2. pc[p] = "create" /\ target'[p] = target[p]
    BY <1>2 DEF Create, At
  <2>3. PICK k \in 1..MaxCount : n = Temp(target[p], p, k)
    BY DEF TempsOf
  <2> QED BY <1>1, <2>1, <2>2, <2>3 DEF Holding, StaysInUse, TouchesName
<1>3. ASSUME pc[p] \in Holding
      PROVE  \E k \in 1..MaxCount : temp[p] = Temp(target[p], p, k) /\ fs[temp[p]] # Absent
  BY <1>3 DEF Writers, Writer, TempsOf
<1>4. CASE CreateFails(p)
  <2>1. pc[p] = "create"
    BY <1>4 DEF CreateFails, At
  <2>2. CASE UNCHANGED fs
    BY <2>1, <2>2 DEF Holding, StaysInUse
  <2>3. CASE tries[p] = MaxAttempts /\ Journal(Place(temp[p], Absent))
    <3>1. PICK k \in 1..MaxCount : temp[p] = Temp(target[p], p, k)
      BY <2>1, <2>3, StoreAssumption DEF Writers, Writer, TempsOf
    <3>2. fs' = [fs EXCEPT ![temp[p]] = Absent]
      BY <2>3 DEF Journal, Place
    <3> QED BY <1>1, <2>1, <3>1, <3>2 DEF Holding, StaysInUse, TouchesName
  <2> QED BY <1>4, <2>2, <2>3 DEF CreateFails, disk
<1>5. CASE Write(p) \/ Sync(p)
  <2>1. PICK k \in 1..MaxCount : temp[p] = Temp(target[p], p, k) /\ fs[temp[p]] # Absent
    BY <1>3, <1>5 DEF Write, Sync, At, Holding
  <2>2. /\ UNCHANGED target
        /\ pc' = [pc EXCEPT ![p] = "sync"] \/ pc' = [pc EXCEPT ![p] = "close"]
             \/ pc' = [pc EXCEPT ![p] = "undo"]
    BY <1>5 DEF Write, Sync, Step
  <2>3. UNCHANGED fs \/ \E f : fs' = [fs EXCEPT ![temp[p]] = f]
    BY <1>5 DEF Write, Sync, Place
  <2> QED BY <1>1, <2>1, <2>2, <2>3 DEF Holding, StaysInUse, TouchesName
<1>6. CASE Undo(p)
  <2>1. PICK k \in 1..MaxCount : temp[p] = Temp(target[p], p, k) /\ fs[temp[p]] # Absent
    BY <1>3, <1>6 DEF Undo, At, Holding
  <2>2. CASE fs' = [fs EXCEPT ![temp[p]] = Absent]
    <3>1. pc[p] \in Holding
      BY <1>6 DEF Undo, At, Holding
    <3> QED BY <1>1, <2>1, <2>2, <3>1 DEF TouchesName
  <2>3. CASE Stray({temp[p]}) /\ UNCHANGED disk
    BY <1>6, <2>3 DEF Undo, At, Holding, Stray, LeavesFile, disk
  <2> QED BY <1>6, <2>2, <2>3 DEF Undo, Journal, Place
<1>7. CASE Replace(p)
  <2>1. PICK k \in 1..MaxCount : temp[p] = Temp(target[p], p, k) /\ fs[temp[p]] # Absent
    BY <1>3, <1>7 DEF Replace, At, Holding
  <2>2. pc[p] \in Holding
    BY <1>7 DEF Replace, At, Holding
  <2>3. fs' = [fs EXCEPT ![target[p]] = fs[temp[p]], ![temp[p]] = Absent]
    BY <1>7, ReplaceChanges
  <2> QED BY <1>1, <2>1, <2>2, <2>3 DEF TouchesName
<1>8. CASE Close(p) \/ ReplaceFails(p)
  BY <1>1, <1>8 DEF Close, ReplaceFails, Step, Holding, StaysInUse, disk
<1>9. CASE BeginLoad(p) \/ Read(p) \/ Recover(p) \/ Refresh(p) \/ Compare(p) \/ BeginSave(p)
             \/ MakeDirectory(p)
             \/ Capture(p) \/ Encode(p) \/ Loaded(p)
  BY <1>9 DEF BeginLoad, Read, Recover, Refresh, Compare, BeginSave, MakeDirectory, Capture, Encode,
              Loaded, At,
              Holding, StaysInUse, disk
<1> QED BY <1>2, <1>4, <1>5, <1>6, <1>7, <1>8, <1>9 DEF Act

LEMMA ActKeepsCount ==
    ASSUME Types, Writers, Counting, NEW p \in Procs, Act(p), UNCHANGED setting,
           NEW q \in Procs, NEW t \in Targets
    PROVE  (Cardinality(Taken(fs, t, q)) <= crashes + strays + InUse(t, q))'
<1> DEFINE old == Cardinality(Taken(fs, t, q))
           new == Cardinality(Taken(fs', t, q))
<1>1. /\ crashes' = crashes /\ crashes \in Nat /\ Taken(fs, t, q)' = Taken(fs', t, q)
      /\ strays \in Nat /\ strays' \in {strays, strays + 1}
  <2>1. crashes' = crashes /\ strays' \in {strays, strays + 1}
    BY DEF Act, BeginLoad, Read, Recover, Refresh, Compare, BeginSave, MakeDirectory, Capture, Encode, Loaded,
           Create, CreateFails, Write, Sync, Close, Replace, ReplaceFails, Undo, Safe, Fail, Stray, bounds
  <2>2. MaxCount' = MaxCount
    BY SettingKept
  <2> QED BY <2>1, <2>2 DEF Types, Taken
<1>2. old <= crashes + strays + InUse(t, q) /\ old \in Nat /\ new \in Nat
  BY TakenIsFinite DEF Counting, Types
<1>3. InUse(t, q) \in {0, 1} /\ InUse(t, q)' \in {0, 1}
  BY DEF InUse
<1>4. SUFFICES new <= crashes + strays' + InUse(t, q)'
  BY <1>1
<1> HIDE DEF old, new
<1>5. CASE q # p \/ t # target[p]
  <2>1. \A k \in 1..MaxCount : fs'[Temp(t, q, k)] = fs[Temp(t, q, k)]
    <3> SUFFICES ASSUME NEW k \in 1..MaxCount PROVE fs'[Temp(t, q, k)] = fs[Temp(t, q, k)]
      OBVIOUS
    <3>1. Temp(t, q, k) \in TempsOf(t, q)
      BY DEF TempsOf
    <3>2. Temp(t, q, k) \in Names /\ Temp(t, q, k) \notin Targets
      BY <3>1, TempOwned
    <3>3. Temp(t, q, k) \notin TempsOf(target[p], p) /\ target[p] \in Targets
      BY <1>5, <3>1, TempOwned DEF Types
    <3>4. CASE TempChange(p)
      BY <3>2, <3>3, <3>4 DEF TempChange, Types
    <3>5. CASE Replace(p)
      <4>1. /\ temp[p] \in TempsOf(target[p], p)
            /\ fs' = [fs EXCEPT ![target[p]] = fs[temp[p]], ![temp[p]] = Absent]
        BY <3>5, ReplaceChanges
      <4> QED BY <3>2, <3>3, <4>1 DEF Types
    <3> QED BY <3>4, <3>5, DiskSteps
  <2>2. new = old
    BY <2>1 DEF old, new, Taken
  <2>3. InUse(t, q) <= InUse(t, q)'
    <3>1. CASE q # p
      BY <3>1, OthersAreKept DEF InUse, Own
    <3>2. CASE q = p
      BY <1>3, <1>5, <3>2 DEF InUse
    <3> QED BY <3>1, <3>2
  <2> QED BY <1>1, <1>2, <1>3, <2>2, <2>3
<1>6. CASE q = p /\ t = target[p]
  <2>1. CASE UNCHANGED fs /\ StaysInUse(p)
    <3>1. new = old
      BY <2>1 DEF old, new
    <3>2. InUse(t, q) <= InUse(t, q)'
      BY <1>6, <2>1 DEF StaysInUse, InUse
    <3> QED BY <1>1, <1>2, <1>3, <3>1, <3>2
  <2>2. ASSUME NEW k \in 1..MaxCount, TouchesName(p, k)
        PROVE  new <= crashes + strays' + InUse(t, q)'
    <3> DEFINE n == Temp(t, q, k)
    <3>1. \A i \in 1..MaxCount \ {k} :
             fs'[Temp(t, q, i)] # Absent => fs[Temp(t, q, i)] # Absent
      BY <1>6, <2>2 DEF TouchesName
    <3>2. /\ new <= old + 1
          /\ (fs'[n] # Absent => fs[n] # Absent) => new <= old
          /\ fs'[n] = Absent /\ fs[n] # Absent => new + 1 <= old
      BY <3>1, TakenChanges DEF Types, old, new
    <3>3. CASE (fs'[n] # Absent => fs[n] # Absent) /\ StaysInUse(p)
      <4>1. InUse(t, q) <= InUse(t, q)'
        BY <1>6, <3>3 DEF StaysInUse, InUse
      <4> QED BY <1>1, <1>2, <1>3, <3>2, <3>3, <4>1
    <3>4. CASE pc[p] \notin Holding /\ pc'[p] \in Holding /\ target'[p] = target[p]
      <4>1. InUse(t, q) = 0 /\ InUse(t, q)' = 1
        BY <1>6, <3>4 DEF InUse
      <4> QED BY <1>1, <1>2, <3>2, <4>1
    <3>5. CASE pc[p] \in Holding /\ fs'[n] = Absent /\ fs[n] # Absent
      BY <1>1, <1>2, <1>3, <3>2, <3>5
    <3> QED BY <1>6, <2>2, <3>3, <3>4, <3>5 DEF TouchesName
  <2>3. CASE LeavesFile(p)
    <3>1. new = old /\ strays' = strays + 1
      BY <2>3 DEF old, new, LeavesFile
    <3> QED BY <1>1, <1>2, <1>3, <3>1
  <2> QED BY <2>1, <2>2, <2>3, OwnNames
<1> QED BY <1>5, <1>6

LEMMA PastCounts ==
    ASSUME Types, Counting, UNCHANGED <<setting, crashes>>, past' \subseteq past \cup {fs'},
           strays' \in {strays, strays + 1},
           \A q \in Procs, t \in Targets : (Cardinality(Taken(fs, t, q)) <= crashes + strays + InUse(t, q))'
    PROVE  Counting'
<1> SUFFICES ASSUME NEW q \in Procs, NEW t \in Targets, NEW space \in past'
             PROVE  Cardinality(Taken(space, t, q)) <= crashes + strays' + 1
  <2>1. \A space \in past', q \in Procs, t \in Targets :
         Cardinality(Taken(space, t, q)) <= crashes + strays' + 1
    OBVIOUS
  <2> QED BY <2>1, SettingKept DEF Counting, Taken
<1>1. CASE space \in past
  <2>1. Cardinality(Taken(space, t, q)) <= crashes + strays + 1
    BY <1>1 DEF Counting
  <2>2. crashes \in Nat /\ strays \in Nat /\ Cardinality(Taken(space, t, q)) \in Nat
    BY TakenIsFinite DEF Types
  <2> QED BY <2>1, <2>2
<1>2. CASE space = fs'
  <2>1. Cardinality(Taken(fs', t, q)) <= crashes + strays' + InUse(t, q)'
    BY SettingKept DEF Taken
  <2>2. InUse(t, q)' \in {0, 1} /\ crashes \in Nat /\ strays' \in Nat /\ Cardinality(Taken(fs', t, q)) \in Nat
    BY TakenIsFinite DEF InUse, Types
  <2> QED BY <1>2, <2>1, <2>2
<1> QED BY <1>1, <1>2

LEMMA ActKeepsCounting ==
    ASSUME Types, Writers, Counting, NEW p \in Procs, Act(p), UNCHANGED setting
    PROVE  Counting'
<1>1. UNCHANGED crashes /\ strays' \in {strays, strays + 1}
  BY DEF Act, BeginLoad, Read, Recover, Refresh, Compare, BeginSave, MakeDirectory, Capture, Encode, Loaded,
         Create, CreateFails, Write, Sync, Close, Replace, ReplaceFails, Undo, Safe, Fail, Stray, bounds
<1>2. past' \subseteq past \cup {fs'}
  BY DiskSteps, ReplaceChanges DEF TempChange
<1>3. \A q \in Procs, t \in Targets : (Cardinality(Taken(fs, t, q)) <= crashes + strays + InUse(t, q))'
  BY ActKeepsCount
<1> QED BY <1>1, <1>2, <1>3, PastCounts

\* The temporary names are what the surroundings leave alone, power losses and
\* kills excepted.
LEMMA TempsInPeace ==
    ASSUME Types, Flush \/ Spoil
    PROVE  /\ \A n \in Temps : fs'[n] = fs[n]
           /\ past' \subseteq past \cup {fs'} /\ UNCHANGED <<proc, crashes, strays, kept, blamed, faults>>
<1>1. \A n \in Temps : n \in Names /\ n # Main
  BY TempOwned DEF Targets
<1>2. CASE Flush
  BY <1>2 DEF Flush, bounds
<1>3. CASE Spoil
  BY <1>1, <1>3, SpoilChanges DEF Spoil, Types
<1> QED BY <1>2, <1>3

LEMMA WorldKeepsCounting ==
    ASSUME Types, Counting, World, UNCHANGED setting
    PROVE  Counting'
<1>1. \A t \in Targets, q \in Procs, k \in 1..MaxCount : Temp(t, q, k) \in Temps
  BY TempOwned DEF TempsOf
<1>2. CASE Flush \/ Spoil
  <2>1. ASSUME NEW q \in Procs, NEW t \in Targets
        PROVE  (Cardinality(Taken(fs, t, q)) <= crashes + strays + InUse(t, q))'
    <3>1. Taken(fs, t, q)' = Taken(fs, t, q)
      BY <1>1, <1>2, TempsInPeace, SettingKept DEF Taken
    <3>2. InUse(t, q)' = InUse(t, q) /\ crashes' = crashes /\ strays' = strays
      BY <1>2, TempsInPeace DEF InUse, proc
    <3> QED BY <3>1, <3>2 DEF Counting
  <2> QED BY <1>2, <2>1, TempsInPeace, PastCounts
<1>3. CASE PowerLoss
  <2>1. PICK space \in past :
          past' = {fs'} /\ \A n \in Names : fs'[n] = Absent <=> space[n] = Absent
    BY <1>3, LossChanges
  <2>2. crashes' = crashes + 1 /\ crashes \in Nat /\ strays' = strays /\ strays \in Nat /\ \A q \in Procs : pc'[q] = "idle"
    BY <1>3 DEF PowerLoss, Types
  <2>3. ASSUME NEW q \in Procs, NEW t \in Targets
        PROVE  Cardinality(Taken(fs', t, q)) <= crashes + strays + 1 /\ InUse(t, q)' = 0
               /\ Cardinality(Taken(fs', t, q)) \in Nat
    <3>1. Taken(fs', t, q) = Taken(space, t, q)
      BY <1>1, <2>1 DEF Taken, Names
    <3> QED BY <2>2, <3>1, TakenIsFinite DEF Counting, InUse, Holding, Types
  <2>4. \A q \in Procs, t \in Targets :
           /\ \A s \in past' : Cardinality(Taken(s, t, q)) <= crashes' + strays' + 1
           /\ Cardinality(Taken(fs', t, q)) <= crashes' + strays' + InUse(t, q)'
    BY <2>1, <2>2, <2>3
  <2> QED BY <2>4, SettingKept DEF Counting, Taken
<1>4. ASSUME NEW p \in Procs, Killed(p) PROVE Counting'
  <2>1. /\ UNCHANGED <<fs, past, crashes, target>> /\ strays' = strays + 1
        /\ strays \in Nat /\ crashes \in Nat /\ pc' = [pc EXCEPT ![p] = "idle"]
    BY <1>4, KilledChanges DEF Types
  <2>2. ASSUME NEW q \in Procs, NEW t \in Targets
        PROVE  (Cardinality(Taken(fs, t, q)) <= crashes + strays + InUse(t, q))'
    <3>1. Taken(fs, t, q)' = Taken(fs, t, q)
      BY <2>1, SettingKept DEF Taken
    <3>2. Cardinality(Taken(fs, t, q)) <= crashes + strays + InUse(t, q)
          /\ Cardinality(Taken(fs, t, q)) \in Nat
      BY TakenIsFinite DEF Counting, Types
    <3>3. InUse(t, q) \in {0, 1} /\ InUse(t, q)' \in {0, 1}
      BY DEF InUse
    <3>4. InUse(t, q) <= InUse(t, q)' + 1
      BY <3>3
    <3> QED BY <2>1, <3>1, <3>2, <3>3, <3>4
  <2> QED BY <2>1, <2>2, PastCounts
<1> QED BY <1>2, <1>3, <1>4 DEF World

-----------------------------------------------------------------------------
(* The names that are tried.                                                *)

LEMMA ActKeepsTried ==
    ASSUME Types, Writers, AllTried, NEW p \in Procs, Act(p), UNCHANGED setting, NEW q \in Procs
    PROVE  Tried(q)'
<1>1. /\ Tried(q) /\ target[q] \in Targets /\ tries[q] \in Nat /\ count[q] \in 0..MaxCount
      /\ MaxCount \in Nat
  BY SettingTypes DEF AllTried, Types
<1>2. Platform' = Platform /\ MaxCount' = MaxCount
  BY SettingKept
<1>3. CASE q # p
  <2>1. /\ pc'[q] = pc[q] /\ target'[q] = target[q] /\ tries'[q] = tries[q] /\ count'[q] = count[q]
    BY <1>3, OthersAreKept DEF Own
  <2>2. \A k \in 1..MaxCount : fs'[Temp(target[q], q, k)] = fs[Temp(target[q], q, k)]
    BY <1>1, <1>3, FilesOfOthers DEF TempsOf
  <2>3. Taken(fs, target[q], q)' = Taken(fs, target[q], q)
    BY <1>2, <2>1, <2>2 DEF Taken
  <2> QED BY <1>1, <1>2, <2>1, <2>3 DEF Tried
<1>4. CASE q = p
  <2>1. CASE Create(p)
    <3>1. PICK n \in TempsOf(target[p], p) :
            /\ count' = [count EXCEPT ![p] = @ + 1] /\ tries' = [tries EXCEPT ![p] = @ + 1]
            /\ Platform # "macos" => n = Temp(target[p], p, count[p] + 1)
            /\ Platform = "macos" => fs[n] = Absent
            /\ \/ fs[n] # Absent /\ UNCHANGED <<fs, past, pc>>
               \/ fs[n] = Absent /\ pc' = [pc EXCEPT ![p] = "write"]
      BY <2>1, CreateChanges
    <3>2. pc[p] = "create" /\ target'[p] = target[p] /\ count[p] + 1 \in 1..MaxCount
      BY <1>1, <1>4, <2>1 DEF Create, At
    <3>3. count'[p] = count[p] + 1 /\ tries'[p] = tries[p] + 1
      BY <3>1 DEF Types
    <3>4. CASE pc' = [pc EXCEPT ![p] = "write"]
      BY <1>4, <3>4 DEF Tried, Types
    <3>5. CASE fs[n] # Absent /\ UNCHANGED <<fs, pc>>
      <4>1. Platform # "macos" /\ count[p] + 1 \in Taken(fs, target[p], p)
        BY <3>1, <3>2, <3>5 DEF Taken
      <4>2. /\ tries[p] <= count[p]
            /\ (count[p] - tries[p] + 1)..count[p] \subseteq Taken(fs, target[p], p)
        BY <1>1, <1>4, <3>2 DEF Tried
      <4>3. (count[p] - tries[p] + 1)..(count[p] + 1) \subseteq Taken(fs, target[p], p)
        BY <1>1, <1>4, <4>1, <4>2
      <4>4. Taken(fs, target[p], p)' = Taken(fs, target[p], p)
        BY <1>2, <3>2, <3>5 DEF Taken
      <4>5. (count[p] + 1) - (tries[p] + 1) + 1 = count[p] - tries[p] + 1
        BY <1>1, <1>4
      <4> QED BY <1>1, <1>2, <1>4, <3>3, <4>1, <4>2, <4>3, <4>4, <4>5 DEF Tried
    <3> QED BY <3>1, <3>4, <3>5
  <2>2. CASE Capture(p) \/ Encode(p)
    <3>1. pc'[p] = "create" => tries'[p] = 0 /\ count'[p] = count[p]
      BY <2>2 DEF Capture, Encode, StartWrite, Step, AfterCapture, Finish, Types
    <3>2. pc'[p] = "create" => (count'[p] - tries'[p] + 1)..count'[p] = {}
      BY <1>1, <1>4, <3>1
    <3> QED BY <1>1, <1>4, <3>1, <3>2 DEF Tried
  <2>3. CASE ~(Create(p) \/ Capture(p) \/ Encode(p))
    <3>1. pc'[p] # "create"
      BY <2>3 DEF Act, BeginLoad, Read, Recover, Recovered, Refresh, Compare, BeginSave, MakeDirectory,
                  Loaded,
         CreateFails, Write, Sync, Close, Replace, ReplaceFails, Undo, At, Step, Begin, Finish,
         Ended, AfterCapture, Types
    <3> QED BY <1>4, <3>1 DEF Tried
  <2> QED BY <2>1, <2>2, <2>3
<1> QED BY <1>3, <1>4

LEMMA WorldKeepsTried ==
    ASSUME Types, AllTried, World, UNCHANGED setting, NEW q \in Procs
    PROVE  Tried(q)'
<1>1. Tried(q) /\ target[q] \in Targets /\ Platform' = Platform /\ MaxCount' = MaxCount
  BY SettingKept DEF AllTried, Types
<1>2. CASE PowerLoss
  BY <1>2 DEF PowerLoss, Tried
<1>3. CASE Flush \/ Spoil
  <2>1. UNCHANGED <<pc, target, tries, count>>
    BY <1>3, TempsInPeace DEF proc
  <2>2. \A k \in 1..MaxCount : Temp(target[q], q, k) \in Temps
    BY <1>1, TempOwned DEF TempsOf
  <2>3. Taken(fs, target[q], q)' = Taken(fs, target[q], q)
    BY <1>1, <1>3, <2>1, <2>2, TempsInPeace DEF Taken
  <2> QED BY <1>1, <2>1, <2>3 DEF Tried
<1>4. ASSUME NEW p \in Procs, Killed(p) PROVE Tried(q)'
  <2>1. CASE p = q
    BY <1>4, <2>1, KilledChanges DEF Tried, Types
  <2>2. CASE p # q
    <3>1. /\ pc'[q] = pc[q] /\ tries'[q] = tries[q] /\ count'[q] = count[q]
          /\ UNCHANGED <<fs, target>>
      BY <1>4, <2>2, KilledChanges DEF Types
    <3>2. Taken(fs, target[q], q)' = Taken(fs, target[q], q)
      BY <1>1, <3>1 DEF Taken
    <3> QED BY <1>1, <3>1, <3>2 DEF Tried
  <2> QED BY <2>1, <2>2
<1> QED BY <1>2, <1>3, <1>4 DEF World

-----------------------------------------------------------------------------
(* The invariant.                                                           *)

LEMMA ActKeepsBlame ==
    ASSUME Types, Blame, NEW p \in Procs, Act(p), UNCHANGED setting
    PROVE  Blame'
<1> SUFFICES ASSUME NEW q \in Procs, pc'[q] = "undo" PROVE q \in blamed' /\ faults' > 0
  BY SettingKept DEF Blame
<1>1. faults \in Nat /\ (UNCHANGED faults \/ faults' = faults + 1)
  <2>1. faults \in Nat
    BY SettingTypes DEF Types
  <2>2. UNCHANGED faults \/ faults' = faults + 1
    BY DEF Act, BeginLoad, Read, Recover, Refresh, Compare, BeginSave, MakeDirectory, Capture, Encode, Loaded,
           Create, CreateFails, Write, Sync, Close, Replace, ReplaceFails, Undo, Safe, Fail, Stray, bounds
  <2> QED BY <2>1, <2>2
<1>2. CASE q # p
  BY <1>1, <1>2, OthersAreKept DEF Blame, Own
<1>3. CASE q = p
  <2>1. Fail(p)
    BY <1>3 DEF Types, Act, BeginLoad, Read, Recover, Recovered, Refresh, Compare, BeginSave,
                MakeDirectory, Capture, Encode,
         Loaded, Create, CreateFails, Write, Sync, Close, Replace, ReplaceFails, Undo, At,
         Step, Begin, Finish, StartWrite, Ended, AfterCapture
  <2> QED BY <1>1, <1>3, <2>1 DEF Fail
<1> QED BY <1>2, <1>3

LEMMA InitStore == Init => StoreInv
<1> SUFFICES ASSUME Init PROVE StoreInv
  OBVIOUS
<1>1. Types
  BY InitTypes
<1>2. \A n \in Temps : fs[n] = Absent
  BY TempOwned DEF Init, Names
<1>3. Writers /\ AllTried /\ Blame
  BY DEF Init, Writers, Writer, Writing, Holding, AllTried, Tried, Blame
<1>4. Durable
  <2>1. \A t \in Targets : fs[t] = Stored(0) \/ fs[t] = Absent
    BY TempOwned DEF Init
  <2>2. past = {fs}
    BY DEF Init
  <2> QED BY <2>1, <2>2 DEF Durable, Stored, Absent
<1>5. Counting
  <2>1. ASSUME NEW q \in Procs, NEW t \in Targets PROVE Cardinality(Taken(fs, t, q)) = 0
    <3>1. Taken(fs, t, q) = {}
      BY <1>2, TempOwned DEF Taken, TempsOf
    <3> QED BY <3>1, FS_EmptySet
  <2>2. past = {fs} /\ crashes = 0 /\ strays = 0
    BY DEF Init
  <2> QED BY <2>1, <2>2 DEF Counting, InUse
<1> QED BY <1>1, <1>3, <1>4, <1>5 DEF StoreInv

LEMMA ActKeepsStore ==
    ASSUME StoreInv, NEW p \in Procs, Act(p), UNCHANGED setting
    PROVE  StoreInv'
<1> USE DEF StoreInv
<1>1. Types'
  BY ActKeepsTypes
<1>2. Writers'
  <2>1. \A q \in Procs : Writer(q)'
    BY OthersWrite, ActKeepsWriter
  <2> QED BY <2>1, SettingKept DEF Writers
<1>3. Durable'
  BY ActKeepsDurable
<1>4. Counting'
  BY ActKeepsCounting
<1>5. AllTried'
  BY ActKeepsTried, SettingKept DEF AllTried
<1>6. Blame'
  BY ActKeepsBlame
<1> QED BY <1>1, <1>2, <1>3, <1>4, <1>5, <1>6

LEMMA WorldKeepsStore ==
    ASSUME StoreInv, World, UNCHANGED setting
    PROVE  StoreInv'
<1> USE DEF StoreInv
<1>1. Types' /\ Writers' /\ Durable' /\ Counting'
  BY WorldKeepsTypes, WorldKeepsWriters, WorldKeepsDurable, WorldKeepsCounting
<1>2. AllTried'
  BY WorldKeepsTried, SettingKept DEF AllTried
<1>3. Blame'
  <2>1. CASE PowerLoss
    BY <2>1, SettingKept DEF PowerLoss, Blame
  <2>2. CASE Flush \/ Spoil
    BY <2>2, TempsInPeace, SettingKept DEF Blame, proc
  <2>3. CASE \E p \in Procs : Killed(p)
    BY <2>3, KilledChanges, SettingKept DEF Blame, Types
  <2> QED BY <2>1, <2>2, <2>3 DEF World
<1> QED BY <1>1, <1>2, <1>3

LEMMA NextIsActOrWorld ==
    ASSUME Next
    PROVE  UNCHANGED setting /\ (World \/ \E p \in Procs : Act(p))
BY DEF Next, World, Act

\* What never changes by a stuttering step.
LEMMA StutterKeeps ==
    ASSUME UNCHANGED vars
    PROVE  /\ UNCHANGED <<setting, fs, past, pc, job, target, text, temp, tries, count, held, result>>
           /\ UNCHANGED <<version, before, blamed, faults, crashes, strays, kept, edits>>
BY DEF vars, disk, proc, bounds

LEMMA NextStore == StoreInv /\ [Next]_vars => StoreInv'
<1>1. ASSUME StoreInv, Next PROVE StoreInv'
  BY <1>1, NextIsActOrWorld, ActKeepsStore, WorldKeepsStore
<1>2. ASSUME StoreInv, UNCHANGED vars PROVE StoreInv'
  <2>1. /\ UNCHANGED <<setting, fs, past, pc, job, target, text, temp, tries, count, held, result>>
        /\ UNCHANGED <<version, before, blamed, faults, crashes, strays, kept, edits>>
    BY <1>2, StutterKeeps
  <2>2. Types'
    BY <1>2, <2>1, SettingKept DEF StoreInv, Types
  <2>3. Writers' /\ Durable' /\ Blame'
    BY <1>2, <2>1, SettingKept DEF StoreInv, Writers, Writer, TempsOf, Durable, Blame
  <2>4. Counting' /\ AllTried'
    BY <1>2, <2>1, SettingKept DEF StoreInv, Counting, AllTried, Tried, Taken, InUse
  <2> QED BY <2>2, <2>3, <2>4 DEF StoreInv
<1> QED BY <1>1, <1>2

\* The instances never lose what they know of their files.
THEOREM StoreInvariant == Spec => []StoreInv
BY InitStore, NextStore, PTL DEF Spec

\* layout.yml and its backup are never seen half-written, at no step of
\* atomic_write, by no instance and after no power loss.
THEOREM FilesAreNeverTorn == Spec => []NeverTorn
<1>1. StoreInv => NeverTorn
  BY DEF StoreInv, Durable, NeverTorn
<1> QED BY <1>1, StoreInvariant, PTL

\* While the power stays, a temporary file is in somebody's hand, or nobody is
\* left to remove it.
Accounted ==
    crashes = 0 =>
        \A n \in Temps : fs[n] # Absent => n \in kept \/ \E p \in Procs : pc[p] \in Holding /\ temp[p] = n

LEMMA ActKeepsAccounted ==
    ASSUME StoreInv, Accounted, NEW p \in Procs, Act(p), UNCHANGED setting
    PROVE  Accounted'
<1>1. crashes' = crashes /\ kept \subseteq kept'
  BY DEF Act, BeginLoad, Read, Recover, Refresh, Compare, BeginSave, MakeDirectory, Capture, Encode, Loaded,
         Create, CreateFails, Write, Sync, Close, Replace, ReplaceFails, Undo, Safe, Fail, Stray, bounds
<1> SUFFICES ASSUME crashes = 0, NEW n \in Temps, fs'[n] # Absent
             PROVE  n \in kept' \/ \E q \in Procs : pc'[q] \in Holding /\ temp'[q] = n
  BY <1>1, SettingKept DEF Accounted
<1>2. /\ n \in Names /\ n \notin Targets /\ temp[p] \in Names /\ target[p] \in Targets
      /\ pc \in [Procs -> Steps] /\ temp \in [Procs -> Names] /\ fs \in [Names -> Files]
  BY TempOwned DEF StoreInv, Types
<1>3. ASSUME fs[n] # Absent, pc[p] \in Holding => temp[p] # n
      PROVE  n \in kept' \/ \E q \in Procs : pc'[q] \in Holding /\ temp'[q] = n
  <2>1. CASE n \in kept
    BY <1>1, <2>1
  <2>2. CASE n \notin kept
    <3>1. PICK q \in Procs : pc[q] \in Holding /\ temp[q] = n
      BY <1>3, <2>2 DEF Accounted
    <3>2. pc'[q] = pc[q] /\ temp'[q] = temp[q]
      BY <1>3, <3>1, OthersAreKept DEF Own, StoreInv
    <3> QED BY <3>1, <3>2
  <2> QED BY <2>1, <2>2
<1>4. CASE Create(p)
  <2>1. PICK m \in TempsOf(target[p], p) :
          /\ temp' = [temp EXCEPT ![p] = m]
          /\ \/ UNCHANGED <<fs, pc>>
             \/ /\ fs' = [fs EXCEPT ![m] = [text |-> text[p], whole |-> FALSE, synced |-> FALSE]]
                /\ pc' = [pc EXCEPT ![p] = "write"]
    BY <1>4, CreateChanges DEF StoreInv
  <2>2. pc[p] = "create" /\ pc[p] \notin Holding
    BY <1>4 DEF Create, At, Holding
  <2>3. CASE fs[n] # Absent
    BY <1>3, <2>2, <2>3
  <2>4. CASE fs[n] = Absent
    <3>1. n = m /\ pc'[p] = "write" /\ temp'[p] = m
      BY <1>2, <2>1, <2>4
    <3> QED BY <3>1 DEF Holding
  <2> QED BY <2>3, <2>4
<1>5. CASE CreateFails(p)
  <2>1. pc[p] \notin Holding /\ (UNCHANGED fs \/ fs' = [fs EXCEPT ![temp[p]] = Absent])
    BY <1>5 DEF CreateFails, At, Holding, disk, Journal, Place
  <2>2. fs[n] # Absent
    BY <1>2, <2>1
  <2> QED BY <1>3, <2>1, <2>2
<1>6. CASE Write(p) \/ Sync(p) \/ Close(p) \/ ReplaceFails(p)
  <2>1. /\ pc[p] \in Holding /\ pc'[p] \in Holding /\ temp'[p] = temp[p]
        /\ UNCHANGED fs \/ \E f : fs' = [fs EXCEPT ![temp[p]] = f]
    BY <1>2, <1>6 DEF Write, Sync, Close, ReplaceFails, At, Step, Place, Holding, disk
  <2>2. CASE temp[p] = n
    BY <2>1, <2>2
  <2>3. CASE temp[p] # n
    BY <1>2, <1>3, <2>1, <2>3
  <2> QED BY <2>2, <2>3
<1>7. CASE Replace(p)
  <2>1. fs' = [fs EXCEPT ![target[p]] = fs[temp[p]], ![temp[p]] = Absent]
    BY <1>7, ReplaceChanges DEF StoreInv
  <2>2. temp[p] # n /\ fs[n] # Absent
    BY <1>2, <2>1
  <2> QED BY <1>3, <2>2
<1>8. CASE Undo(p)
  <2>1. CASE fs' = [fs EXCEPT ![temp[p]] = Absent]
    BY <1>2, <1>3, <2>1
  <2>2. CASE UNCHANGED fs /\ kept' = kept \cup {temp[p]}
    BY <1>3, <2>2
  <2> QED BY <1>8, <2>1, <2>2 DEF Undo, Journal, Place, Stray, disk
<1>9. CASE BeginLoad(p) \/ Read(p) \/ Recover(p) \/ Refresh(p) \/ Compare(p) \/ BeginSave(p)
             \/ MakeDirectory(p) \/ Capture(p) \/ Encode(p) \/ Loaded(p)
  <2>1. pc[p] \notin Holding /\ UNCHANGED fs
    BY <1>9 DEF BeginLoad, Read, Recover, Refresh, Compare, BeginSave, MakeDirectory, Capture,
                Encode, Loaded, At, Holding, disk
  <2> QED BY <1>3, <2>1
<1> QED BY <1>4, <1>5, <1>6, <1>7, <1>8, <1>9 DEF Act

LEMMA WorldKeepsAccounted ==
    ASSUME StoreInv, Accounted, World, UNCHANGED setting
    PROVE  Accounted'
<1>1. Temps' = Temps /\ Procs' = Procs
  BY SettingKept
<1>2. CASE Flush \/ Spoil
  BY <1>1, <1>2, TempsInPeace DEF Accounted, StoreInv, proc
<1>3. CASE PowerLoss
  <2>1. crashes' # 0
    BY <1>3, SettingTypes DEF PowerLoss, StoreInv, Types
  <2> QED BY <2>1 DEF Accounted
<1>4. ASSUME NEW p \in Procs, Killed(p) PROVE Accounted'
  <2> SUFFICES ASSUME crashes = 0, NEW n \in Temps, fs[n] # Absent
               PROVE  n \in kept' \/ \E q \in Procs : pc'[q] \in Holding /\ temp'[q] = n
    BY <1>1, <1>4, KilledChanges DEF Accounted, StoreInv
  <2>1. /\ kept' = kept \cup (IF pc[p] \in Holding THEN {temp[p]} ELSE {})
        /\ \A q \in Procs \ {p} : pc'[q] = pc[q] /\ temp'[q] = temp[q]
    BY <1>4, KilledChanges DEF StoreInv, Types
  <2>2. CASE n \in kept
    BY <2>1, <2>2
  <2>3. CASE n \notin kept
    <3>1. PICK q \in Procs : pc[q] \in Holding /\ temp[q] = n
      BY <2>3 DEF Accounted
    <3> QED BY <2>1, <3>1
  <2> QED BY <2>2, <2>3
<1> QED BY <1>2, <1>3, <1>4 DEF World

\* Without a power loss no temporary file outlives the atomic_write that made it,
\* but of an instance killed with the file in hand and where unlink itself fails.
THEOREM NothingIsLeftOver == Spec => []NoLeftovers
<1>1. Init => Accounted
  <2>1. Init => \A n \in Temps : fs[n] = Absent
    BY TempOwned DEF Init, Names
  <2> QED BY <2>1 DEF Accounted
<1>2. StoreInv /\ Accounted /\ [Next]_vars => Accounted'
  <2> SUFFICES ASSUME StoreInv, Accounted, [Next]_vars PROVE Accounted'
    OBVIOUS
  <2>1. CASE Next
    BY <2>1, NextIsActOrWorld, ActKeepsAccounted, WorldKeepsAccounted
  <2>2. CASE UNCHANGED vars
    <3>1. UNCHANGED <<setting, fs, pc, temp, kept, crashes>>
      BY <2>2, StutterKeeps
    <3> QED BY <3>1, SettingKept DEF Accounted
  <2> QED BY <2>1, <2>2
<1>3. Accounted => NoLeftovers
  BY DEF Accounted, NoLeftovers, Resting, Holding, Exists
<1> QED BY <1>1, <1>2, <1>3, StoreInvariant, PTL DEF Spec

-----------------------------------------------------------------------------
(* Names that were left behind.                                             *)

\* An atomic_write finds at most as many names taken as were left behind.
LEMMA TriesAreBounded ==
    ASSUME StoreInv, NEW p \in Procs, pc[p] = "create"
    PROVE  tries[p] <= crashes + strays
<1>1. /\ target[p] \in Targets /\ tries[p] \in Nat /\ count[p] \in Nat /\ crashes \in Nat /\ strays \in Nat
      /\ setting \in Settings
  BY SettingTypes DEF StoreInv, Types
<1> DEFINE T == Taken(fs, target[p], p)
           I == (count[p] - tries[p] + 1)..count[p]
<1>2. I \subseteq T /\ tries[p] <= count[p]
  BY DEF StoreInv, AllTried, Tried
<1>3. IsFiniteSet(T) /\ Cardinality(T) \in Nat /\ Cardinality(T) <= crashes + strays
  <2>1. InUse(target[p], p) = 0
    BY DEF InUse, Holding
  <2> QED BY <1>1, <2>1, TakenIsFinite DEF StoreInv, Counting
<1>4. IsFiniteSet(I) /\ Cardinality(I) = tries[p]
  <2> DEFINE a == count[p] - tries[p] + 1
  <2>1. a \in Int /\ count[p] \in Int /\ (a > count[p] <=> tries[p] = 0)
        /\ count[p] - a + 1 = tries[p]
    BY <1>1
  <2> HIDE DEF a
  <2>2. /\ IsFiniteSet(a..count[p])
        /\ Cardinality(a..count[p]) = IF a > count[p] THEN 0 ELSE count[p] - a + 1
    BY <2>1, FS_Interval
  <2> QED BY <1>1, <2>1, <2>2 DEF a
<1> HIDE DEF T, I
<1>5. Cardinality(I) <= Cardinality(T)
  BY <1>2, <1>3, FS_Subset
<1> QED BY <1>1, <1>3, <1>4, <1>5

\* There are fewer power losses, kills and files that unlink leaves than names an
\* atomic_write tries (100).
NamesSuffice == \A s \in Settings : s.crashes + s.strays < MaxAttempts

LEMMA NamesLeft ==
    ASSUME NamesSuffice, Types
    PROVE  crashes + strays < MaxAttempts
<1>1. MaxCrashes + MaxStrays < MaxAttempts
  BY DEF NamesSuffice, Types, MaxCrashes, MaxStrays
<1>2. /\ crashes \in 0..MaxCrashes /\ strays \in 0..MaxStrays /\ MaxCrashes \in Nat
      /\ MaxStrays \in Nat /\ MaxAttempts \in Nat
  BY SettingTypes, StoreAssumption DEF Types
<1> QED BY <1>1, <1>2

LEMMA NamesAreFree ==
    ASSUME StoreInv, crashes + strays < MaxAttempts, NEW p \in Procs, CreateFails(p)
    PROVE  Fail(p)
<1>1. pc[p] = "create" /\ tries[p] \in Nat /\ crashes \in Nat /\ strays \in Nat
  BY SettingTypes DEF CreateFails, At, StoreInv, Types
<1>2. tries[p] # MaxAttempts
  BY <1>1, TriesAreBounded, StoreAssumption
<1> QED BY <1>2 DEF CreateFails

-----------------------------------------------------------------------------
(* What the layout and its backup hold.                                     *)

\* Until somebody spoils the layout, everything written is a layout.
Unspoiled ==
    edits = 0 =>
        /\ \A space \in past \cup {fs}, t \in Targets :
               space[t] # Absent => space[t].text \in Versions
        /\ \A p \in Procs : pc[p] \in Writing => text[p] \in Versions

\* A step of an instance other than Replace leaves layout and backup as they are.
LEMMA TargetsAreKept ==
    ASSUME StoreInv, NEW p \in Procs, Act(p), ~Replace(p), NEW t \in Targets
    PROVE  fs'[t] = fs[t] /\ past' \subseteq past \cup {fs'}
<1>1. t \in Names /\ target[p] \in Targets /\ \A n \in TempsOf(target[p], p) : n # t
  BY TempOwned DEF StoreInv, Types
<1> QED BY <1>1, DiskSteps DEF TempChange, StoreInv, Types

LEMMA TargetReplaced ==
    ASSUME StoreInv, NEW p \in Procs, Replace(p)
    PROVE  /\ \A t \in Targets \ {target[p]} : fs'[t] = fs[t]
           /\ fs'[target[p]] \in Files \ {Absent} /\ fs'[target[p]].text = text[p]
           /\ Content(fs'[target[p]]) = text[p] /\ past' \subseteq past \cup {fs'}
           /\ target[p] \in Targets
<1>1. /\ temp[p] \in TempsOf(target[p], p) /\ fs[temp[p]] \in Files \ {Absent}
      /\ fs[temp[p]].text = text[p] /\ fs[temp[p]].whole
      /\ fs' = [fs EXCEPT ![target[p]] = fs[temp[p]], ![temp[p]] = Absent]
      /\ past' \subseteq past \cup {fs'}
  BY ReplaceChanges DEF StoreInv
<1>2. target[p] \in Targets /\ \A t \in Targets : t \in Names /\ t # temp[p]
  BY <1>1, TempOwned DEF StoreInv, Types
<1>3. fs'[target[p]] = fs[temp[p]] /\ \A t \in Targets \ {target[p]} : fs'[t] = fs[t]
  BY <1>1, <1>2 DEF StoreInv, Types
<1> QED BY <1>1, <1>2, <1>3 DEF Content

LEMMA ActKeepsUnspoiled ==
    ASSUME StoreInv, Unspoiled, NEW p \in Procs, Act(p), UNCHANGED setting
    PROVE  Unspoiled'
<1> SUFFICES ASSUME edits' = 0 PROVE Unspoiled'
  BY DEF Unspoiled
<1>1. edits = 0
  BY DEF Act, BeginLoad, Read, Recover, Refresh, Compare, BeginSave, MakeDirectory, Capture, Encode, Loaded,
         Create, CreateFails, Write, Sync, Close, Replace, ReplaceFails, Undo, Safe, Fail, Stray, bounds
<1>2. /\ \A space \in past \cup {fs}, t \in Targets : space[t] # Absent => space[t].text \in Versions
      /\ \A q \in Procs : pc[q] \in Writing => text[q] \in Versions
  BY <1>1 DEF Unspoiled
<1>3. ASSUME NEW t \in Targets
      PROVE  \A space \in past' \cup {fs'} : space[t] # Absent => space[t].text \in Versions
  <2>1. CASE Replace(p)
    <3>1. text[p] \in Versions
      BY <1>2, <2>1 DEF Replace, At, Writing, Holding
    <3>2. fs'[t] # Absent => fs'[t].text \in Versions
      BY <1>2, <2>1, <3>1, TargetReplaced
    <3> QED BY <1>2, <2>1, <3>2, TargetReplaced
  <2>2. CASE ~Replace(p)
    BY <1>2, <2>2, TargetsAreKept
  <2> QED BY <2>1, <2>2
<1>4. ASSUME NEW q \in Procs, pc'[q] \in Writing PROVE text'[q] \in Versions
  <2>1. CASE q # p
    BY <1>2, <1>4, <2>1, OthersAreKept DEF Own, StoreInv
  <2>2. CASE q = p
    <3> USE DEF Step, Begin, Finish, Ended, Safe, At, StartWrite, AfterCapture
    <3>1. /\ pc \in [Procs -> Steps] /\ text \in [Procs -> Texts \cup {Nothing}]
          /\ pc[p] \in Writing => text[p] \in Versions
      BY <1>2 DEF StoreInv, Types
    <3>2. CASE Capture(p)
      <4>1. Exists(Main) => Content(fs[Main]) \in Versions
        BY <1>2 DEF StoreInv, Durable, Exists, Content, Targets
      <4> QED BY <1>4, <2>2, <3>1, <3>2, <4>1 DEF Capture, Writing, Holding
    <3>3. CASE Encode(p)
      <4>1. held[p] \in Versions
        BY <3>3 DEF Encode, StoreInv, Writers, Writer
      <4> QED BY <1>4, <2>2, <3>1, <3>3, <4>1 DEF Encode, Writing, Holding
    <3>4. CASE BeginLoad(p) \/ Read(p) \/ Recover(p) \/ Refresh(p) \/ Compare(p) \/ BeginSave(p)
                 \/ MakeDirectory(p) \/ Loaded(p)
                \/ Undo(p) \/ CreateFails(p) \/ Replace(p)
      BY <1>4, <2>2, <3>1, <3>4
         DEF BeginLoad, Read, Recover, Recovered, Refresh, Compare, BeginSave, MakeDirectory, Loaded,
             Undo, CreateFails, Replace,
             Writing, Holding
    <3>5. CASE Create(p) \/ Write(p) \/ Sync(p) \/ Close(p) \/ ReplaceFails(p)
      BY <1>4, <2>2, <3>1, <3>5 DEF Create, Write, Sync, Close, ReplaceFails, Writing, Holding
    <3> QED BY <3>2, <3>3, <3>4, <3>5 DEF Act
  <2> QED BY <2>1, <2>2
<1> QED BY <1>3, <1>4, SettingKept DEF Unspoiled

LEMMA WorldKeepsUnspoiled ==
    ASSUME StoreInv, Unspoiled, World, UNCHANGED setting
    PROVE  Unspoiled'
<1> SUFFICES ASSUME edits' = 0 PROVE Unspoiled'
  BY DEF Unspoiled
<1>1. ~Spoil /\ edits = 0
  BY SettingTypes, KilledChanges DEF Spoil, World, StoreInv, Types, Flush, PowerLoss, bounds
<1>2. /\ \A space \in past \cup {fs}, t \in Targets : space[t] # Absent => space[t].text \in Versions
      /\ \A q \in Procs : pc[q] \in Writing => text[q] \in Versions
      /\ \A t \in Targets : t \in Names
  BY <1>1, TempOwned DEF Unspoiled
<1>3. CASE Flush
  BY <1>2, <1>3, SettingKept DEF Flush, Unspoiled, proc
<1>4. CASE PowerLoss
  <2>1. PICK space \in past :
          /\ past' = {fs'}
          /\ \A n \in Names : /\ fs'[n] = Absent <=> space[n] = Absent
                              /\ space[n] # Absent => fs'[n].text = space[n].text
    BY <1>4, LossChanges DEF StoreInv
  <2>2. \A q \in Procs : pc'[q] \notin Writing
    BY <1>4 DEF PowerLoss, Writing, Holding
  <2> QED BY <1>2, <2>1, <2>2, SettingKept DEF Unspoiled
<1>5. ASSUME NEW p \in Procs, Killed(p) PROVE Unspoiled'
  <2>1. UNCHANGED <<fs, past, text>> /\ \A q \in Procs : pc'[q] \in Writing => pc[q] \in Writing
    BY <1>5, KilledChanges DEF StoreInv, Types, Writing, Holding
  <2> QED BY <1>2, <2>1, SettingKept DEF Unspoiled
<1> QED BY <1>1, <1>3, <1>4, <1>5 DEF World

LEMMA NextUnspoiled == StoreInv /\ Unspoiled /\ [Next]_vars => Unspoiled'
<1>1. ASSUME StoreInv, Unspoiled, Next PROVE Unspoiled'
  BY <1>1, NextIsActOrWorld, ActKeepsUnspoiled, WorldKeepsUnspoiled
<1>2. ASSUME StoreInv, Unspoiled, UNCHANGED vars PROVE Unspoiled'
  <2>1. UNCHANGED <<setting, fs, past, pc, text, edits>>
    BY <1>2, StutterKeeps
  <2> QED BY <1>2, <2>1, SettingKept DEF Unspoiled
<1> QED BY <1>1, <1>2

LEMMA InitUnspoiled == Init => Unspoiled
<1> SUFFICES ASSUME Init PROVE Unspoiled
  OBVIOUS
<1>1. \A t \in Targets : fs[t] = Stored(0) \/ fs[t] = Absent
  BY TempOwned DEF Init
<1>2. 0 \in Versions /\ Stored(0).text = 0
  BY TextsAreNumbers DEF Init, Stored
<1> QED BY <1>1, <1>2 DEF Init, Unspoiled, Writing, Holding

-----------------------------------------------------------------------------
(* Refusals, and loads that fall back.                                      *)

\* The backup, or nothing, is what a load falls back on after a fault, or when
\* somebody has spoiled the layout.
FallsBack(p) ==
    pc[p] = "recover" \/ result[p] \in {"recovered_backup", "error"} => p \in blamed \/ edits > 0

Causes == RefusedForCause /\ \A p \in Procs : FallsBack(p)

\* A load finds the layout in order unless somebody has spoiled it.
LEMMA ReadFallsBack ==
    ASSUME StoreInv, Unspoiled, NEW p \in Procs, Read(p), pc'[p] = "recover"
    PROVE  p \in blamed' \/ edits > 0
<1>1. pc'[p] # "idle" /\ pc'[p] # "refresh"
  OBVIOUS
<1>2. pc \in [Procs -> Steps] /\ Main \in Targets /\ edits \in Nat
  BY SettingTypes DEF StoreInv, Types, Targets
<1>3. Fail(p) \/ (Exists(Main) /\ ~Parses(fs[Main]))
  BY <1>1, <1>2 DEF Read, Step, Finish
<1>4. CASE Exists(Main) /\ ~Parses(fs[Main])
  <2>1. edits # 0
    BY <1>2, <1>4 DEF Unspoiled, StoreInv, Durable, Exists, Parses, Content
  <2> QED BY <1>2, <2>1
<1> QED BY <1>3, <1>4 DEF Fail

LEMMA ActFallsBack ==
    ASSUME StoreInv, Unspoiled, NEW p \in Procs, Act(p), UNCHANGED setting,
           NEW q \in Procs, FallsBack(q)
    PROVE  FallsBack(q)'
<1>1. edits' = edits /\ edits \in Nat
  <2>1. edits' = edits
    BY DEF Act, BeginLoad, Read, Recover, Refresh, Compare, BeginSave, MakeDirectory, Capture, Encode,
           Loaded, Create, CreateFails, Write, Sync, Close, Replace, ReplaceFails, Undo, Safe, Fail, Stray,
           bounds
  <2> QED BY <2>1, SettingTypes DEF StoreInv, Types
<1>2. CASE q # p
  BY <1>1, <1>2, OthersAreKept DEF FallsBack, Own, StoreInv
<1>3. CASE q = p
  <2> USE DEF Step, Begin, Finish, Ended, Safe, Fail, At, AfterCapture, StartWrite, FallsBack
  <2>1. result \in [Procs -> Results] /\ pc \in [Procs -> Steps]
    BY DEF StoreInv, Types
  <2>2. CASE Read(p)
    <3>1. pc'[p] # "recover" => result'[p] = "default" \/ (result'[p] = result[p] /\ blamed' = blamed)
      BY <2>1, <2>2 DEF Read
    <3>2. pc'[p] = "recover" => p \in blamed' \/ edits > 0
      BY <2>2, ReadFallsBack
    <3> QED BY <1>1, <1>3, <3>1, <3>2
  <2>3. CASE Recover(p)
    BY <1>1, <1>3, <2>1, <2>3 DEF Recover, Recovered
  <2>4. CASE BeginLoad(p) \/ BeginSave(p) \/ MakeDirectory(p) \/ Loaded(p)
    BY <1>1, <1>3, <2>1, <2>4 DEF BeginLoad, BeginSave, MakeDirectory, Loaded
  <2>5. CASE Refresh(p) \/ Compare(p) \/ Capture(p) \/ Encode(p)
    BY <1>1, <1>3, <2>1, <2>5 DEF Refresh, Compare, Capture, Encode
  <2>6. CASE Create(p) \/ Write(p) \/ Sync(p) \/ Close(p) \/ ReplaceFails(p)
    BY <1>1, <1>3, <2>1, <2>6 DEF Create, Write, Sync, Close, ReplaceFails
  <2>7. CASE CreateFails(p) \/ Replace(p) \/ Undo(p)
    BY <1>1, <1>3, <2>1, <2>7 DEF CreateFails, Replace, Undo
  <2> QED BY <2>2, <2>3, <2>4, <2>5, <2>6, <2>7 DEF Act
<1> QED BY <1>2, <1>3

LEMMA ActRefusesForCause ==
    ASSUME StoreInv, Unspoiled, Causes, crashes + strays < MaxAttempts,
           NEW p \in Procs, Act(p), UNCHANGED setting
    PROVE  Causes'
<1>1. \A q \in Procs : FallsBack(q)'
  BY ActFallsBack DEF Causes
<1> SUFFICES ASSUME NEW q \in Procs, result'[q] = "failed" PROVE q \in blamed'
  BY <1>1, SettingKept DEF Causes, RefusedForCause, FallsBack
<1>2. CASE q # p
  BY <1>2, OthersAreKept DEF Causes, RefusedForCause, StoreInv
<1>3. CASE q = p
  <2> USE DEF Step, Begin, Finish, Ended, Safe, Fail, At
  <2>1. result \in [Procs -> Results] /\ (result[p] = "failed" => p \in blamed)
    BY DEF StoreInv, Types, Causes, RefusedForCause
  <2>2. CASE CreateFails(p)
    BY <1>3, <2>2, NamesAreFree
  <2>3. CASE Undo(p)
    BY <1>3, <2>3 DEF Undo, StoreInv, Blame
  <2>4. CASE BeginLoad(p) \/ BeginSave(p)
    BY <1>3, <2>1, <2>4 DEF BeginLoad, BeginSave
  <2>5. CASE Read(p) \/ Recover(p) \/ Refresh(p) \/ Compare(p) \/ Loaded(p)
    BY <1>3, <2>1, <2>5 DEF Read, Recover, Recovered, Refresh, Compare, Loaded
  <2>6. CASE MakeDirectory(p) \/ Capture(p) \/ Encode(p)
    BY <1>3, <2>1, <2>6 DEF MakeDirectory, Capture, Encode
  <2>7. CASE Create(p) \/ Write(p) \/ Sync(p) \/ Close(p) \/ ReplaceFails(p)
    BY <1>3, <2>1, <2>7 DEF Create, Write, Sync, Close, ReplaceFails
  <2>8. CASE Replace(p)
    BY <1>3, <2>1, <2>8 DEF Replace
  <2> QED BY <2>2, <2>3, <2>4, <2>5, <2>6, <2>7, <2>8 DEF Act
<1> QED BY <1>2, <1>3

LEMMA WorldKeepsCauses ==
    ASSUME StoreInv, Causes, World, UNCHANGED setting
    PROVE  Causes'
<1>1. /\ Procs' = Procs /\ edits \in Nat
      /\ \A p \in Procs : (result[p] = "failed" => p \in blamed) /\ FallsBack(p)
  BY SettingKept, SettingTypes DEF Causes, RefusedForCause, StoreInv, Types
<1> SUFFICES ASSUME NEW p \in Procs
             PROVE  (result'[p] = "failed" => p \in blamed') /\ FallsBack(p)'
  BY <1>1 DEF Causes, RefusedForCause, FallsBack
<1>2. CASE PowerLoss
  BY <1>1, <1>2 DEF PowerLoss, FallsBack
<1>3. CASE Flush
  BY <1>1, <1>3 DEF Flush, bounds, proc, FallsBack
<1>4. CASE Spoil
  BY <1>1, <1>4 DEF Spoil, proc, FallsBack
<1>5. ASSUME NEW q \in Procs, Killed(q)
      PROVE  (result'[p] = "failed" => p \in blamed') /\ FallsBack(p)'
  <2>1. /\ UNCHANGED <<blamed, edits>>
        /\ p = q => pc'[p] = "idle" /\ result'[p] = "none"
        /\ p # q => pc'[p] = pc[p] /\ result'[p] = result[p]
    BY <1>5, KilledChanges DEF StoreInv, Types
  <2> QED BY <1>1, <2>1 DEF FallsBack
<1> QED BY <1>2, <1>3, <1>4, <1>5 DEF World

\* A save is refused only because something really failed, and a load falls back
\* for that reason or because somebody spoiled the layout; the names that earlier
\* lives of an instance left behind are no reason (the loop over names).
THEOREM RefusalsHaveCauses ==
    ASSUME NamesSuffice
    PROVE  Spec => []RefusedForCause
<1>1. Init => Causes
  BY DEF Init, Causes, RefusedForCause, FallsBack
<1>2. StoreInv /\ Unspoiled /\ Causes /\ [Next]_vars => Causes'
  <2> SUFFICES ASSUME StoreInv, Unspoiled, Causes, [Next]_vars PROVE Causes'
    OBVIOUS
  <2>1. crashes + strays < MaxAttempts
    BY NamesLeft DEF StoreInv
  <2>2. CASE UNCHANGED vars
    <3>1. UNCHANGED <<setting, pc, result, blamed, edits>>
      BY <2>2, StutterKeeps
    <3> QED BY <3>1, SettingKept DEF Causes, RefusedForCause, FallsBack
  <2>3. CASE Next
    BY <2>1, <2>3, NextIsActOrWorld, ActRefusesForCause, WorldKeepsCauses
  <2> QED BY <2>2, <2>3
<1>3. Causes => RefusedForCause
  BY DEF Causes
<1> QED BY <1>1, <1>2, <1>3, InitUnspoiled, NextUnspoiled, StoreInvariant, PTL DEF Spec

-----------------------------------------------------------------------------
(* An instance that nothing disturbs.                                       *)

\* Without faults an atomic_write is carried through.
LEMMA NothingFails ==
    ASSUME StoreInv, faults' = 0, crashes + strays < MaxAttempts, NEW p \in Procs, Act(p)
    PROVE  ~Fail(p) /\ ~CreateFails(p) /\ ~Undo(p) /\ ~ReplaceFails(p)
<1>1. faults \in Nat /\ StoreAssumption
  BY SettingTypes, StoreAssumption DEF StoreInv, Types
<1>2. ~Fail(p)
  BY <1>1 DEF Fail
<1>3. ~CreateFails(p)
  BY <1>2, NamesAreFree, StoreAssumption
<1>4. ~Undo(p)
  <2> SUFFICES ASSUME Undo(p) PROVE FALSE
    OBVIOUS
  <2>1. pc[p] = "undo" /\ faults' = faults
    BY DEF Undo, At, Stray, bounds
  <2>2. faults > 0
    BY <2>1 DEF StoreInv, Blame
  <2> QED BY <1>1, <2>1, <2>2
<1> QED BY <1>2, <1>3, <1>4 DEF ReplaceFails

\* Instance p writes the layout, or is about to, or it writes the backup.
Encoding(p)  == pc[p] = "encode" \/ (pc[p] \in Writing /\ target[p] = Main)
BackingUp(p) == pc[p] \in Writing /\ target[p] = Bak

LEMMA Phases ==
    ASSUME StoreInv, NEW p \in Procs, UNCHANGED setting
    PROVE  /\ BeginLoad(p) \/ Read(p) \/ Recover(p) \/ Refresh(p) \/ Compare(p) \/ BeginSave(p) \/ MakeDirectory(p) \/ Loaded(p) =>
                ~Encoding(p) /\ ~BackingUp(p) /\ ~Encoding(p)' /\ ~BackingUp(p)' /\ UNCHANGED before
           /\ Capture(p) /\ ~Fail(p) =>
                /\ pc[p] = "capture" /\ ~Encoding(p) /\ UNCHANGED <<job, before>>
                /\ \/ Exists(Main) /\ BackingUp(p)' /\ ~Encoding(p)' /\ text'[p] = Content(fs[Main])
                   \/ ~Exists(Main) /\ ~BackingUp(p)' /\ (job[p] = "save" => Encoding(p)')
                /\ pc'[p] \notin {"refresh", "compare", "capture"}
           /\ Encode(p) /\ ~Fail(p) =>
                Encoding(p) /\ Encoding(p)' /\ ~BackingUp(p)' /\ UNCHANGED <<job, before>>
                /\ pc'[p] \notin {"refresh", "compare", "capture"}
           /\ (Create(p) \/ Write(p) \/ Sync(p) \/ Close(p)) /\ ~Fail(p) =>
                /\ Encoding(p)' = Encoding(p) /\ BackingUp(p)' = BackingUp(p)
                /\ UNCHANGED <<job, text, before>> /\ pc'[p] \notin {"refresh", "compare", "capture"}
           /\ Replace(p) =>
                /\ UNCHANGED job /\ ~BackingUp(p)' /\ pc'[p] \notin {"refresh", "compare", "capture"}
                /\ \/ target[p] = Main /\ Encoding(p) /\ ~Encoding(p)' /\ before' = Content(fs[Main])
                   \/ /\ target[p] = Bak /\ BackingUp(p) /\ UNCHANGED before
                      /\ Encoding(p)' = (job[p] = "save")
<1>1. /\ pc \in [Procs -> Steps] /\ target \in [Procs -> Targets] /\ text \in [Procs -> Texts \cup {Nothing}]
      /\ target[p] \in {Main, Bak} /\ Main # Bak /\ job[p] \in {"load", "save"}
  BY TempNames DEF StoreInv, Types, Targets
<1> USE DEF Encoding, BackingUp, Writing, Holding, At, Step, Begin, Finish, Ended, StartWrite,
            AfterCapture
<1>2. BeginLoad(p) \/ Read(p) \/ Recover(p) \/ Refresh(p) \/ Compare(p) \/ BeginSave(p) \/ MakeDirectory(p) \/ Loaded(p) =>
         ~Encoding(p) /\ ~BackingUp(p) /\ ~Encoding(p)' /\ ~BackingUp(p)' /\ UNCHANGED before
  BY <1>1 DEF BeginLoad, Read, Recover, Recovered, Refresh, Compare, BeginSave, MakeDirectory, Loaded
<1>3. Capture(p) /\ ~Fail(p) =>
         /\ pc[p] = "capture" /\ ~Encoding(p) /\ UNCHANGED <<job, before>>
         /\ \/ Exists(Main) /\ BackingUp(p)' /\ ~Encoding(p)' /\ text'[p] = Content(fs[Main])
            \/ ~Exists(Main) /\ ~BackingUp(p)' /\ (job[p] = "save" => Encoding(p)')
         /\ pc'[p] \notin {"refresh", "compare", "capture"}
  BY <1>1 DEF Capture
<1>4. Encode(p) /\ ~Fail(p) =>
         Encoding(p) /\ Encoding(p)' /\ ~BackingUp(p)' /\ UNCHANGED <<job, before>>
         /\ pc'[p] \notin {"refresh", "compare", "capture"}
  BY <1>1 DEF Encode
<1>5. (Create(p) \/ Write(p) \/ Sync(p) \/ Close(p)) /\ ~Fail(p) =>
         /\ Encoding(p)' = Encoding(p) /\ BackingUp(p)' = BackingUp(p)
         /\ UNCHANGED <<job, text, before>> /\ pc'[p] \notin {"refresh", "compare", "capture"}
  BY <1>1 DEF Create, Write, Sync, Close
<1>6. Replace(p) =>
         /\ UNCHANGED job /\ ~BackingUp(p)' /\ pc'[p] \notin {"refresh", "compare", "capture"}
         /\ \/ target[p] = Main /\ Encoding(p) /\ ~Encoding(p)' /\ before' = Content(fs[Main])
            \/ /\ target[p] = Bak /\ BackingUp(p) /\ UNCHANGED before
               /\ Encoding(p)' = (job[p] = "save")
  BY <1>1 DEF Replace
<1> QED BY <1>2, <1>3, <1>4, <1>5, <1>6

-----------------------------------------------------------------------------
(* The backup, for an instance that nothing disturbs.                       *)

Quiet == (\E p \in Procs : Procs = {p}) /\ faults = 0 /\ crashes = 0 /\ edits = 0

\* While the layout is written the backup is a copy of it; while the backup is
\* written the layout is what is copied.
Trail(p) ==
    /\ Exists(Bak) => Exists(Main) /\ Content(fs[Bak]) \in {Content(fs[Main]), before}
    /\ Encoding(p) /\ Exists(Main) => Exists(Bak) /\ Content(fs[Bak]) = Content(fs[Main])
    /\ BackingUp(p) => Exists(Main) /\ text[p] = Content(fs[Main])

Trailing == Quiet => \A p \in Procs : Trail(p)

LEMMA ActKeepsTrail ==
    ASSUME StoreInv, NEW p \in Procs, Act(p), UNCHANGED setting, Trail(p),
           faults' = 0, crashes + strays < MaxAttempts
    PROVE  Trail(p)'
<1>1. ~Fail(p) /\ ~CreateFails(p) /\ ~Undo(p) /\ ~ReplaceFails(p)
  BY NothingFails
<1>2. Main \in Targets /\ Bak \in Targets /\ Main # Bak
  BY TempNames DEF Targets
<1>3. CASE Replace(p)
  <2>1. /\ \A t \in Targets \ {target[p]} : fs'[t] = fs[t]
        /\ fs'[target[p]] # Absent /\ Content(fs'[target[p]]) = text[p]
    BY <1>3, TargetReplaced
  <2>2. CASE target[p] = Main /\ Encoding(p) /\ ~Encoding(p)' /\ before' = Content(fs[Main])
    <3>1. fs'[Bak] = fs[Bak] /\ fs'[Main] # Absent /\ ~BackingUp(p)'
      BY <1>2, <1>3, <2>1, <2>2, Phases
    <3> QED BY <2>2, <3>1 DEF Trail, Exists
  <2>3. CASE target[p] = Bak /\ BackingUp(p) /\ UNCHANGED before
    <3>1. fs'[Main] = fs[Main] /\ fs'[Bak] # Absent /\ Content(fs'[Bak]) = text[p] /\ ~BackingUp(p)'
      BY <1>2, <1>3, <2>1, <2>3, Phases
    <3> QED BY <2>3, <3>1 DEF Trail, Exists
  <2> QED BY <1>3, <2>2, <2>3, Phases
<1>4. CASE ~Replace(p)
  <2>1. fs'[Main] = fs[Main] /\ fs'[Bak] = fs[Bak]
    BY <1>2, <1>4, TargetsAreKept
  <2>2. CASE BeginLoad(p) \/ Read(p) \/ Recover(p) \/ Refresh(p) \/ Compare(p) \/ BeginSave(p)
               \/ MakeDirectory(p) \/ Loaded(p)
    BY <2>1, <2>2, Phases DEF Trail, Exists
  <2>3. CASE Capture(p)
    BY <1>1, <2>1, <2>3, Phases DEF Trail, Exists
  <2>4. CASE Encode(p)
    BY <1>1, <2>1, <2>4, Phases DEF Trail, Exists
  <2>5. CASE Create(p) \/ Write(p) \/ Sync(p) \/ Close(p)
    BY <1>1, <2>1, <2>5, Phases DEF Trail, Exists
  <2> QED BY <1>1, <1>4, <2>2, <2>3, <2>4, <2>5 DEF Act
<1> QED BY <1>3, <1>4

LEMMA NextTrailing ==
    ASSUME NamesSuffice
    PROVE  StoreInv /\ Trailing /\ [Next]_vars => Trailing'
<1> SUFFICES ASSUME StoreInv, Trailing, [Next]_vars, Quiet' PROVE \A p \in Procs' : Trail(p)'
  BY DEF Trailing
<1>1. CASE UNCHANGED vars
  <2>1. /\ UNCHANGED <<setting, fs, pc, target, text>>
        /\ UNCHANGED <<before, faults, crashes, strays, edits>>
    BY <1>1, StutterKeeps
  <2>2. Quiet
    BY <2>1, SettingKept DEF Quiet
  <2> QED BY <2>1, <2>2, SettingKept
          DEF Trailing, Trail, Exists, Content, Encoding, BackingUp, Writing, Holding
<1>2. CASE Next
  <2>1. UNCHANGED setting /\ (World \/ \E p \in Procs : Act(p))
    BY <1>2, NextIsActOrWorld
  <2>2. faults' = 0 /\ crashes' = 0 /\ edits' = 0 /\ \E p \in Procs : Procs = {p}
    BY <2>1, SettingKept DEF Quiet
  <2>3. CASE World
    <3>1. crashes \in Nat /\ edits \in Nat
      BY SettingTypes DEF StoreInv, Types
    <3>2. Flush \/ \E p \in Procs : Killed(p)
      BY <2>2, <2>3, <3>1 DEF World, Spoil, PowerLoss
    <3>3. /\ UNCHANGED <<fs, target, text, before, faults, crashes, edits>>
          /\ \A p \in Procs : pc'[p] = pc[p] \/ pc'[p] = "idle"
      <4>1. CASE Flush
        BY <4>1 DEF Flush, proc, bounds
      <4>2. CASE \E p \in Procs : Killed(p)
        BY <4>2, KilledChanges DEF StoreInv, Types
      <4> QED BY <3>2, <4>1, <4>2
    <3>4. Quiet
      BY <2>2, <3>3 DEF Quiet
    <3> QED BY <2>1, <3>3, <3>4, SettingKept
            DEF Trailing, Trail, Exists, Content, Encoding, BackingUp, Writing, Holding
  <2>5. crashes + strays < MaxAttempts
    BY NamesLeft DEF StoreInv
  <2>4. ASSUME NEW p \in Procs, Act(p) PROVE \A q \in Procs' : Trail(q)'
    <3>1. crashes = 0 /\ edits = 0
      BY <2>2, <2>4
         DEF Act, BeginLoad, Read, Recover, Refresh, Compare, BeginSave, MakeDirectory, Capture,
             Encode, Loaded,
             Create, CreateFails, Write, Sync, Close, Replace, ReplaceFails, Undo, Safe, Fail, Stray, bounds
    <3>2. faults = 0
      <4>1. UNCHANGED faults \/ Fail(p)
        BY <2>4
           DEF Act, BeginLoad, Read, Recover, Refresh, Compare, BeginSave, MakeDirectory, Capture,
               Encode, Loaded,
               Create, CreateFails, Write, Sync, Close, Replace, ReplaceFails, Undo, Safe, Stray, bounds
      <4> QED BY <2>2, <2>4, <2>5, <4>1, NothingFails
    <3>3. Trail(p) /\ Procs' = {p}
      BY <2>1, <2>2, <3>1, <3>2, SettingKept DEF Quiet, Trailing
    <3>4. Trail(p)'
      BY <2>1, <2>2, <2>4, <2>5, <3>3, ActKeepsTrail
    <3> QED BY <3>3, <3>4
  <2> QED BY <2>1, <2>3, <2>4
<1> QED BY <1>1, <1>2

\* After saves and loads of one instance in which nothing failed the backup holds
\* the layout or the generation before it, though the instance was killed at any
\* of their steps (FileBackup.capture before each save).
THEOREM BackupIsOneBehind ==
    ASSUME NamesSuffice
    PROVE  Spec => []BackupTrails
<1>1. Init => Trailing
  <2> SUFFICES ASSUME Init, NEW p \in Procs PROVE Trail(p)
    BY DEF Trailing
  <2>1. Main \in Names /\ Bak \in Names /\ Main \in Targets /\ Bak \in Targets
    BY TempOwned DEF Targets
  <2>2. fs[Main] = fs[Bak]
    BY <2>1 DEF Init
  <2> QED BY <2>2 DEF Init, Trail, Exists, Encoding, BackingUp, Writing, Holding
<1>2. Trailing => BackupTrails
  BY DEF Trailing, Trail, Quiet, BackupTrails
<1> QED BY <1>1, <1>2, NextTrailing, StoreInvariant, PTL DEF Spec

-----------------------------------------------------------------------------
(* A layout can be loaded again.                                            *)

\* Somebody spoils the layout once, while the only instance rests, and nothing
\* else fails.
SpoiledOnce ==
    /\ MaxEdits = 1 /\ MaxFaults = 0 /\ MaxCrashes = 0 /\ MaxStrays = 0 /\ ~EditsAnytime
    /\ \E p \in Procs : Procs = {p}

\* A spoiled layout is only copied over the backup by a save that goes on to
\* write a good one; a load copies a good one.
Heal(p) ==
    /\ Exists(Bak) => Encoding(p) \/ Parses(fs[Main]) \/ Parses(fs[Bak])
    /\ job[p] = "load" /\ (BackingUp(p) \/ pc[p] \in {"refresh", "compare", "capture"}) => Parses(fs[Main])

Healing == SpoiledOnce => \A p \in Procs : Heal(p)

LEMMA ActKeepsHeal ==
    ASSUME StoreInv, NEW p \in Procs, Act(p), UNCHANGED setting, Heal(p),
           faults' = 0, crashes + strays < MaxAttempts
    PROVE  Heal(p)'
<1>1. ~Fail(p) /\ ~CreateFails(p) /\ ~Undo(p) /\ ~ReplaceFails(p)
  BY NothingFails
<1>2. Main \in Targets /\ Bak \in Targets /\ Main # Bak /\ job[p] \in {"load", "save"}
  BY TempNames DEF Targets, StoreInv, Types
<1>4. CASE Replace(p)
  <2>1. /\ \A t \in Targets \ {target[p]} : fs'[t] = fs[t]
        /\ Content(fs'[target[p]]) = text[p]
    BY <1>4, TargetReplaced
  <2>2. CASE target[p] = Main /\ Encoding(p)
    <3>1. text[p] \in Versions
      BY <1>4, <2>2 DEF Replace, At, Writing, Holding, StoreInv, Writers, Writer
    <3>2. Parses(fs[Main])'
      BY <2>1, <2>2, <3>1, SettingKept DEF Parses, Content
    <3> QED BY <3>2 DEF Heal
  <2>3. CASE target[p] = Bak /\ BackingUp(p) /\ Encoding(p)' = (job[p] = "save")
    <3>1. Parses(fs[Main])' = Parses(fs[Main])
      BY <1>2, <2>1, <2>3, SettingKept DEF Parses, Content
    <3>2. UNCHANGED job /\ ~BackingUp(p)' /\ pc'[p] \notin {"refresh", "compare", "capture"}
      BY <1>4, Phases
    <3> QED BY <1>2, <2>3, <3>1, <3>2 DEF Heal
  <2> QED BY <1>4, <2>2, <2>3, Phases
<1>5. CASE ~Replace(p)
  <2>1. fs'[Main] = fs[Main] /\ fs'[Bak] = fs[Bak]
    BY <1>2, <1>5, TargetsAreKept
  <2>2. /\ Parses(fs[Main])' = Parses(fs[Main]) /\ Parses(fs[Bak])' = Parses(fs[Bak])
        /\ Exists(Bak)' = Exists(Bak)
    BY <2>1, SettingKept DEF Parses, Content, Exists
  <2>3. CASE BeginLoad(p) \/ Read(p) \/ Recover(p) \/ Refresh(p) \/ Compare(p) \/ BeginSave(p)
               \/ MakeDirectory(p) \/ Loaded(p)
    <3>1. ~Encoding(p) /\ ~BackingUp(p) /\ ~BackingUp(p)'
      BY <2>3, Phases
    <3>2. job'[p] = "load" /\ pc'[p] \in {"refresh", "compare", "capture"} => Parses(fs[Main])
      <4>1. CASE Read(p)
        BY <4>1, <1>1 DEF Read, Step, Finish, StoreInv, Types
      <4>5. CASE Recover(p)
        BY <4>5, <1>1 DEF Recover, Recovered, Step, Finish, StoreInv, Types
      <4>6. CASE Compare(p)
        BY <4>6 DEF Compare, At, Heal
      <4>2. CASE Refresh(p)
        BY <4>2 DEF Refresh, At, Heal
      <4>3. CASE MakeDirectory(p)
        BY <4>3, <1>1 DEF MakeDirectory, At, StoreInv, Writers, Writer
      <4>4. CASE BeginLoad(p) \/ BeginSave(p) \/ Loaded(p)
        BY <4>4 DEF BeginLoad, BeginSave, Loaded, Begin, Step, Finish, StoreInv, Types
      <4> QED BY <2>3, <4>1, <4>2, <4>3, <4>4, <4>5, <4>6
    <3> QED BY <2>2, <3>1, <3>2 DEF Heal
  <2>4. CASE Capture(p)
    BY <1>1, <1>2, <2>2, <2>4, Phases DEF Heal
  <2>5. CASE Encode(p)
    BY <1>1, <2>2, <2>5, Phases DEF Heal
  <2>6. CASE Create(p) \/ Write(p) \/ Sync(p) \/ Close(p)
    BY <1>1, <2>2, <2>6, Phases DEF Heal
  <2> QED BY <1>1, <1>5, <2>3, <2>4, <2>5, <2>6 DEF Act
<1> QED BY <1>4, <1>5

LEMMA NextHealing == StoreInv /\ Unspoiled /\ Healing /\ [Next]_vars => Healing'
<1> SUFFICES ASSUME StoreInv, Unspoiled, Healing, [Next]_vars, SpoiledOnce'
             PROVE  \A p \in Procs' : Heal(p)'
  BY DEF Healing
<1>1. UNCHANGED setting
  BY StutterKeeps, NextIsActOrWorld
<1>2. SpoiledOnce /\ faults = 0 /\ crashes = 0 /\ strays = 0 /\ edits \in 0..1 /\ Procs' = Procs
  <2>1. SpoiledOnce
    BY <1>1, SettingKept DEF SpoiledOnce
  <2> QED BY <1>1, <2>1, SettingKept DEF SpoiledOnce, StoreInv, Types
<1>3. \A p \in Procs : Heal(p)
  BY <1>2 DEF Healing
<1>4. Main \in Names /\ Bak \in Names /\ Main # Bak /\ Bak \in Targets
  BY TempOwned, TempNames DEF Targets
<1>5. CASE UNCHANGED vars
  <2>1. UNCHANGED <<setting, fs, pc, job, target>>
    BY <1>5, StutterKeeps
  <2> QED BY <1>3, <2>1, SettingKept
          DEF Heal, Exists, Parses, Content, Encoding, BackingUp, Writing, Holding
<1>6. CASE Flush
  <2>1. UNCHANGED <<fs, pc, job, target>>
    BY <1>6 DEF Flush, proc
  <2> QED BY <1>1, <1>3, <2>1, SettingKept
          DEF Heal, Exists, Parses, Content, Encoding, BackingUp, Writing, Holding
<1>7. CASE Spoil
  <2> SUFFICES ASSUME NEW p \in Procs PROVE Heal(p)'
    BY <1>2
  <2>1. edits = 0 /\ pc[p] = "idle"
    BY <1>2, <1>7 DEF Spoil, Resting, SpoiledOnce
  <2>2. fs[Bak] # Absent => fs[Bak].text \in Versions /\ fs[Bak].whole
    BY <1>4, <2>1 DEF Unspoiled, StoreInv, Durable
  <2>3. fs'[Bak] = fs[Bak] /\ pc'[p] = pc[p]
    BY <1>4, <1>7, SpoilChanges DEF Spoil, proc, StoreInv, Types
  <2>4. Exists(Bak)' => Parses(fs[Bak])'
    BY <1>1, <2>2, <2>3, SettingKept DEF Exists, Parses, Content
  <2>5. ~BackingUp(p)' /\ pc'[p] \notin {"refresh", "compare", "capture"}
    BY <2>1, <2>3 DEF BackingUp, Writing, Holding
  <2> QED BY <2>4, <2>5 DEF Heal
<1>8. ~PowerLoss /\ \A p \in Procs : ~Killed(p)
  BY <1>2 DEF PowerLoss, Killed, Stray, SpoiledOnce
<1>9. ASSUME NEW p \in Procs, Act(p) PROVE \A q \in Procs' : Heal(q)'
  <2>1. faults' \in 0..MaxFaults
    BY <1>1, <1>9, ActKeepsTypes, SettingKept DEF StoreInv, Types
  <2>2. faults' = 0
    BY <1>2, <2>1 DEF SpoiledOnce
  <2>3. Heal(p)'
    BY <1>1, <1>2, <1>3, <1>9, <2>2, ActKeepsHeal, StoreAssumption
  <2>4. Procs' = {p}
    BY <1>2, <1>9 DEF SpoiledOnce
  <2> QED BY <2>3, <2>4
<1> QED BY <1>5, <1>6, <1>7, <1>8, <1>9, NextIsActOrWorld DEF World

\* Nobody spoils the layout, or it is spoiled once and nothing else fails.
Gentle ==
    \A s \in Settings :
        \/ s.edits = 0
        \/ /\ s.edits = 1 /\ s.faults = 0 /\ s.crashes = 0 /\ s.strays = 0 /\ ~s.anytime
           /\ \E p \in s.procs : s.procs = {p}

\* Whenever the instances rest and there is a backup, a layout can be loaded:
\* whatever failed and whenever the power went, or after an editor has spoiled
\* the layout once (load's fallback, capture before save).
THEOREM LayoutsAreRecoverable ==
    ASSUME Gentle
    PROVE  Spec => []Recoverable
<1>1. Init => Healing
  <2> SUFFICES ASSUME Init, NEW p \in Procs PROVE Heal(p)
    BY DEF Healing
  <2>1. Main \in Names /\ Bak \in Names /\ Main \in Targets /\ Bak \in Targets
    BY TempOwned DEF Targets
  <2>2. 0 \in Versions /\ Stored(0).text = 0 /\ Stored(0).whole
    BY TextsAreNumbers DEF Init, Stored
  <2>3. Exists(Bak) => Parses(fs[Bak])
    BY <2>1, <2>2 DEF Init, Exists, Parses, Content
  <2> QED BY <2>3 DEF Init, Heal, BackingUp, Writing, Holding
<1>2. StoreInv /\ Unspoiled /\ Healing => Recoverable
  <2> SUFFICES ASSUME StoreInv, Unspoiled, Healing, Resting, fs[Bak] # Absent
               PROVE  \E t \in Targets : Parses(fs[t])
    BY DEF Recoverable, Exists
  <2>1. Main \in Targets /\ Bak \in Targets
    BY DEF Targets
  <2>2. CASE setting.edits = 0
    <3>1. edits = 0
      BY <2>2 DEF StoreInv, Types, MaxEdits
    <3>2. fs[Bak].text \in Versions /\ fs[Bak].whole
      BY <2>1, <3>1 DEF Unspoiled, StoreInv, Durable
    <3> QED BY <2>1, <3>2 DEF Parses, Content
  <2>3. CASE setting.edits # 0
    <3>1. SpoiledOnce
      BY <2>3 DEF Gentle, StoreInv, Types, SpoiledOnce, MaxEdits, MaxFaults, MaxCrashes, MaxStrays,
                  EditsAnytime, Procs
    <3>2. PICK p \in Procs : Procs = {p}
      BY <3>1 DEF SpoiledOnce
    <3>3. Heal(p) /\ ~Encoding(p)
      BY <3>1, <3>2 DEF Healing, Resting, Encoding, Writing, Holding
    <3> QED BY <2>1, <3>3 DEF Heal, Exists
  <2> QED BY <2>2, <2>3
<1> QED BY <1>1, <1>2, InitUnspoiled, NextUnspoiled, NextHealing, StoreInvariant, PTL DEF Spec

-----------------------------------------------------------------------------
(* What the texts are.                                                      *)

\* Nothing is written but what somebody asked to save or an editor wrote; what
\* replaces the layout is the layout of the session.
Known == 0..version \cup {Bad}

Worded(p) ==
    /\ pc[p] \in Writing => text[p] \in Known /\ (target[p] = Main => text[p] = held[p])
    /\ pc[p] \in {"mkdir", "capture", "encode"} \cup Writing /\ job[p] = "save" => held[p] \in 0..version

FilesKnown == \A space \in past \cup {fs}, t \in Targets : space[t] # Absent => space[t].text \in Known

\* The pairs of texts a power loss may bring back.
Pairs == {Pair(space) : space \in past}

\* The present pair is one of them, and the only one when no loss is to come.
PastPairs == Pair(fs) \in Pairs /\ (crashes = MaxCrashes => Pairs = {Pair(fs)})

Words == FilesKnown /\ PastPairs /\ \A p \in Procs : Worded(p)

\* A version stays known.
LEMMA KnownStays ==
    ASSUME StoreInv, version' \in {version, version + 1}
    PROVE  0..version \subseteq (0..version)' /\ Known \subseteq Known'
<1>1. version \in Nat
  BY TextsAreNumbers DEF StoreInv, Types
<1> QED BY <1>1 DEF Known

LEMMA ContentKnown ==
    ASSUME StoreInv, FilesKnown, NEW t \in Targets
    PROVE  /\ fs[t] \in Files
           /\ fs[t] = Absent => Content(fs[t]) = Nothing
           /\ fs[t] # Absent => Content(fs[t]) = fs[t].text /\ Content(fs[t]) \in Known
           /\ Parses(fs[t]) <=> Content(fs[t]) \in 0..version
           /\ fs[t] = Absent <=> Content(fs[t]) = Nothing
           /\ Nothing \notin Known /\ Nothing \notin 0..version
<1>1. fs[t] \in Files
  BY TempOwned DEF StoreInv, Types
<1>2. version \in 0..MaxVersion /\ MaxVersion \in Nat
  BY SettingTypes DEF StoreInv, Types, Versions
<1>3. Nothing \notin Known /\ Nothing \notin 0..version /\ Bad \notin Versions /\ Nothing \notin Versions
  BY <1>2 DEF Known, Nothing, Bad, Versions
<1>4. fs[t] = Absent => Content(fs[t]) = Nothing
  BY DEF Content, Absent
<1>5. fs[t] # Absent => Content(fs[t]) = fs[t].text /\ Content(fs[t]) \in Known
  BY DEF FilesKnown, StoreInv, Durable, Content
<1>6. \A x \in Known \cup {Nothing} : x \in Versions <=> x \in 0..version
  BY <1>2, <1>3 DEF Known, Versions
<1>7. Parses(fs[t]) <=> Content(fs[t]) \in 0..version
  BY <1>4, <1>5, <1>6 DEF Parses
<1> QED BY <1>1, <1>3, <1>4, <1>5, <1>7

\* A step of an instance changes at most the counter of versions outside its own state.
LEMMA ActCounts ==
    ASSUME NEW p \in Procs, Act(p)
    PROVE  /\ crashes' = crashes
           /\ version' = version \/ BeginSave(p)
           /\ Replace(p) \/ UNCHANGED past \/ past' = Recent(fs')
BY DEF Act, BeginLoad, Read, Recover, Refresh, Compare, BeginSave, MakeDirectory, Capture, Encode, Loaded,
       Create, CreateFails, Write, Sync, Close, Replace, ReplaceFails, Undo, Safe, Fail, Stray, bounds,
       disk, Journal

\* Nobody sees a step of an instance that does not replace a file.
LEMMA PairsAreKept ==
    ASSUME StoreInv, PastPairs, NEW p \in Procs, Act(p), ~Replace(p), UNCHANGED setting
    PROVE  /\ fs'[Main] = fs[Main] /\ fs'[Bak] = fs[Bak]
           /\ Pair(fs)' = Pair(fs) /\ Pairs' = Pairs /\ PastPairs'
<1>1. fs'[Main] = fs[Main] /\ fs'[Bak] = fs[Bak]
  BY TargetsAreKept DEF Targets
<1>2. Pair(fs)' = Pair(fs) /\ Pair(fs') = Pair(fs)
  BY <1>1 DEF Pair, Content
<1>3. crashes' = crashes /\ MaxCrashes' = MaxCrashes
  BY ActCounts, SettingKept
<1>4. Pairs' = Pairs
  <2>1. CASE UNCHANGED past
    BY <2>1 DEF Pairs, Pair, Content
  <2>2. CASE past' = Recent(fs')
    <3>1. Pairs' = {Pair(space) : space \in past'}
      BY DEF Pairs, Pair, Content
    <3>2. CASE crashes < MaxCrashes
      BY <1>2, <2>2, <3>1, <3>2 DEF Recent, Pairs, PastPairs
    <3>3. CASE ~(crashes < MaxCrashes)
      <4>1. crashes = MaxCrashes
        BY <3>3, SettingTypes DEF StoreInv, Types
      <4> QED BY <1>2, <2>2, <3>1, <3>3, <4>1 DEF Recent, PastPairs
    <3> QED BY <3>2, <3>3
  <2> QED BY <2>1, <2>2, ActCounts
<1>5. PastPairs'
  BY <1>2, <1>3, <1>4 DEF PastPairs
<1> QED BY <1>1, <1>2, <1>4, <1>5

\* A file that is replaced, or spoiled, is one more pair, or the only one.
LEMMA PairsAfter ==
    ASSUME StoreInv, PastPairs, UNCHANGED <<setting, crashes>>, past' = Recent(fs') \/ past' = {fs'}
    PROVE  /\ Pairs' = Pairs \cup {Pair(fs')} \/ Pairs' = {Pair(fs')}
           /\ past' = {fs'} => Pairs' = {Pair(fs')}
           /\ Pair(fs)' = Pair(fs') /\ PastPairs'
<1>1. Pairs' = {Pair(space) : space \in past'} /\ Pair(fs)' = Pair(fs')
  BY DEF Pairs, Pair, Content
<1>2. MaxCrashes' = MaxCrashes
  BY SettingKept
<1>3. past' = {fs'} => Pairs' = {Pair(fs')}
  BY <1>1
<1>4. CASE past' = {fs'}
  BY <1>1, <1>3, <1>4 DEF PastPairs
<1>5. CASE past' # {fs'}
  <2>1. past' = past \cup {fs'} /\ crashes # MaxCrashes
    BY <1>5, SettingTypes DEF Recent, StoreInv, Types
  <2>2. Pairs' = Pairs \cup {Pair(fs')}
    BY <1>1, <2>1 DEF Pairs
  <2> QED BY <1>1, <1>2, <1>5, <2>1, <2>2 DEF PastPairs
<1> QED BY <1>1, <1>3, <1>4, <1>5

LEMMA ActKeepsWorded ==
    ASSUME StoreInv, Words, NEW p \in Procs, Act(p)
    PROVE  \A q \in Procs : Worded(q)'
<1>1. Known \subseteq Known' /\ 0..version \subseteq (0..version)' /\ version \in Nat
  <2>1. version' \in {version, version + 1}
    BY ActCounts DEF BeginSave
  <2> QED BY <2>1, KnownStays, TextsAreNumbers DEF StoreInv, Types
<1>2. ASSUME NEW q \in Procs \ {p} PROVE Worded(q)'
  <2>1. Own(q)' = Own(q)
    BY <1>2, OthersAreKept DEF StoreInv
  <2>2. Worded(q)
    BY DEF Words
  <2> QED BY <1>1, <2>1, <2>2 DEF Own, Worded
<1>3. Worded(p)'
  <2> USE DEF Step, Begin, Finish, Ended, At, StartWrite, AfterCapture
  <2>1. /\ pc \in [Procs -> Steps] /\ text \in [Procs -> Texts \cup {Nothing}]
        /\ target \in [Procs -> Targets] /\ held \in [Procs -> Texts \cup {Nothing}]
        /\ job \in [Procs -> {"load", "save"}]
    BY DEF StoreInv, Types
  <2>2. Worded(p) /\ Writer(p) /\ Main # Bak
    BY TempNames DEF Words, StoreInv, Writers
  <2>3. CASE BeginSave(p)
    <3>1. pc'[p] = "mkdir" /\ held'[p] = version + 1 /\ version' = version + 1
      BY <2>1, <2>3 DEF BeginSave
    <3>2. held'[p] \in (0..version)'
      BY <1>1, <3>1
    <3> QED BY <3>1, <3>2 DEF Worded, Writing, Holding
  <2>4. CASE Capture(p)
    <3>1. Exists(Main) => Content(fs[Main]) \in Known
      BY ContentKnown DEF Words, Targets, Exists
    <3>2. UNCHANGED <<held, job, version>> /\ pc[p] = "capture"
      BY <2>4 DEF Capture
    <3>3. \/ pc'[p] = "create" /\ target'[p] = Bak /\ text'[p] \in Known
          \/ pc'[p] \in {"encode", "loaded"}
      BY <2>1, <2>4, <3>1 DEF Capture
    <3> QED BY <1>1, <2>2, <3>2, <3>3 DEF Worded, Writing, Holding
  <2>5. CASE Encode(p)
    <3>1. UNCHANGED <<held, job, version>> /\ held[p] \in 0..version
      BY <2>2, <2>5 DEF Encode, Worded, Writer
    <3>2. (pc'[p] = "create" /\ text'[p] = held[p]) \/ pc'[p] = "idle"
      BY <2>1, <2>5 DEF Encode
    <3> QED BY <1>1, <3>1, <3>2 DEF Worded, Writing, Holding, Known
  <2>6. CASE BeginLoad(p) \/ Read(p) \/ Recover(p) \/ Refresh(p) \/ Compare(p) \/ Loaded(p)
    <3>1. job'[p] = "load" /\ pc'[p] \notin Writing
      BY <2>1, <2>2, <2>6 DEF BeginLoad, Read, Recover, Recovered, Refresh, Compare, Loaded, Writer,
                              Writing, Holding
    <3> QED BY <3>1 DEF Worded
  <2>7. CASE MakeDirectory(p) \/ CreateFails(p) \/ Undo(p) \/ Replace(p)
    <3>1. UNCHANGED <<held, job, version>> /\ pc[p] \in {"mkdir"} \cup Writing
      BY <2>7 DEF MakeDirectory, CreateFails, Undo, Replace, Writing, Holding
    <3>2. pc'[p] \in {"idle", "mkdir", "capture", "encode", "loaded"}
      BY <2>1, <2>7 DEF MakeDirectory, CreateFails, Undo, Replace
    <3> QED BY <1>1, <2>2, <3>1, <3>2 DEF Worded, Writing, Holding
  <2>8. CASE Create(p) \/ Write(p) \/ Sync(p) \/ Close(p) \/ ReplaceFails(p)
    <3>1. UNCHANGED <<held, job, target, text, version>> /\ pc[p] \in Writing
      BY <2>8 DEF Create, Write, Sync, Close, ReplaceFails, Writing, Holding
    <3> QED BY <1>1, <2>2, <3>1 DEF Worded
  <2> QED BY <2>3, <2>4, <2>5, <2>6, <2>7, <2>8 DEF Act
<1> QED BY <1>2, <1>3

LEMMA ActKeepsWords ==
    ASSUME StoreInv, Words, NEW p \in Procs, Act(p), UNCHANGED setting
    PROVE  Words'
<1>1. Known \subseteq Known'
  <2>1. version' \in {version, version + 1}
    BY ActCounts DEF BeginSave
  <2> QED BY <2>1, KnownStays
<1>2. FilesKnown'
  <2> SUFFICES ASSUME NEW t \in Targets
               PROVE  \A space \in past' \cup {fs'} : space[t] # Absent => space[t].text \in Known'
    BY DEF FilesKnown
  <2>1. past' \subseteq past \cup {fs'}
    BY TargetsAreKept, TargetReplaced
  <2>2. fs'[t] # Absent => fs'[t].text \in Known
    <3>1. CASE Replace(p)
      <4>1. text[p] \in Known
        BY <3>1 DEF Words, Worded, Replace, At, Writing, Holding
      <4> QED BY <3>1, <4>1, TargetReplaced DEF Words, FilesKnown
    <3>2. CASE ~Replace(p)
      BY <3>2, TargetsAreKept DEF Words, FilesKnown
    <3> QED BY <3>1, <3>2
  <2> QED BY <1>1, <2>1, <2>2 DEF Words, FilesKnown
<1>3. PastPairs'
  <2>1. CASE Replace(p)
    <3>1. past' = Recent(fs') \/ past' = {fs'}
      BY <2>1 DEF Replace
    <3>2. UNCHANGED <<setting, crashes>> /\ PastPairs
      BY ActCounts DEF Words
    <3> QED BY <3>1, <3>2, PairsAfter
  <2>2. CASE ~Replace(p)
    BY <2>2, PairsAreKept DEF Words
  <2> QED BY <2>1, <2>2
<1>4. Procs' = Procs
  BY SettingKept
<1> QED BY <1>2, <1>3, <1>4, ActKeepsWorded DEF Words

\* A power loss brings back one of the pairs, whole.
LEMMA LossBringsBack ==
    ASSUME StoreInv, PowerLoss, UNCHANGED setting
    PROVE  \E space \in past :
             /\ past' = {fs'} /\ Pair(fs') = Pair(space)
             /\ \A t \in Targets : /\ fs'[t] = Absent <=> space[t] = Absent
                                   /\ space[t] # Absent => fs'[t].text = space[t].text
<1>1. PICK space \in past :
        /\ past' = {fs'}
        /\ \A n \in Names :
             /\ fs'[n] = Absent <=> space[n] = Absent
             /\ space[n] # Absent =>
                  /\ fs'[n].text = space[n].text
                  /\ space[n].whole /\ space[n].synced => fs'[n].whole
  BY LossChanges DEF StoreInv
<1>2. ASSUME NEW t \in Targets
      PROVE  /\ Content(fs'[t]) = Content(space[t])
             /\ fs'[t] = Absent <=> space[t] = Absent
             /\ space[t] # Absent => fs'[t].text = space[t].text
  <2>1. space[t].whole /\ space[t].synced /\ t \in Names
    BY TempOwned DEF StoreInv, Durable
  <2> QED BY <1>1, <2>1 DEF Content
<1>3. Pair(fs') = Pair(space)
  BY <1>2 DEF Pair, Targets
<1> QED BY <1>1, <1>2, <1>3

LEMMA WorldKeepsWords ==
    ASSUME StoreInv, Words, World, UNCHANGED setting
    PROVE  Words'
<1>1. Procs' = Procs /\ MaxCrashes' = MaxCrashes /\ version' = version /\ Known' = Known
  BY SettingKept, KilledChanges DEF StoreInv, World, Flush, Spoil, PowerLoss, Known
<1>2. CASE Flush
  <2>1. past' = {fs'} /\ UNCHANGED <<fs, crashes, pc, job, target, text, held>>
    BY <1>2 DEF Flush, proc, bounds
  <2>2. PastPairs'
    BY <2>1, PairsAfter DEF Words
  <2>3. FilesKnown' /\ \A p \in Procs : Worded(p)'
    BY <1>1, <2>1 DEF Words, FilesKnown, Worded
  <2> QED BY <1>1, <2>2, <2>3 DEF Words
<1>3. CASE Spoil
  <2>1. past' = Recent(fs') /\ UNCHANGED <<crashes, pc, job, target, text, held>>
    BY <1>3 DEF Spoil, Journal, proc
  <2>2. PastPairs'
    BY <2>1, PairsAfter DEF Words
  <2>3. \A p \in Procs : Worded(p)'
    BY <1>1, <2>1 DEF Words, Worded
  <2>4. FilesKnown'
    <3> SUFFICES ASSUME NEW t \in Targets
                 PROVE  \A space \in past' \cup {fs'} : space[t] # Absent => space[t].text \in Known
      BY <1>1 DEF FilesKnown
    <3>1. t \in Names /\ Bad \in Known /\ fs \in [Names -> Files]
      BY TempOwned DEF StoreInv, Types, Known
    <3>2. fs'[t] = fs[t] \/ (fs'[t] = Stored(Bad) /\ Stored(Bad).text = Bad)
      BY <1>3, <3>1, SpoilChanges DEF StoreInv
    <3>3. past' \subseteq past \cup {fs'}
      BY <1>3, SpoilChanges DEF StoreInv
    <3> QED BY <3>1, <3>2, <3>3 DEF Words, FilesKnown
  <2> QED BY <1>1, <2>2, <2>3, <2>4 DEF Words
<1>4. CASE PowerLoss
  <2>1. PICK space \in past :
          /\ past' = {fs'}
          /\ \A t \in Targets : /\ fs'[t] = Absent <=> space[t] = Absent
                                /\ space[t] # Absent => fs'[t].text = space[t].text
    BY <1>4, LossBringsBack
  <2>2. FilesKnown'
    BY <1>1, <2>1 DEF Words, FilesKnown
  <2>3. PastPairs'
    BY <2>1 DEF PastPairs, Pairs, Pair, Content
  <2>4. \A p \in Procs : Worded(p)'
    BY <1>4 DEF PowerLoss, Worded, Writing, Holding
  <2> QED BY <1>1, <2>2, <2>3, <2>4 DEF Words
<1>5. ASSUME NEW q \in Procs, Killed(q) PROVE Words'
  <2>1. UNCHANGED <<fs, past, crashes, job, target, text>>
    BY <1>5, KilledChanges DEF StoreInv
  <2>2. FilesKnown' /\ PastPairs'
    BY <1>1, <2>1 DEF Words, FilesKnown, PastPairs, Pairs, Pair, Content
  <2>3. ASSUME NEW p \in Procs PROVE Worded(p)'
    <3>1. p # q => pc'[p] = pc[p] /\ held'[p] = held[p]
      BY <1>5, KilledChanges DEF StoreInv, Types
    <3>2. p = q => pc'[p] = "idle"
      BY <1>5, KilledChanges DEF StoreInv, Types
    <3> QED BY <1>1, <2>1, <3>1, <3>2 DEF Words, Worded, Writing, Holding
  <2> QED BY <1>1, <2>2, <2>3 DEF Words
<1> QED BY <1>2, <1>3, <1>4, <1>5 DEF World

LEMMA NextWords == StoreInv /\ Words /\ [Next]_vars => Words'
<1>1. ASSUME StoreInv, Words, Next PROVE Words'
  BY <1>1, NextIsActOrWorld, ActKeepsWords, WorldKeepsWords
<1>2. ASSUME StoreInv, Words, UNCHANGED vars PROVE Words'
  <2>1. /\ UNCHANGED <<setting, fs, past, pc, job, target, text, held, version, crashes>>
    BY <1>2, StutterKeeps
  <2>2. FilesKnown' /\ PastPairs'
    BY <1>2, <2>1, SettingKept DEF Words, FilesKnown, PastPairs, Pairs, Pair, Content, Known
  <2>3. \A p \in Procs' : Worded(p)'
    BY <1>2, <2>1, SettingKept DEF Words, Worded, Known
  <2> QED BY <2>2, <2>3 DEF Words
<1> QED BY <1>1, <1>2

LEMMA InitWords == Init => Words
<1> SUFFICES ASSUME Init PROVE Words
  OBVIOUS
<1>1. \A t \in Targets : fs[t] = Stored(0) \/ fs[t] = Absent
  BY TempOwned DEF Init
<1>2. 0 \in Known /\ Stored(0).text = 0
  BY DEF Init, Stored, Known
<1>3. FilesKnown
  BY <1>1, <1>2 DEF Init, FilesKnown
<1>4. PastPairs
  BY DEF Init, PastPairs, Pairs
<1> QED BY <1>3, <1>4 DEF Init, Words, Worded, Writing, Holding

-----------------------------------------------------------------------------
(* A file and its backup that change at one instant: DurableFile.           *)

\* What is seen of the files, and of the sessions.
Layout    == Content(fs[Main])
Backup    == Content(fs[Bak])
FileCalls == [p \in Procs |-> CallOf(p)]
Seen      == <<Platform, Layout, Backup, Pairs, version, FileCalls, held, result>>

Call(p) ==
    \/ File!BeginLoad(p) \/ File!Read(p) \/ File!FindNothing(p) \/ File!GiveUp(p) \/ File!Recover(p)
    \/ File!EndLoad(p) \/ File!BeginSave(p) \/ File!Save(p) \/ File!Refuse(p) \/ File!BackUp(p)

LEMMA CallsAfter ==
    ASSUME StoreInv, NEW p \in Procs, Act(p), UNCHANGED setting
    PROVE  /\ FileCalls[p] = CallOf(p) /\ FileCalls' = [FileCalls EXCEPT ![p] = CallOf(p)']
           /\ [q \in Procs |-> CallOf(q)] = FileCalls /\ [q \in Procs |-> CallOf(q)]' = FileCalls'
           /\ CallOf(p)' = CallOf(p) => FileCalls' = FileCalls
<1>1. Procs' = Procs
  BY SettingKept
<1>2. ASSUME NEW q \in Procs \ {p} PROVE CallOf(q)' = CallOf(q)
  <2>1. Own(q)' = Own(q)
    BY <1>2, OthersAreKept DEF StoreInv
  <2> QED BY <2>1 DEF Own, CallOf
<1> QED BY <1>1, <1>2 DEF FileCalls

\* The steps of an instance before and after the one at which its call takes effect.
LEMMA ActIsCall ==
    ASSUME StoreInv, Words, NEW p \in Procs, Act(p), ~Replace(p), UNCHANGED setting
    PROVE  Call(p) \/ UNCHANGED Seen
<1> USE DEF Step, Begin, Finish, Ended, At, StartWrite, AfterCapture
<1>1. /\ FileCalls[p] = CallOf(p) /\ FileCalls' = [FileCalls EXCEPT ![p] = CallOf(p)']
      /\ [q \in Procs |-> CallOf(q)] = FileCalls /\ [q \in Procs |-> CallOf(q)]' = FileCalls'
  BY CallsAfter
<1>2. UNCHANGED <<Platform, Layout, Backup, Pairs>>
  BY PairsAreKept, SettingKept DEF Words, Layout, Backup, Content
<1>3. UNCHANGED File!files
  BY <1>2 DEF File!files, Layout, Backup, Pairs
<1>4. /\ pc \in [Procs -> Steps] /\ job \in [Procs -> {"load", "save"}]
      /\ target \in [Procs -> Targets] /\ Writer(p) /\ Main # Bak
  BY TempNames DEF StoreInv, Types, Writers
<1>5. /\ Exists(Main) <=> Layout # Nothing
      /\ Parses(fs[Main]) <=> Layout \in 0..version
      /\ Parses(fs[Bak]) <=> Backup \in 0..version
  BY ContentKnown DEF Words, Targets, Layout, Backup, Exists
<1>6. ASSUME CallOf(p)' = CallOf(p), UNCHANGED <<held, result, version>> PROVE UNCHANGED Seen
  BY <1>2, <1>6, CallsAfter DEF Seen
<1>7. ASSUME CallOf(p) = "save", CallOf(p)' = "none", UNCHANGED <<held, version>>,
             result' = [result EXCEPT ![p] = "failed"]
      PROVE  File!Refuse(p)
  BY <1>1, <1>3, <1>7 DEF File!Refuse, File!Ends, File!Calls, File!Answers
<1>8. CASE BeginLoad(p)
  <2>1. /\ CallOf(p) = "none" /\ CallOf(p)' = "load" /\ UNCHANGED <<held, version>>
        /\ result' = [result EXCEPT ![p] = "none"]
    BY <1>4, <1>8 DEF BeginLoad, CallOf
  <2>2. File!BeginLoad(p)
    BY <1>1, <1>3, <2>1 DEF File!BeginLoad, File!Calls, File!Answers
  <2> QED BY <2>2 DEF Call
<1>9. CASE Read(p)
  <2>1. CallOf(p) = "load" /\ UNCHANGED version /\ (pc'[p] = "idle" => CallOf(p)' = "none")
    BY <1>4, <1>9 DEF Read, CallOf
  <2>2. CASE ~Exists(Main)
    <3>1. /\ CallOf(p)' = "none" /\ held' = [held EXCEPT ![p] = Nothing]
          /\ result' = [result EXCEPT ![p] = "default"]
      BY <1>4, <1>9, <2>1, <2>2 DEF Read
    <3>2. File!FindNothing(p)
      BY <1>1, <1>3, <1>5, <2>1, <2>2, <3>1
         DEF File!FindNothing, File!Ends, File!Calls, File!Answers, File!Holds, File!Nothing, Nothing, Layout
    <3> QED BY <3>2 DEF Call
  <2>3. CASE Exists(Main) /\ Parses(fs[Main]) /\ pc'[p] = "refresh"
    <3>1. CallOf(p)' = "read" /\ held' = [held EXCEPT ![p] = Layout] /\ UNCHANGED result
      BY <1>4, <1>9, <2>3 DEF Read, CallOf, Layout, Writer
    <3>2. File!Read(p)
      BY <1>1, <1>3, <1>5, <2>1, <2>3, <3>1
         DEF File!Read, File!Calls, File!Holds, File!Issued, Layout
    <3> QED BY <3>2 DEF Call
  <2>4. CASE Exists(Main) /\ pc'[p] = "recover" /\ UNCHANGED <<held, result>>
    <3>1. CallOf(p)' = "recover"
      BY <2>4 DEF CallOf
    <3>2. File!GiveUp(p)
      BY <1>1, <1>3, <1>5, <2>1, <2>4, <3>1 DEF File!GiveUp, File!Calls, File!Nothing, Nothing, Layout
    <3> QED BY <3>2 DEF Call
  <2> QED BY <1>4, <1>9, <2>2, <2>3, <2>4 DEF Read
<1>15. CASE Recover(p)
  <2>1. CallOf(p) = "recover" /\ CallOf(p)' = "none" /\ UNCHANGED version
    BY <1>4, <1>15 DEF Recover, Recovered, CallOf
  <2>2. \/ /\ Backup \in 0..version /\ held' = [held EXCEPT ![p] = Backup]
           /\ result' = [result EXCEPT ![p] = "recovered_backup"]
        \/ /\ held' = [held EXCEPT ![p] = Nothing]
           /\ result' = [result EXCEPT ![p] = "error"]
    BY <1>5, <1>15 DEF Recover, Recovered, Backup
  <2>3. File!Recover(p)
    BY <1>1, <1>3, <2>1, <2>2
       DEF File!Recover, File!Ends, File!Calls, File!Answers, File!Holds, File!Issued,
           File!Nothing, Nothing, Layout, Backup
  <2> QED BY <2>3 DEF Call
<1>10. CASE Refresh(p) \/ Compare(p) \/ Loaded(p)
  <2>1. CallOf(p) = "read" /\ UNCHANGED <<held, version>>
    BY <1>4, <1>10 DEF Refresh, Compare, Loaded, CallOf, Writer
  <2>2. CASE CallOf(p)' = "read" /\ UNCHANGED result
    BY <1>6, <2>1, <2>2
  <2>3. CASE CallOf(p)' = "none" /\ result' = [result EXCEPT ![p] = "loaded"]
    <3>1. File!EndLoad(p)
      BY <1>1, <1>3, <2>1, <2>3 DEF File!EndLoad, File!Ends, File!Calls, File!Answers
    <3> QED BY <3>1 DEF Call
  <2> QED BY <1>4, <1>10, <2>2, <2>3 DEF Refresh, Compare, Loaded, CallOf, Writer
<1>11. CASE BeginSave(p)
  <2>1. /\ CallOf(p) = "none" /\ CallOf(p)' = "save" /\ version' = version + 1
        /\ held' = [held EXCEPT ![p] = version + 1] /\ result' = [result EXCEPT ![p] = "none"]
    BY <1>4, <1>11 DEF BeginSave, CallOf
  <2>2. File!BeginSave(p)
    BY <1>1, <1>3, <2>1 DEF File!BeginSave, File!Calls, File!Answers, File!Holds
  <2> QED BY <2>2 DEF Call
<1>12. CASE MakeDirectory(p) \/ Encode(p)
  <2>1. CallOf(p) = "save" /\ UNCHANGED <<held, version>>
    BY <1>4, <1>12 DEF MakeDirectory, Encode, CallOf, Writer
  <2>2. \/ CallOf(p)' = "save" /\ UNCHANGED result
        \/ CallOf(p)' = "none" /\ result' = [result EXCEPT ![p] = "failed"]
    BY <1>4, <1>12 DEF MakeDirectory, Encode, CallOf, Writer
  <2> QED BY <1>6, <1>7, <2>1, <2>2 DEF Call
<1>13. CASE CreateFails(p) \/ Undo(p)
  <2>1. UNCHANGED <<held, version, job>> /\ pc[p] \in Writing
    BY <1>13 DEF CreateFails, Undo, Writing, Holding
  <2>2. CASE target[p] = Bak
    <3>1. CallOf(p)' = CallOf(p) /\ UNCHANGED result
      BY <1>4, <1>13, <2>1, <2>2 DEF CreateFails, Undo, CallOf, Writing, Holding
    <3> QED BY <1>6, <2>1, <3>1
  <2>3. CASE target[p] # Bak
    <3>1. /\ CallOf(p) = "save" /\ CallOf(p)' = "none" /\ result' = [result EXCEPT ![p] = "failed"]
      BY <1>4, <1>13, <2>1, <2>3 DEF CreateFails, Undo, CallOf, Writer, Writing, Holding, Targets
    <3> QED BY <1>7, <2>1, <3>1 DEF Call
  <2> QED BY <2>2, <2>3
<1>14. CASE Capture(p) \/ Create(p) \/ Write(p) \/ Sync(p) \/ Close(p) \/ ReplaceFails(p)
  <2>1. UNCHANGED <<held, result, version, job>>
    BY <1>14 DEF Capture, Create, Write, Sync, Close, ReplaceFails
  <2>2. CallOf(p)' = CallOf(p)
    BY <1>4, <1>14, <2>1 DEF Capture, Create, Write, Sync, Close, ReplaceFails, CallOf
  <2> QED BY <1>6, <2>1, <2>2
<1> QED BY <1>8, <1>9, <1>10, <1>11, <1>12, <1>13, <1>14, <1>15 DEF Act

\* The files change at once, and the pair they were may still come back.
LEMMA BecomesAfter ==
    ASSUME StoreInv, Words, UNCHANGED <<setting, crashes>>,
           past' = Recent(fs') \/ past' = {fs'}
    PROVE  /\ File!Becomes(Content(fs'[Main]), Content(fs'[Bak]), FALSE)
           /\ past' = {fs'} => File!Becomes(Content(fs'[Main]), Content(fs'[Bak]), Platform = "windows")
           /\ past' = {fs'} => File!Becomes(Content(fs'[Main]), Content(fs'[Bak]), TRUE)
           /\ Platform # "windows" => File!Becomes(Content(fs'[Main]), Content(fs'[Bak]), Platform = "windows")
<1>1. /\ Pairs' = Pairs \cup {Pair(fs')} \/ Pairs' = {Pair(fs')}
      /\ past' = {fs'} => Pairs' = {Pair(fs')}
  BY PairsAfter DEF Words
<1>2. Pair(fs') = <<Content(fs'[Main]), Content(fs'[Bak])>>
  BY DEF Pair
<1>3. Content(fs[Main])' = Content(fs'[Main]) /\ Content(fs[Bak])' = Content(fs'[Bak])
  BY DEF Content
<1> QED BY <1>1, <1>2, <1>3 DEF File!Becomes, Pairs

\* The step at which a call takes effect.
LEMMA ReplaceIsCall ==
    ASSUME StoreInv, Words, NEW p \in Procs, Replace(p), UNCHANGED setting
    PROVE  File!Save(p) \/ File!BackUp(p)
<1>1. Act(p)
  BY DEF Act
<1>2. /\ FileCalls[p] = CallOf(p) /\ FileCalls' = [FileCalls EXCEPT ![p] = CallOf(p)']
      /\ [q \in Procs |-> CallOf(q)] = FileCalls /\ [q \in Procs |-> CallOf(q)]' = FileCalls'
      /\ CallOf(p)' = CallOf(p) => FileCalls' = FileCalls
  BY <1>1, CallsAfter
<1>3. UNCHANGED <<version, held, job, crashes>> /\ pc[p] = "rename"
  BY DEF Replace, At, bounds
<1>4. File!Becomes(Content(fs'[Main]), Content(fs'[Bak]), Platform = "windows")
  <2>1. past' = Recent(fs') \/ past' = {fs'}
    BY DEF Replace
  <2>2. past' = {fs'} \/ Platform # "windows"
    BY DEF Replace
  <2> QED BY <1>3, <2>1, <2>2, BecomesAfter
<1>5. /\ text[p] \in Known /\ (target[p] = Main => text[p] = held[p] /\ job[p] = "save")
      /\ pc \in [Procs -> Steps] /\ job[p] \in {"load", "save"}
  BY <1>3 DEF Words, Worded, StoreInv, Types, Writers, Writer, Writing, Holding
<1>6. /\ \A t \in Targets \ {target[p]} : fs'[t] = fs[t]
      /\ Content(fs'[target[p]]) = text[p] /\ target[p] \in Targets
  BY TargetReplaced
<1>7. Main \in Targets /\ Bak \in Targets /\ Main # Bak
  BY TempNames DEF Targets
<1>8. CASE target[p] = Main
  <2>1. Content(fs'[Main]) = held[p] /\ Content(fs'[Bak]) = Content(fs[Bak])
    BY <1>5, <1>6, <1>7, <1>8
  <2>2. CallOf(p) = "save" /\ CallOf(p)' = "none" /\ result' = [result EXCEPT ![p] = "saved"]
    BY <1>3, <1>5, <1>7, <1>8 DEF CallOf, Replace, Ended, Finish, Step
  <2> QED BY <1>2, <1>3, <1>4, <2>1, <2>2 DEF File!Save, File!Ends, File!Calls, File!Answers
<1>9. CASE target[p] = Bak
  <2>1. Content(fs'[Bak]) = text[p] /\ Content(fs'[Main]) = Content(fs[Main])
    BY <1>6, <1>7, <1>9
  <2>2. CallOf(p)' = CallOf(p) /\ CallOf(p) \in {"read", "save"} /\ UNCHANGED result
    BY <1>3, <1>5, <1>9 DEF CallOf, Replace, Ended, Step, AfterCapture
  <2>3. text[p] \in File!Issued \cup {File!Bad}
    BY <1>5 DEF Known, File!Issued, File!Bad, Bad
  <2> QED BY <1>2, <1>3, <1>4, <2>1, <2>2, <2>3 DEF File!BackUp, File!sessions
<1> QED BY <1>6, <1>8, <1>9 DEF Targets

LEMMA WorldIsSurroundings ==
    ASSUME StoreInv, Words, World, UNCHANGED setting
    PROVE  File!Spoil \/ File!Settle \/ File!Lose \/ \E p \in Procs : File!Vanish(p)
<1>1. UNCHANGED version /\ Procs' = Procs
  BY SettingKept, KilledChanges DEF StoreInv, World, Flush, Spoil, PowerLoss
<1>2. ASSUME UNCHANGED <<pc, job, held, result>> PROVE UNCHANGED File!sessions
  BY <1>1, <1>2 DEF File!sessions, CallOf
<1>3. Main \in Names /\ Bak \in Names /\ Main # Bak /\ Main \in Targets /\ Bak \in Targets
  BY TempOwned, TempNames DEF Targets
<1>4. CASE Flush
  <2>1. past' = {fs'} /\ UNCHANGED <<fs, crashes, pc, job, held, result>>
    BY <1>4 DEF Flush, proc, bounds
  <2>2. File!Becomes(Content(fs[Main]), Content(fs[Bak]), TRUE)
    BY <2>1, BecomesAfter
  <2> QED BY <1>1, <1>2, <2>1, <2>2 DEF File!Settle
<1>5. CASE Spoil
  <2>1. past' = Recent(fs') /\ UNCHANGED <<crashes, pc, job, held, result>>
    BY <1>5 DEF Spoil, Journal, proc
  <2>2. /\ fs' = [fs EXCEPT ![Main] = Stored(Bad)] /\ fs[Main] # Absent
        /\ Stored(Bad).whole /\ Stored(Bad).text = Bad
    BY <1>5, SpoilChanges DEF StoreInv
  <2>3. Content(fs'[Main]) = File!Bad /\ Content(fs'[Bak]) = Content(fs[Bak])
    BY <1>3, <2>2 DEF StoreInv, Types, Content, File!Bad, Bad
  <2>4. Content(fs[Main]) # File!Nothing
    BY <1>3, <2>2, ContentKnown DEF Words, File!Nothing, Nothing
  <2>5. File!Becomes(File!Bad, Content(fs[Bak]), FALSE)
    BY <2>1, <2>3, BecomesAfter
  <2> QED BY <1>1, <1>2, <2>1, <2>4, <2>5 DEF File!Spoil
<1>6. CASE PowerLoss
  <2>1. PICK space \in past : past' = {fs'} /\ Pair(fs') = Pair(space)
    BY <1>6, LossBringsBack
  <2>2. /\ pc' = [p \in Procs |-> "idle"] /\ result' = [p \in Procs |-> "none"]
        /\ held' = [p \in Procs |-> Nothing]
    BY <1>6 DEF PowerLoss
  <2>3. [p \in Procs |-> CallOf(p)]' = [p \in Procs |-> "none"]
    BY <1>1, <2>2 DEF CallOf
  <2>4. \E pair \in {Pair(s) : s \in past} : File!Becomes(pair[1], pair[2], TRUE)
    <3>1. Pair(space) = <<Content(fs'[Main]), Content(fs'[Bak])>>
      BY <2>1 DEF Pair
    <3>2. Pair(space)[1] = Content(fs'[Main]) /\ Pair(space)[2] = Content(fs'[Bak])
      BY <3>1
    <3>3. /\ Content(fs[Main])' = Content(fs'[Main]) /\ Content(fs[Bak])' = Content(fs'[Bak])
          /\ {Pair(s) : s \in past}' = {Pair(fs')}
      BY <2>1 DEF Pair, Content
    <3>4. File!Becomes(Pair(space)[1], Pair(space)[2], TRUE)
      BY <2>1, <3>1, <3>2, <3>3 DEF File!Becomes
    <3> QED BY <3>4
  <2>5. File!Instances = Procs
    BY DEF File!Instances
  <2> QED BY <1>1, <2>2, <2>3, <2>4, <2>5 DEF File!Lose, File!Nothing, Nothing
<1>7. ASSUME NEW p \in Procs, Killed(p) PROVE File!Vanish(p)
  <2>1. /\ UNCHANGED <<fs, past, job>> /\ pc' = [pc EXCEPT ![p] = "idle"]
        /\ result' = [result EXCEPT ![p] = "none"] /\ held' = [held EXCEPT ![p] = Nothing]
    BY <1>7, KilledChanges DEF StoreInv
  <2>2. ASSUME NEW q \in Procs
        PROVE  CallOf(q)' = IF q = p THEN "none" ELSE CallOf(q)
    BY <2>1 DEF CallOf, StoreInv, Types
  <2>3. [q \in Procs |-> CallOf(q)]' = [[q \in Procs |-> CallOf(q)] EXCEPT ![p] = "none"]
    BY <1>1, <2>2
  <2>4. UNCHANGED File!files
    BY <2>1 DEF File!files, Content, Pair
  <2> QED BY <1>1, <2>1, <2>3, <2>4
          DEF File!Vanish, File!Ends, File!Calls, File!Answers, File!Holds, File!Nothing, Nothing
<1> QED BY <1>4, <1>5, <1>6, <1>7 DEF World

\* The layout store keeps DurableFile's promises on every platform, whatever
\* fails and however many instances load and save: every call takes effect at
\* one step, and a power loss brings back a file and a backup of one instant
\* (load, save, FileBackup.capture and the native atomic_write together).
THEOREM StoreImplementsDurableFile == Spec => ImplementsDurableFile
<1>1. Init => File!Init
  <2> SUFFICES ASSUME Init PROVE File!Init
    OBVIOUS
  <2>1. Main \in Names /\ Bak \in Names /\ Main \in Targets /\ Bak \in Targets
    BY TempOwned DEF Targets
  <2>2. fs[Main] = fs[Bak] /\ (fs[Main] = Stored(0) \/ fs[Main] = Absent) /\ past = {fs}
    BY <2>1 DEF Init
  <2>3. Content(Stored(0)) = 0 /\ Content(Absent) = File!Nothing
    BY DEF Content, Stored, Absent, Nothing, File!Nothing
  <2>4. {Pair(space) : space \in past} = {<<Content(fs[Main]), Content(fs[Bak])>>}
    BY <2>2 DEF Pair
  <2>5. (Platform = "windows") \in BOOLEAN
    OBVIOUS
  <2>6. /\ File!Instances = Procs
        /\ \A p \in Procs : CallOf(p) = "none" /\ held[p] = File!Nothing /\ result[p] = "none"
    BY DEF Init, CallOf, File!Instances, Nothing, File!Nothing
  <2>7. \A p \in Procs : [q \in Procs |-> CallOf(q)][p] = "none"
    BY <2>6
  <2> QED BY <2>2, <2>3, <2>4, <2>5, <2>6, <2>7 DEF File!Init, Init
<1>2. StoreInv /\ Words /\ [Next]_vars => [File!Next]_(File!vars)
  <2> SUFFICES ASSUME StoreInv, Words, [Next]_vars PROVE File!Next \/ UNCHANGED File!vars
    OBVIOUS
  <2>1. UNCHANGED Seen => UNCHANGED File!vars
    BY DEF Seen, Layout, Backup, Pairs, FileCalls, File!vars, File!files, File!sessions
  <2>2. UNCHANGED vars => UNCHANGED Seen
    <3> SUFFICES ASSUME UNCHANGED vars PROVE UNCHANGED Seen
      OBVIOUS
    <3>1. UNCHANGED <<setting, fs, past, pc, job, held, result, version>>
      BY StutterKeeps
    <3> QED BY <3>1, SettingKept DEF Seen, Layout, Backup, Pairs, Pair, Content, FileCalls, CallOf
  <2>3. Next => File!Next \/ UNCHANGED Seen
    <3> SUFFICES ASSUME Next PROVE File!Next \/ UNCHANGED Seen
      OBVIOUS
    <3>1. UNCHANGED setting /\ (World \/ \E p \in Procs : Act(p))
      BY NextIsActOrWorld
    <3>2. UNCHANGED (Platform = "windows") /\ File!Instances = Procs
      BY <3>1, SettingKept DEF File!Instances
    <3>3. CASE World
      BY <3>1, <3>2, <3>3, WorldIsSurroundings DEF File!Next
    <3>4. ASSUME NEW p \in Procs, Act(p) PROVE Call(p) \/ UNCHANGED Seen
      BY <3>1, <3>4, ActIsCall, ReplaceIsCall DEF Call
    <3>5. ASSUME NEW p \in Procs, Call(p) PROVE File!Next
      BY <3>2, <3>5 DEF Call, File!Next
    <3> QED BY <3>1, <3>3, <3>4, <3>5
  <2> QED BY <2>1, <2>2, <2>3
<1> QED BY <1>1, <1>2, InitWords, NextWords, StoreInvariant, PTL DEF Spec, ImplementsDurableFile, File!Spec
==============================================================================
