--------------------------- MODULE SubprocessProofs ---------------------------
(***************************************************************************)
(* Theorems about Subprocess, for every bound on output, time and          *)
(* descriptors and every set of descriptors a program may start with.      *)
(***************************************************************************)
EXTENDS Subprocess, FiniteSetTheorems, WellFoundedInduction, TLAPS

-----------------------------------------------------------------------------
(* The loop: what is known of the helper, the pipes and the result.         *)

States == {"absent", "running", "killed", "zombie", "gone"}
Places == {"turn", "cancel", "observe", "reap", "decide", "poll", "drain",
           "after", "killLeader", "wait", "rest", "result"}

LoopTypes ==
    /\ pc \in Places /\ why \in Flags /\ done \in BOOLEAN
    /\ proc \in [Processes -> States] /\ escaped \in BOOLEAN
    /\ fd \subseteq Streams /\ todo \subseteq Streams
    /\ pipe \in [Streams -> Nat] /\ wrote \in [Streams -> Nat]
    /\ kept \in [Streams -> Nat] /\ cut \subseteq Streams
    /\ writers \in [Streams -> SUBSET Processes]

\* Nobody of the group is left to run, and nobody to be started.
Quelled ==
    /\ ~Running("leader")
    /\ Running("descendant") => escaped

\* The group is quelled before the helper is reaped, and before the result.
Quelling ==
    /\ spc = "started" /\ done => proc["leader"] = "gone"
    /\ pc \in {"rest", "result"} => proc["leader"] = "gone"
    /\ done \/ pc \in {"reap", "killLeader", "wait", "rest", "result"} => Quelled

\* What was read of a stream, against what was written to it: nothing is lost,
\* and the mark is set by the first chunk that does not fit.
Counted(s) ==
    \E read \in Nat :
        /\ kept[s] = IF read <= Capacity THEN read ELSE Capacity
        /\ s \in cut <=> Capacity < read
        /\ wrote[s] = IF read + pipe[s] <= Output THEN read + pipe[s] ELSE Output
        /\ ~Endless => read + pipe[s] <= Output

\* A stream that is no longer read is at its end, unless the call is over;
\* the loop is left without a reason only when every stream is.
Finished ==
    /\ \A s \in Streams : Counted(s)
    /\ pc # "result" => \A s \in Streams \ fd : Eof(s)
    /\ why = "none" /\ pc \in {"after", "wait", "rest", "result"} => \A s \in Streams : Eof(s)
    /\ why = "none" => /\ pc \in {"after", "wait"} => done
                       /\ pc # "killLeader"

\* The loop does not begin before the start has ended.
Begun ==
    /\ spc # "started" => pc = "turn" /\ fd = Streams /\ done = FALSE
    /\ pc = "result" => fd = {}

LoopInv == LoopTypes /\ Quelling /\ Finished /\ Begun

-----------------------------------------------------------------------------
(* The start: which descriptors and which memory the call has at each step. *)

\* What a descriptor may stand for.
Values == {S!None, "other", "null", "outR", "outW", "errR", "errW"}

Distinct ==
    /\ {outPipe.r, outPipe.w, errPipe.r, errPipe.w} \subseteq S!Fd
    /\ outPipe.r # outPipe.w /\ outPipe.r # errPipe.r /\ outPipe.r # errPipe.w
    /\ outPipe.w # errPipe.r /\ outPipe.w # errPipe.w /\ errPipe.r # errPipe.w

\* The descriptors of a table outside S are not the call's.
OnlyOurs(t, S0) == \A f \in S!Fd \ S0 : t[f] \in {S!None, "other"}

HasOut(t) == t[outPipe.r] = "outR" /\ t[outPipe.w] = "outW"
HasErr(t) == t[errPipe.r] = "errR" /\ t[errPipe.w] = "errW"

Descriptors ==
    /\ table \in [S!Fd -> Values]
    /\ spc \in {"arguments", "outPipe", "failed"} => OnlyOurs(table, {})
    /\ spc = "errPipe" =>
         /\ {outPipe.r, outPipe.w} \subseteq S!Fd /\ outPipe.r # outPipe.w
         /\ HasOut(table) /\ OnlyOurs(table, {outPipe.r, outPipe.w})
    /\ spc \in {"captures", "environment", "fork", "group"} =>
         /\ Distinct /\ HasOut(table) /\ HasErr(table)
         /\ OnlyOurs(table, {outPipe.r, outPipe.w, errPipe.r, errPipe.w})
    /\ spc = "started" =>
         /\ Distinct
         /\ S!Ours(table) = {ReadEnd(s) : s \in fd}

MemoryAt ==
    [step \in {"arguments", "outPipe", "errPipe", "captures", "environment", "fork", "group",
               "started", "failed"} |->
       CASE step \in {"arguments", "failed"} -> {}
         [] step \in {"outPipe", "errPipe", "captures"} -> {"arguments"}
         [] step = "environment" -> S!Guarded
         [] step \in {"fork", "group"} -> S!Memory
         [] step = "started" -> ReleasedAtResult]

StartInv ==
    /\ spc \in DOMAIN MemoryAt
    /\ held = IF Returned THEN {} ELSE MemoryAt[spc]
    /\ Descriptors

-----------------------------------------------------------------------------
(* The child's descriptors, for a program that misses at most one of its    *)
(* standard streams.                                                        *)

Std == 0..2

\* The program has two of its streams, and the numbers that are closed one by
\* one as the last resort include every descriptor.
Ordinary ==
    /\ \A Open \in Starts : \A f, g \in Std \ Open : f = g
    /\ MaxFd < Limit

\* The write ends lie above the standard streams, and so does the read end of
\* the error stream.
Above == outPipe.w \notin Std /\ errPipe.r \notin Std /\ errPipe.w \notin Std

Wired(t) == t[0] = "null" /\ t[1] = "outW" /\ t[2] = "errW"

ChildInv ==
    /\ spc \in {"arguments", "outPipe"} =>
         \A f, g \in Std \cap S!Fd : table[f] = S!None /\ table[g] = S!None => f = g
    /\ spc = "errPipe" =>
         outPipe.w \notin Std /\ \A f \in Std \cap S!Fd : table[f] # S!None
    /\ spc \in {"captures", "environment", "fork", "group"} => Above
    /\ spc \in {"arguments", "outPipe", "errPipe", "captures", "environment", "fork"} =>
         cpc = "none"
    /\ ctable \in [S!Fd -> Values]
    /\ cpc # "none" => Distinct /\ Above
    /\ cpc = "group" => HasOut(ctable) /\ HasErr(ctable)
    /\ cpc = "null" => ctable[outPipe.w] = "outW" /\ ctable[errPipe.w] = "errW"
    /\ cpc = "streams" => /\ ctable[0] = "null" /\ 0 \notin cprivate
                          /\ ctable[outPipe.w] = "outW" /\ ctable[errPipe.w] = "errW"
    /\ cpc \in {"extra", "exec"} => Wired(ctable) /\ Std \cap cprivate = {}
    /\ cpc \in {"exec", "helper"} => Wired(ctable) /\ \A f \in S!Fd \ Std : ctable[f] = S!None

-----------------------------------------------------------------------------
(* What the helper and its descendants do, and what happens to them.        *)

\* No process starts to run again, and only a running helper starts another.
Quieter ==
    /\ Running("leader")' => Running("leader")
    /\ Running("descendant")' => Running("descendant") \/ Running("leader")
    /\ escaped => escaped'

LEMMA QuelledStays == Quelled /\ Quieter => Quelled'
BY DEF Quelled, Quieter

\* A step of the world around the loop.
LEMMA WorldKeeps ==
    ASSUME LoopInv, UNCHANGED <<reader, capture>>, Quieter,
           spc = "started" => spc' = "started",
           proc' \in [Processes -> States], escaped' \in BOOLEAN,
           pipe' \in [Streams -> Nat], wrote' \in [Streams -> Nat],
           writers' \in [Streams -> SUBSET Processes],
           proc["leader"] = "gone" => proc'["leader"] = "gone",
           \A s \in Streams : Counted(s)',
           \A s \in Streams : Eof(s) => Eof(s)'
    PROVE  LoopInv'
<1>1. UNCHANGED <<pc, left, done, why, todo, fd, kept, cut>>
  BY DEF reader, capture
<1>2. LoopTypes'
  BY <1>1 DEF LoopInv, LoopTypes
<1>3. Quelling'
  BY <1>1, QuelledStays DEF LoopInv, Quelling, Begun
<1>4. Finished'
  BY <1>1 DEF LoopInv, Finished
<1>5. Begun'
  BY <1>1 DEF LoopInv, Begun
<1> QED BY <1>2, <1>3, <1>4, <1>5 DEF LoopInv

\* The counts stay when neither the pipe nor what was read changes.
LEMMA CountedStays ==
    ASSUME NEW s \in Streams, Counted(s),
           kept'[s] = kept[s], s \in cut' <=> s \in cut,
           wrote'[s] = wrote[s], pipe'[s] = pipe[s]
    PROVE  Counted(s)'
BY DEF Counted

LEMMA WrittenCounted ==
    ASSUME LoopInv, NEW s \in Streams, NEW p, Write(p, s)
    PROVE  Counted(s)'
<1>1. PICK read \in Nat :
        /\ kept[s] = IF read <= Capacity THEN read ELSE Capacity
        /\ s \in cut <=> Capacity < read
        /\ wrote[s] = IF read + pipe[s] <= Output THEN read + pipe[s] ELSE Output
        /\ ~Endless => read + pipe[s] <= Output
  BY DEF LoopInv, Finished, Counted
<1>2. /\ pipe[s] \in Nat /\ wrote[s] \in Nat /\ Output \in Nat
      /\ pipe'[s] = pipe[s] + 1 /\ wrote'[s] = Min({wrote[s] + 1, Output})
      /\ UNCHANGED <<kept, cut>> /\ (Endless \/ wrote[s] < Output)
  BY RunnerAssumption DEF Write, LoopInv, LoopTypes, capture
<1>3. wrote'[s] = IF wrote[s] + 1 <= Output THEN wrote[s] + 1 ELSE Output
  BY <1>2 DEF Min
<1>4. wrote'[s] = IF read + pipe'[s] <= Output THEN read + pipe'[s] ELSE Output
  BY <1>1, <1>2, <1>3
<1>5. ~Endless => read + pipe'[s] <= Output
  BY <1>1, <1>2
<1> QED BY <1>1, <1>2, <1>4, <1>5 DEF Counted

LEMMA WriteKeeps ==
    ASSUME LoopInv, NEW p, NEW s \in Streams, Write(p, s), UNCHANGED starting
    PROVE  LoopInv'
<1>1. /\ UNCHANGED <<reader, capture, kept, cut, proc, escaped, writers, spc>>
      /\ p \in writers[s]
      /\ pipe' = [pipe EXCEPT ![s] = @ + 1]
      /\ wrote' = [wrote EXCEPT ![s] = Min({@ + 1, Output})]
      /\ pipe \in [Streams -> Nat] /\ wrote \in [Streams -> Nat] /\ Output \in Nat
  BY RunnerAssumption DEF Write, LoopInv, LoopTypes, capture, starting
<1>2. Min({wrote[s] + 1, Output}) \in Nat
  BY <1>1 DEF Min
<1>3. pipe' \in [Streams -> Nat] /\ wrote' \in [Streams -> Nat]
  BY <1>1, <1>2
<1>4. ASSUME NEW k \in Streams PROVE Counted(k)'
  <2>1. Counted(k)
    BY DEF LoopInv, Finished
  <2>2. CASE k = s
    BY <2>2, WrittenCounted
  <2>3. CASE k # s
    BY <1>1, <2>1, <2>3, CountedStays
  <2> QED BY <2>2, <2>3
<1>5. \A k \in Streams : Eof(k) => Eof(k)'
  BY <1>1 DEF Eof
<1>6. Quieter
  BY <1>1 DEF Quieter, Running
<1>7. /\ proc' \in [Processes -> States] /\ escaped' \in BOOLEAN
      /\ writers' \in [Streams -> SUBSET Processes]
      /\ proc["leader"] = "gone" => proc'["leader"] = "gone"
      /\ spc = "started" => spc' = "started"
  BY <1>1 DEF LoopInv, LoopTypes
<1> QED BY <1>1, <1>3, <1>4, <1>5, <1>6, <1>7, WorldKeeps

\* Processes come and go; nothing is written or read.
LEMMA ProcessesKeep ==
    ASSUME LoopInv, UNCHANGED <<reader, capture, wrote, pipe>>, Quieter,
           spc = "started" => spc' = "started",
           proc' \in [Processes -> States], escaped' \in BOOLEAN,
           writers' \in [Streams -> SUBSET Processes],
           \A s \in Streams : writers[s] = {} => writers'[s] = {},
           proc["leader"] = "gone" => proc'["leader"] = "gone"
    PROVE  LoopInv'
<1>1. UNCHANGED <<kept, cut>>
  BY DEF capture
<1>2. \A s \in Streams : Counted(s)'
  BY <1>1, CountedStays DEF LoopInv, Finished
<1>3. \A s \in Streams : Eof(s) => Eof(s)'
  BY DEF Eof
<1>4. pipe' \in [Streams -> Nat] /\ wrote' \in [Streams -> Nat]
  BY DEF LoopInv, LoopTypes
<1> QED BY <1>2, <1>3, <1>4, WorldKeeps

LEMMA DieKeeps ==
    ASSUME LoopInv, NEW p \in Processes, NEW state \in {"zombie", "gone"}, NEW how,
           Die(p, state, how), proc[p] # "gone",
           spc = "started" => spc' = "started"
    PROVE  LoopInv'
<1>1. /\ proc' = [proc EXCEPT ![p] = state] /\ UNCHANGED <<reader, capture, wrote, pipe, escaped>>
      /\ writers' = [s \in Streams |-> writers[s] \ {p}]
      /\ proc \in [Processes -> States] /\ escaped \in BOOLEAN
      /\ writers \in [Streams -> SUBSET Processes]
  BY DEF Die, LoopInv, LoopTypes
<1>2. /\ proc' \in [Processes -> States]
      /\ proc["leader"] = "gone" => proc'["leader"] = "gone"
  BY <1>1 DEF States
<1>3. Quieter
  BY <1>1 DEF Quieter, Running, Processes
<1>4. /\ writers' \in [Streams -> SUBSET Processes]
      /\ \A s \in Streams : writers[s] = {} => writers'[s] = {}
  BY <1>1
<1> QED BY <1>1, <1>2, <1>3, <1>4, ProcessesKeep

LEMMA SurroundingsKeep ==
    ASSUME LoopInv, Surroundings
    PROVE  LoopInv'
<1>1. UNCHANGED spc /\ UNCHANGED starting
  BY DEF Surroundings, starting
<1>2. /\ proc \in [Processes -> States] /\ escaped \in BOOLEAN
      /\ writers \in [Streams -> SUBSET Processes]
  BY DEF LoopInv, LoopTypes
<1>3. CASE Spawn
  <2>1. /\ proc' = [proc EXCEPT !["descendant"] = "running"]
        /\ writers' = [s \in Streams |->
                         IF "leader" \in writers[s] THEN Processes ELSE writers[s]]
        /\ Running("leader") /\ UNCHANGED <<reader, capture, wrote, pipe, escaped>>
    BY <1>3 DEF Spawn
  <2>2. proc' \in [Processes -> States] /\ proc'["leader"] = proc["leader"] /\ Quieter
    BY <1>2, <2>1 DEF States, Processes, Quieter, Running
  <2>3. /\ writers' \in [Streams -> SUBSET Processes]
        /\ \A s \in Streams : writers[s] = {} => writers'[s] = {}
    BY <1>2, <2>1
  <2> QED BY <1>1, <1>2, <2>1, <2>2, <2>3, ProcessesKeep
<1>4. CASE Escape
  <2>1. escaped' = TRUE /\ UNCHANGED <<reader, capture, wrote, pipe, proc, writers>>
    BY <1>4 DEF Escape
  <2>2. Quieter
    BY <2>1 DEF Quieter, Running
  <2> QED BY <1>1, <1>2, <2>1, <2>2, ProcessesKeep
<1>5. CASE Redirect
  <2>1. /\ writers' = [s \in Streams |-> writers[s] \ {"descendant"}]
        /\ UNCHANGED <<reader, capture, wrote, pipe, proc, escaped>>
    BY <1>5 DEF Redirect
  <2>2. Quieter
    BY <2>1 DEF Quieter, Running
  <2>3. /\ writers' \in [Streams -> SUBSET Processes]
        /\ \A s \in Streams : writers[s] = {} => writers'[s] = {}
    BY <1>2, <2>1
  <2> QED BY <1>1, <1>2, <2>1, <2>2, <2>3, ProcessesKeep
<1>6. CASE \E p \in Processes, s \in Streams : Write(p, s)
  BY <1>1, <1>6, WriteKeeps
<1>7. CASE LeaderExits \/ LeaderKilled
  <2>1. PICK how : Die("leader", Unreaped, how) /\ proc["leader"] # "gone"
    BY <1>7 DEF LeaderExits, LeaderKilled, Running
  <2>2. Unreaped \in {"zombie", "gone"}
    BY DEF Unreaped
  <2> QED BY <1>1, <2>1, <2>2, DieKeeps DEF Processes
<1>8. CASE DescendantExits \/ DescendantKilled
  <2>1. Die("descendant", "gone", "none") /\ proc["descendant"] # "gone"
    BY <1>8 DEF DescendantExits, DescendantKilled, Running
  <2> QED BY <1>1, <2>1, DieKeeps DEF Processes
<1>9. CASE Tick
  <2>1. UNCHANGED <<reader, capture, wrote, pipe, proc, escaped, writers>>
    BY <1>9 DEF Tick, world
  <2>2. Quieter
    BY <2>1 DEF Quieter, Running
  <2> QED BY <1>1, <1>2, <2>1, <2>2, ProcessesKeep
<1> QED BY <1>3, <1>4, <1>5, <1>6, <1>7, <1>8, <1>9 DEF Surroundings, Helper, Kernel

-----------------------------------------------------------------------------
(* The start and the child, as the loop sees them.                          *)

LEMMA BeforeLoop ==
    ASSUME S!Parent
    PROVE  spc \notin {"started", "failed"}
BY DEF S!Parent, S!Arguments, S!OutPipe, S!ErrPipe, S!MakePipe, S!Captures, S!Environment,
       S!Fork, S!GroupFails, S!GroupSet

LEMMA StartKeepsLoop ==
    ASSUME LoopInv, StartStep
    PROVE  LoopInv'
<1>1. spc # "started"
  BY BeforeLoop DEF StartStep
<1>2. /\ proc \in [Processes -> States] /\ escaped \in BOOLEAN
      /\ writers \in [Streams -> SUBSET Processes]
  BY DEF LoopInv, LoopTypes
<1>3. CASE UNCHANGED vars
  <2>1. UNCHANGED <<reader, capture, wrote, pipe, proc, escaped, writers>>
    BY <1>3 DEF vars, world
  <2>2. Quieter
    BY <2>1 DEF Quieter, Running
  <2> QED BY <1>1, <1>2, <2>1, <2>2, ProcessesKeep
<1>4. CASE Reaped /\ UNCHANGED <<reader, capture, clock, pipe>>
  <2>1. /\ proc' = [proc EXCEPT !["leader"] = "gone"]
        /\ UNCHANGED <<reader, capture, wrote, pipe, escaped, writers>>
    BY <1>4 DEF Reaped
  <2>2. /\ proc' \in [Processes -> States] /\ proc'["leader"] = "gone" /\ Quieter
    BY <1>2, <2>1 DEF Quieter, Running, Processes, States
  <2> QED BY <1>1, <1>2, <2>1, <2>2, ProcessesKeep
<1> QED BY <1>3, <1>4 DEF StartStep

LEMMA ChildLeavesParent ==
    ASSUME S!Child
    PROVE  UNCHANGED <<spc, table, private, held, outPipe, errPipe>>
BY DEF S!Child, S!ChildExits, S!ChildGroup, S!ChildNull, S!ChildStreams, S!ChildExtra,
       S!ChildExec, S!parent

LEMMA ChildKeepsLoop ==
    ASSUME LoopInv, ChildStep
    PROVE  LoopInv'
<1>1. UNCHANGED spc
  BY ChildLeavesParent DEF ChildStep
<1>2. CASE UNCHANGED vars
  <2>1. UNCHANGED <<reader, capture, wrote, pipe, proc, escaped, writers>>
    BY <1>2 DEF vars, world
  <2>2. Quieter
    BY <2>1 DEF Quieter, Running
  <2>3. /\ proc \in [Processes -> States] /\ escaped \in BOOLEAN
        /\ writers \in [Streams -> SUBSET Processes]
    BY DEF LoopInv, LoopTypes
  <2> QED BY <1>1, <2>1, <2>2, <2>3, ProcessesKeep
<1>3. CASE Die("leader", Unreaped, "other")
  <2>1. proc["leader"] # "gone" /\ Unreaped \in {"zombie", "gone"}
    BY DEF ChildStep, Running, Unreaped
  <2> QED BY <1>1, <1>3, <2>1, DieKeeps DEF Processes
<1> QED BY <1>2, <1>3 DEF ChildStep

-----------------------------------------------------------------------------
(* The parent's loop.                                                       *)

\* A step that reads no chunk and ends no stream.
LEMMA ControlKeeps ==
    ASSUME LoopInv, UNCHANGED <<kept, cut, fd, wrote, pipe, writers, escaped>>,
           spc = "started", spc' = "started", pc # "result", pc' # "result",
           proc' \in [Processes -> States], Quieter,
           pc' \in Places, why' \in Flags, done' \in BOOLEAN, todo' \subseteq Streams,
           done' => proc'["leader"] = "gone",
           pc' = "rest" => proc'["leader"] = "gone",
           done' \/ pc' \in {"reap", "killLeader", "wait", "rest"} => Quelled',
           why' = "none" /\ pc' \in {"after", "wait", "rest"} => \A s \in Streams : Eof(s),
           why' = "none" /\ pc' \in {"after", "wait"} => done',
           why' = "none" => pc' # "killLeader"
    PROVE  LoopInv'
<1>1. LoopTypes'
  BY DEF LoopInv, LoopTypes
<1>2. Quelling'
  BY DEF LoopInv, Quelling
<1>3. Finished'
  <2>1. \A s \in Streams : Counted(s)'
    BY CountedStays DEF LoopInv, Finished
  <2>2. \A s \in Streams : Eof(s)' <=> Eof(s)
    BY DEF Eof
  <2> QED BY <2>1, <2>2 DEF LoopInv, Finished
<1>4. Begun'
  BY DEF LoopInv, Begun
<1> QED BY <1>1, <1>2, <1>3, <1>4 DEF LoopInv

\* The loop's own steps: the processes are left alone.
LEMMA TurnsKeep ==
    ASSUME LoopInv, spc = "started", spc' = "started",
           Turn \/ Cancel \/ Decide \/ Poll \/ Drained
             \/ (pc = "drain" /\ Leave("internal") /\ UNCHANGED <<capture, clock, world, pipe>>)
    PROVE  LoopInv'
<1>1. /\ UNCHANGED <<kept, cut, fd, wrote, pipe, writers, escaped, proc, done>>
      /\ pc \in {"turn", "cancel", "decide", "poll", "drain"}
  BY DEF Turn, Cancel, Decide, Poll, Drained, Leave, Go, capture, world
<1>2. /\ why \in Flags /\ todo \subseteq Streams /\ done \in BOOLEAN /\ fd \subseteq Streams
      /\ proc \in [Processes -> States]
  BY DEF LoopInv, LoopTypes
<1>3. /\ pc' \in {"after", "cancel", "observe", "poll", "turn", "drain"}
      /\ why' \in Flags /\ todo' \subseteq Streams
  BY <1>2 DEF Turn, Cancel, Decide, Poll, Drained, Leave, Go, Flags
<1>4. pc' = "after" /\ why' = "none" => done /\ fd = {}
  BY DEF Turn, Cancel, Decide, Poll, Drained, Leave, Go
<1>5. Quieter
  BY <1>1 DEF Quieter, Running
<1>6. /\ done => proc["leader"] = "gone"
      /\ done => Quelled'
  BY <1>1, <1>5, QuelledStays DEF LoopInv, Quelling
<1>7. fd = {} => \A s \in Streams : Eof(s)
  BY <1>1 DEF LoopInv, Finished
<1>8. pc' \in Places /\ pc # "result" /\ pc' # "result" /\ proc' \in [Processes -> States]
  BY <1>1, <1>2, <1>3 DEF Places
<1> QED BY <1>1, <1>2, <1>3, <1>4, <1>5, <1>6, <1>7, <1>8, ControlKeeps

\* A signal to the helper or its group.
LEMMA Signals ==
    ASSUME LoopInv, NEW group \in BOOLEAN, Signal(group)
    PROVE  /\ proc' \in [Processes -> States] /\ Quieter
           /\ proc["leader"] = "gone" => proc'["leader"] = "gone"
           /\ group => Quelled'
           /\ UNCHANGED <<wrote, writers, escaped>>
<1>1. /\ proc' = [p \in Processes |-> IF Signalled(p, group) THEN "killed" ELSE proc[p]]
      /\ UNCHANGED <<escaped, wrote, writers>>
      /\ proc \in [Processes -> States] /\ escaped \in BOOLEAN
  BY DEF Signal, LoopInv, LoopTypes
<1>2. /\ proc' \in [Processes -> States]
      /\ proc'["leader"] = IF proc["leader"] = "running" THEN "killed" ELSE proc["leader"]
      /\ proc'["descendant"] = IF proc["descendant"] = "running" /\ group /\ ~escaped
                               THEN "killed" ELSE proc["descendant"]
  BY <1>1 DEF Signalled, InGroup, Running, States, Processes
<1> QED BY <1>1, <1>2 DEF Quieter, Running, Quelled

LEMMA ObserveKeeps ==
    ASSUME LoopInv, spc = "started", spc' = "started", Observe
    PROVE  LoopInv'
<1>1. /\ UNCHANGED <<kept, cut, fd, pipe, done, todo>>
      /\ pc = "observe" /\ pc' \in {"reap", "decide", "after"}
      /\ pc' = "reap" => Signal(TRUE)
      /\ pc' # "reap" => UNCHANGED world
      /\ why' = IF pc' = "after" THEN "internal" ELSE why
  BY DEF Observe, Go, Leave, capture
<1>2. /\ why' \in Flags /\ todo \subseteq Streams /\ done \in BOOLEAN
      /\ proc \in [Processes -> States] /\ pc' \in Places
  BY <1>1 DEF LoopInv, LoopTypes, Places, Flags
<1>3. /\ proc' \in [Processes -> States] /\ Quieter
      /\ proc["leader"] = "gone" => proc'["leader"] = "gone"
      /\ pc' = "reap" => Quelled'
      /\ UNCHANGED <<wrote, writers, escaped>>
  <2>1. CASE pc' = "reap"
    BY <1>1, <2>1, Signals
  <2>2. CASE pc' # "reap"
    BY <1>1, <1>2, <2>2 DEF world, Quieter, Running
  <2> QED BY <1>1, <2>1, <2>2
<1>4. (done => proc["leader"] = "gone") /\ (done => Quelled')
  BY <1>3, QuelledStays DEF LoopInv, Quelling
<1> QED BY <1>1, <1>2, <1>3, <1>4, ControlKeeps

LEMMA ReapKeeps ==
    ASSUME LoopInv, spc = "started", spc' = "started", Reap
    PROVE  LoopInv'
<1>1. /\ UNCHANGED <<kept, cut, fd, pipe, why, todo, escaped, wrote, writers>>
      /\ pc = "reap" /\ pc' = "decide" /\ done' = TRUE
      /\ proc' = [proc EXCEPT !["leader"] = "gone"]
      /\ why \in Flags /\ todo \subseteq Streams /\ proc \in [Processes -> States]
  BY DEF Reap, Reaped, capture, LoopInv, LoopTypes
<1>2. proc' \in [Processes -> States] /\ proc'["leader"] = "gone" /\ Quieter
  BY <1>1 DEF States, Processes, Quieter, Running
<1>3. Quelled'
  BY <1>1, <1>2, QuelledStays DEF LoopInv, Quelling
<1> QED BY <1>1, <1>2, <1>3, ControlKeeps DEF Places

LEMMA KillsKeep ==
    ASSUME LoopInv, spc = "started", spc' = "started", KillGroup \/ KillLeader
    PROVE  LoopInv'
<1>1. /\ UNCHANGED <<kept, cut, fd, pipe, done, why, todo>>
      /\ \/ pc = "after" /\ why # "none" /\ Signal(TRUE) /\ pc' = "killLeader"
         \/ pc = "after" /\ why = "none" /\ UNCHANGED world /\ pc' = "wait"
         \/ pc = "killLeader" /\ Signal(FALSE) /\ pc' = "wait"
  BY DEF KillGroup, KillLeader, Go, capture
<1>2. /\ why \in Flags /\ todo \subseteq Streams /\ done \in BOOLEAN
      /\ proc \in [Processes -> States] /\ pc' \in Places
  BY <1>1 DEF LoopInv, LoopTypes, Places
<1>3. /\ proc' \in [Processes -> States] /\ Quieter
      /\ proc["leader"] = "gone" => proc'["leader"] = "gone"
      /\ UNCHANGED <<wrote, writers, escaped>>
  <2>1. CASE \E group \in BOOLEAN : Signal(group)
    BY <2>1, Signals
  <2>2. CASE UNCHANGED world
    BY <1>2, <2>2 DEF world, Quieter, Running
  <2> QED BY <1>1, <2>1, <2>2
<1>4. Quelled'
  <2>1. CASE why # "none" /\ Signal(TRUE)
    BY <2>1, Signals
  <2>2. CASE (pc = "after" /\ why = "none") \/ pc = "killLeader"
    <3>1. Quelled
      BY <2>2 DEF LoopInv, Quelling, Finished
    <3> QED BY <1>3, <3>1, QuelledStays
  <2> QED BY <1>1, <2>1, <2>2
<1>5. why = "none" /\ pc' = "wait" => done /\ \A s \in Streams : Eof(s)
  BY <1>1 DEF LoopInv, Finished
<1>6. done => proc["leader"] = "gone"
  BY DEF LoopInv, Quelling
<1> QED BY <1>1, <1>2, <1>3, <1>4, <1>5, <1>6, ControlKeeps

LEMMA WaitKeeps ==
    ASSUME LoopInv, spc = "started", spc' = "started", Wait
    PROVE  LoopInv'
<1>1. /\ UNCHANGED <<kept, cut, fd, pipe, escaped, wrote, writers>>
      /\ pc = "wait" /\ pc' = "rest" /\ todo' = fd
      /\ \/ proc' = proc /\ UNCHANGED done /\ (done \/ proc["leader"] = "gone")
         \/ proc' = [proc EXCEPT !["leader"] = "gone"] /\ done' = TRUE
      /\ why' \in Flags /\ (why' = "none" => why = "none")
      /\ fd \subseteq Streams /\ proc \in [Processes -> States] /\ done \in BOOLEAN
  BY DEF Wait, Reaped, world, capture, LoopInv, LoopTypes, Flags
<1>2. proc' \in [Processes -> States] /\ proc'["leader"] = "gone" /\ Quieter
  BY <1>1 DEF States, Processes, Quieter, Running, LoopInv, Quelling
<1>3. Quelled' /\ (why = "none" => \A s \in Streams : Eof(s))
  BY <1>1, <1>2, QuelledStays DEF LoopInv, Quelling, Finished
<1> QED BY <1>1, <1>2, <1>3, ControlKeeps DEF Places

\* One chunk more is read: it is kept, or the stream is marked.
LEMMA ReadCounted ==
    ASSUME LoopInv, NEW s \in Streams, ReadChunk(s), UNCHANGED world
    PROVE  /\ Counted(s)'
           /\ pipe' \in [Streams -> Nat] /\ kept' \in [Streams -> Nat] /\ cut' \subseteq Streams
           /\ UNCHANGED <<fd, reader>> /\ pipe[s] # 0
           /\ \A k \in Streams \ {s} : /\ kept'[k] = kept[k] /\ pipe'[k] = pipe[k]
                                       /\ k \in cut' <=> k \in cut
<1>1. /\ pipe \in [Streams -> Nat] /\ kept \in [Streams -> Nat] /\ cut \subseteq Streams
      /\ wrote \in [Streams -> Nat] /\ Capacity \in Nat /\ Output \in Nat
  BY RunnerAssumption DEF LoopInv, LoopTypes
<1>2. /\ pipe' = [pipe EXCEPT ![s] = @ - 1] /\ kept' = [kept EXCEPT ![s] = Min({@ + 1, Capacity})]
      /\ cut' = IF kept[s] = Capacity THEN cut \cup {s} ELSE cut
      /\ UNCHANGED <<fd, reader, wrote>> /\ pipe[s] > 0
  BY DEF ReadChunk, TakeChunk, world
<1>3. Min({kept[s] + 1, Capacity}) = IF kept[s] + 1 <= Capacity THEN kept[s] + 1 ELSE Capacity
  BY <1>1 DEF Min
<1>4. PICK more \in Nat : more = Min({kept[s] + 1, Capacity})
  BY <1>1, <1>3
<1>5. /\ pipe' \in [Streams -> Nat] /\ kept' \in [Streams -> Nat] /\ cut' \subseteq Streams
      /\ pipe'[s] = pipe[s] - 1 /\ kept'[s] = more
      /\ \A k \in Streams \ {s} : /\ kept'[k] = kept[k] /\ pipe'[k] = pipe[k]
                                  /\ k \in cut' <=> k \in cut
  BY <1>1, <1>2, <1>4
<1>6. PICK read \in Nat :
        /\ kept[s] = IF read <= Capacity THEN read ELSE Capacity
        /\ s \in cut <=> Capacity < read
        /\ wrote[s] = IF read + pipe[s] <= Output THEN read + pipe[s] ELSE Output
        /\ ~Endless => read + pipe[s] <= Output
  BY DEF LoopInv, Finished, Counted
<1>7. PICK next \in Nat : next = read + 1
  OBVIOUS
<1>8. /\ kept'[s] = IF next <= Capacity THEN next ELSE Capacity
      /\ next + pipe'[s] = read + pipe[s]
  BY <1>1, <1>2, <1>3, <1>4, <1>5, <1>6, <1>7
<1>9. s \in cut' <=> Capacity < next
  BY <1>1, <1>2, <1>6, <1>7
<1>10. Counted(s)'
  BY <1>2, <1>6, <1>8, <1>9 DEF Counted
<1> QED BY <1>2, <1>5, <1>10

\* Draining keeps the counts, and closes a stream only at its end.
LEMMA Drains ==
    ASSUME LoopInv, NEW s \in Streams, Drain(s)
    PROVE  /\ UNCHANGED <<pc, why, done, world>>
           /\ \A k \in Streams : Counted(k)'
           /\ \A k \in Streams : Eof(k) => Eof(k)'
           /\ pc # "result" => \A k \in Streams \ fd' : Eof(k)'
           /\ pipe' \in [Streams -> Nat] /\ kept' \in [Streams -> Nat]
           /\ cut' \subseteq Streams /\ fd' \subseteq fd /\ todo' \subseteq todo
<1>1. /\ UNCHANGED world /\ \A k \in Streams : Counted(k)
      /\ pc # "result" => \A k \in Streams \ fd : Eof(k)
      /\ pipe \in [Streams -> Nat] /\ kept \in [Streams -> Nat] /\ cut \subseteq Streams
      /\ fd \subseteq Streams
  BY DEF Drain, LoopInv, Finished, LoopTypes
<1>2. UNCHANGED <<wrote, writers>>
  BY <1>1 DEF world
<1>3. CASE ReadChunk(s)
  <2>1. /\ Counted(s)'
        /\ pipe' \in [Streams -> Nat] /\ kept' \in [Streams -> Nat] /\ cut' \subseteq Streams
        /\ UNCHANGED <<fd, reader>> /\ pipe[s] # 0
        /\ \A k \in Streams \ {s} : /\ kept'[k] = kept[k] /\ pipe'[k] = pipe[k]
                                    /\ k \in cut' <=> k \in cut
    BY <1>1, <1>3, ReadCounted
  <2>2. UNCHANGED <<pc, why, done, todo>>
    BY <2>1 DEF reader
  <2>3. \A k \in Streams : Counted(k)'
    BY <1>1, <1>2, <2>1, CountedStays
  <2>4. \A k \in Streams : Eof(k) => Eof(k)'
    BY <1>2, <2>1 DEF Eof
  <2> QED BY <1>1, <2>1, <2>2, <2>3, <2>4
<1>4. CASE StreamEnds(s) \/ StreamEmpty(s)
  <2>1. /\ UNCHANGED <<pc, why, done, kept, cut, pipe>> /\ todo' \subseteq todo
        /\ fd' = fd \/ (fd' = fd \ {s} /\ Eof(s))
    BY <1>4 DEF StreamEnds, StreamEmpty, capture
  <2>2. \A k \in Streams : Counted(k)'
    BY <1>1, <1>2, <2>1, CountedStays
  <2>3. \A k \in Streams : Eof(k)' <=> Eof(k)
    BY <1>2, <2>1 DEF Eof
  <2> QED BY <1>1, <2>1, <2>2, <2>3
<1> QED BY <1>3, <1>4 DEF Drain

LEMMA DrainsKeep ==
    ASSUME LoopInv, spc = "started", spc' = "started",
           NEW s \in Streams, Drain(s), pc \in {"drain", "rest"}
    PROVE  LoopInv'
<1>1. /\ UNCHANGED <<pc, why, done, proc, exit, escaped, wrote, writers>>
      /\ \A k \in Streams : Counted(k)'
      /\ \A k \in Streams : Eof(k) => Eof(k)'
      /\ \A k \in Streams \ fd' : Eof(k)'
      /\ pipe' \in [Streams -> Nat] /\ kept' \in [Streams -> Nat]
      /\ cut' \subseteq Streams /\ fd' \subseteq fd /\ todo' \subseteq todo
  BY Drains DEF world
<1>2. LoopTypes'
  BY <1>1 DEF LoopInv, LoopTypes
<1>3. Quelling'
  BY <1>1 DEF LoopInv, Quelling, Quelled, Running
<1>4. Finished'
  BY <1>1 DEF LoopInv, Finished
<1>5. Begun'
  BY <1>1 DEF LoopInv, Begun
<1> QED BY <1>2, <1>3, <1>4, <1>5 DEF LoopInv

\* Chosen is one of the streams that are to be drained.
LEMMA ChosenStream == LoopInv /\ todo # {} => Chosen \in Streams
BY DEF LoopInv, LoopTypes, Chosen

LEMMA RestKeeps ==
    ASSUME LoopInv, spc = "started", spc' = "started", Rest
    PROVE  LoopInv'
<1>1. CASE \E s \in todo : Drain(s)
  BY <1>1, DrainsKeep DEF Rest, LoopInv, LoopTypes
<1>2. CASE ~(\E s \in todo : Drain(s))
  <2>1. /\ why' = (IF why = "none" THEN "internal" ELSE why)
        /\ todo' \subseteq todo /\ pc = "rest"
        /\ UNCHANGED <<pc, done, kept, cut, fd, wrote, pipe, writers, escaped, proc>>
    BY <1>2 DEF Rest, capture, world
  <2>2. /\ why' \in Flags /\ why' # "none" /\ todo' \subseteq Streams /\ done' \in BOOLEAN
        /\ proc' \in [Processes -> States] /\ pc' \in Places
    BY <2>1 DEF LoopInv, LoopTypes, Flags
  <2>3. Quieter /\ Quelled' /\ (done' => proc'["leader"] = "gone") /\ proc'["leader"] = "gone"
    BY <2>1 DEF Quieter, Running, LoopInv, Quelling, Quelled
  <2> QED BY <2>1, <2>2, <2>3, ControlKeeps
<1> QED BY <1>1, <1>2

LEMMA ResultKeeps ==
    ASSUME LoopInv, spc = "started", spc' = "started", Result
    PROVE  LoopInv'
<1>1. /\ UNCHANGED <<why, done, todo, kept, cut, wrote, pipe, writers, escaped, proc>>
      /\ pc = "rest" /\ pc' = "result" /\ fd' = {}
  BY DEF Result, Go, world
<1>2. LoopTypes'
  BY <1>1 DEF LoopInv, LoopTypes, Places
<1>3. Quelling'
  BY <1>1 DEF LoopInv, Quelling, Quelled, Running
<1>4. Finished'
  <2>1. \A s \in Streams : Counted(s)'
    BY <1>1, CountedStays DEF LoopInv, Finished
  <2> QED BY <1>1, <2>1 DEF LoopInv, Finished, Eof
<1>5. Begun'
  BY <1>1 DEF Begun
<1> QED BY <1>2, <1>3, <1>4, <1>5 DEF LoopInv

LEMMA LoopKeeps ==
    ASSUME LoopInv, LoopStep
    PROVE  LoopInv'
<1>1. spc = "started" /\ spc' = "started" /\ Parent
  BY DEF LoopStep
<1>2. CASE DrainReady
  <2>1. CASE \E s \in todo : Drain(s)
    BY <1>1, <1>2, <2>1, DrainsKeep DEF DrainReady, LoopInv, LoopTypes
  <2>2. CASE ~(\E s \in todo : Drain(s))
    BY <1>1, <1>2, <2>2, TurnsKeep DEF DrainReady
  <2> QED BY <2>1, <2>2
<1> QED BY <1>1, <1>2, TurnsKeep, ObserveKeeps, ReapKeeps, KillsKeep, WaitKeeps, RestKeeps,
           ResultKeeps DEF Parent

LEMMA InitLoop == CallInit => LoopInv
<1> SUFFICES ASSUME CallInit PROVE LoopInv
  OBVIOUS
<1>1. /\ pc = "turn" /\ done = FALSE /\ why = "none" /\ todo = {}
      /\ fd = Streams /\ kept = [s \in Streams |-> 0] /\ cut = {}
      /\ proc = [leader |-> "running", descendant |-> "absent"] /\ escaped = FALSE
      /\ pipe = [s \in Streams |-> 0] /\ wrote = pipe
      /\ writers = [s \in Streams |-> {"leader"}]
  BY DEF CallInit, Init
<1>2. LoopTypes
  <2>1. /\ pc \in Places /\ why \in Flags /\ done \in BOOLEAN /\ escaped \in BOOLEAN
        /\ fd \subseteq Streams /\ todo \subseteq Streams /\ cut \subseteq Streams
    BY <1>1 DEF Places, Flags
  <2>2. proc \in [Processes -> States]
    BY <1>1 DEF States, Processes
  <2>3. /\ pipe \in [Streams -> Nat] /\ wrote \in [Streams -> Nat] /\ kept \in [Streams -> Nat]
        /\ writers \in [Streams -> SUBSET Processes]
    BY <1>1 DEF Processes
  <2> QED BY <2>1, <2>2, <2>3 DEF LoopTypes
<1>3. Quelling /\ Begun
  BY <1>1 DEF Quelling, Begun
<1>4. ASSUME NEW s \in Streams PROVE Counted(s)
  <2>1. kept[s] = 0 /\ s \notin cut /\ wrote[s] = 0 /\ pipe[s] = 0
    BY <1>1
  <2> QED BY <2>1, RunnerAssumption DEF Counted
<1>5. Finished
  BY <1>1, <1>4 DEF Finished
<1> QED BY <1>2, <1>3, <1>5 DEF LoopInv

LEMMA NextLoop == LoopInv /\ [CallNext]_call => LoopInv'
<1> SUFFICES ASSUME LoopInv, [CallNext]_call PROVE LoopInv'
  OBVIOUS
<1>1. CASE UNCHANGED call
  <2>1. UNCHANGED <<reader, capture, wrote, pipe, proc, escaped, writers, spc>>
    BY <1>1 DEF call, vars, world, starting
  <2>2. Quieter
    BY <2>1 DEF Quieter, Running
  <2>3. /\ proc \in [Processes -> States] /\ escaped \in BOOLEAN
        /\ writers \in [Streams -> SUBSET Processes]
    BY DEF LoopInv, LoopTypes
  <2> QED BY <2>1, <2>2, <2>3, ProcessesKeep
<1> QED BY <1>1, StartKeepsLoop, ChildKeepsLoop, LoopKeeps, SurroundingsKeep DEF CallNext

\* The loop never loses what it knows of its helper and its pipes.
THEOREM LoopInvariant == CallSpec => []LoopInv
BY InitLoop, NextLoop, PTL DEF CallSpec

\* A result "ok" holds the whole output of the helper, and a stream is marked
\* truncated exactly when more was written than fits (l_run, capture_drain).
THEOREM OkResultsAreComplete == CallSpec => []OkIsComplete
<1>1. LoopInv => OkIsComplete
  <2> SUFFICES ASSUME LoopInv, pc = "result", Status = "ok", NEW s \in Streams
               PROVE  /\ pipe[s] = 0 /\ writers[s] = {}
                      /\ kept[s] = Min({wrote[s], Capacity})
                      /\ s \in cut <=> wrote[s] > Capacity
    BY DEF OkIsComplete, Returned
  <2>1. why = "none"
    BY DEF Status, LoopInv, LoopTypes, Flags
  <2>2. pipe[s] = 0 /\ writers[s] = {}
    BY <2>1 DEF LoopInv, Finished, Eof
  <2>3. PICK read \in Nat :
          /\ kept[s] = IF read <= Capacity THEN read ELSE Capacity
          /\ s \in cut <=> Capacity < read
          /\ wrote[s] = IF read + pipe[s] <= Output THEN read + pipe[s] ELSE Output
          /\ ~Endless => read + pipe[s] <= Output
    BY DEF LoopInv, Finished, Counted
  <2>4. /\ Capacity \in Nat /\ Output \in Nat /\ (Endless => Capacity < Output)
        /\ wrote[s] \in Nat /\ Endless \in BOOLEAN
    BY RunnerAssumption DEF LoopInv, LoopTypes
  <2>5. wrote[s] = IF read <= Output THEN read ELSE Output
    BY <2>2, <2>3, <2>4
  <2>6. ~Endless => read <= Output
    BY <2>2, <2>3
  <2>7. (s \in cut <=> wrote[s] > Capacity) /\ kept[s] = IF wrote[s] <= Capacity THEN wrote[s] ELSE Capacity
    BY <2>3, <2>4, <2>5, <2>6
  <2>8. Min({wrote[s], Capacity}) = IF wrote[s] <= Capacity THEN wrote[s] ELSE Capacity
    BY <2>4 DEF Min
  <2> QED BY <2>2, <2>7, <2>8
<1> QED BY <1>1, LoopInvariant, PTL

\* However a call ends, its helper is reaped and every process of its group
\* has been killed (kill(-child) before waitpid).
THEOREM NoProcessLeftBehind == CallSpec => []NothingLeftBehind
<1>1. LoopInv => NothingLeftBehind
  <2> SUFFICES ASSUME LoopInv, pc = "result"
               PROVE  proc["leader"] = "gone" /\ (Running("descendant") => escaped)
    BY DEF NothingLeftBehind, Returned
  <2>1. spc = "started"
    BY DEF LoopInv, Begun
  <2> QED BY <2>1 DEF LoopInv, Quelling, Quelled
<1> QED BY <1>1, LoopInvariant, PTL

-----------------------------------------------------------------------------
(* Descriptors.                                                             *)

\* A non-empty set of naturals has a least member.
LEMMA Smallest ==
    ASSUME NEW T \in SUBSET Nat, T # {}
    PROVE  \E n \in T : \A m \in T : n <= m
<1> DEFINE R == {p \in Nat \X Nat : p[1] < p[2]}
<1>1. IsWellFoundedOn(R, Nat)
  BY NatLessThanWellFounded DEF OpToRel
<1>2. \A m, n \in Nat : <<m, n>> \in R <=> m < n
  OBVIOUS
<1> HIDE DEF R
<1>3. PICK n \in T : \A m \in T : ~(<<m, n>> \in R)
  BY <1>1, WFMin
<1>4. ASSUME NEW m \in T PROVE n <= m
  <2>1. ~(m < n) /\ m \in Nat /\ n \in Nat
    BY <1>2, <1>3
  <2> QED BY <2>1
<1> QED BY <1>4

LEMMA FdNat == S!Fd \subseteq Nat
BY StartAssumption DEF S!Fd

\* The kernel gives out the lowest free number.
LEMMA LowestFree ==
    ASSUME NEW t, NEW f \in S!Fd, t[f] = S!None
    PROVE  /\ S!Lowest(t) \in S!Fd /\ t[S!Lowest(t)] = S!None
           /\ \A g \in S!Fd : t[g] = S!None => S!Lowest(t) <= g
<1> DEFINE free == {g \in S!Fd : t[g] = S!None}
<1>1. free \in SUBSET Nat /\ free # {}
  BY FdNat
<1>2. S!Lowest(t) = CHOOSE x \in free : \A y \in free : x <= y
  BY DEF S!Lowest, S!Min
<1> HIDE DEF free
<1>3. S!Lowest(t) \in free /\ \A g \in free : S!Lowest(t) <= g
  BY <1>1, <1>2, Smallest
<1> QED BY <1>3 DEF free

LEMMA TwoFree ==
    ASSUME NEW t, S!Room(t, 2)
    PROVE  \E f, g \in S!Fd : f # g /\ t[f] = S!None /\ t[g] = S!None
<1> DEFINE free == {g \in S!Fd : t[g] = S!None}
<1>1. \A A : S!Cardinality(A) = Cardinality(A)
  BY DEF S!Cardinality, Cardinality
<1>2. Cardinality(free) >= 2
  BY <1>1 DEF S!Room
<1> HIDE DEF free
<1>3. PICK f \in free : TRUE
  BY <1>2, FS_EmptySet
<1>4. PICK g \in free : g # f
  <2>1. free # {f}
    BY <1>2, FS_Singleton
  <2> QED BY <1>3, <2>1
<1> QED BY <1>3, <1>4 DEF free

\* What make_pipe does to the program's table.
Opens(r, w, names) ==
    /\ r \in S!Fd /\ w \in S!Fd /\ r # w
    /\ table[r] = S!None /\ table[w] = S!None
    /\ \A f \in S!Fd : table[f] = S!None => r <= f /\ (f # r => w <= f)
    /\ table' = [table EXCEPT ![r] = names.r, ![w] = names.w]

LEMMA PipeOpens ==
    ASSUME table \in [S!Fd -> Values], S!Room(table, 2), NEW names,
           NEW r, r = S!Lowest(table),
           NEW w, w = S!Lowest([table EXCEPT ![r] = "used"]),
           table' = [table EXCEPT ![r] = names.r, ![w] = names.w]
    PROVE  Opens(r, w, names)
<1>1. PICK f, g \in S!Fd : f # g /\ table[f] = S!None /\ table[g] = S!None
  BY TwoFree
<1>2. /\ r \in S!Fd /\ table[r] = S!None
      /\ \A h \in S!Fd : table[h] = S!None => r <= h
  BY <1>1, LowestFree
<1>3. PICK taken : taken = [table EXCEPT ![r] = "used"]
  OBVIOUS
<1>4. /\ taken[r] = "used" /\ \A h \in S!Fd \ {r} : taken[h] = table[h]
  BY <1>2, <1>3
<1>5. PICK h \in S!Fd \ {r} : taken[h] = S!None
  BY <1>1, <1>4
<1>6. /\ w \in S!Fd /\ taken[w] = S!None
      /\ \A k \in S!Fd : taken[k] = S!None => w <= k
  BY <1>3, <1>5, LowestFree
<1>7. w # r
  BY <1>4, <1>6 DEF S!None
<1> QED BY <1>2, <1>4, <1>6, <1>7 DEF Opens

\* An early return.
Returns(fds, memory) ==
    /\ spc' = "failed" /\ table' = S!Shut(table, fds)
    /\ held' = held \ (memory \cup S!Guarded)
    /\ UNCHANGED <<outPipe, errPipe>>

LEMMA OutPipeDoes ==
    ASSUME table \in [S!Fd -> Values], S!OutPipe
    PROVE  /\ spc = "outPipe" /\ UNCHANGED <<errPipe, cpc, ctable, cprivate>>
           /\ \/ /\ spc' = "errPipe" /\ held' = held
                 /\ outPipe' = [r |-> outPipe'.r, w |-> outPipe'.w]
                 /\ Opens(outPipe'.r, outPipe'.w, S!OutNames)
              \/ Returns({}, {"arguments"})
<1>1. /\ spc = "outPipe" /\ UNCHANGED <<errPipe, cpc, ctable, cprivate>>
  BY DEF S!OutPipe, S!MakePipe, S!child
<1>2. CASE S!Return({}, {"arguments"})
  BY <1>1, <1>2 DEF S!Return, Returns
<1>3. CASE ~S!Return({}, {"arguments"})
  <2>1. PICK r, w : /\ r = S!Lowest(table) /\ w = S!Lowest([table EXCEPT ![r] = "used"])
                    /\ outPipe' = [r |-> r, w |-> w] /\ S!Room(table, 2)
                    /\ table' = [table EXCEPT ![r] = S!OutNames.r, ![w] = S!OutNames.w]
                    /\ spc' = "errPipe" /\ held' = held
    BY <1>3 DEF S!OutPipe, S!MakePipe
  <2>2. outPipe'.r = r /\ outPipe'.w = w
    BY <2>1
  <2>3. Opens(r, w, S!OutNames)
    BY <2>1, PipeOpens
  <2> QED BY <1>1, <2>1, <2>2, <2>3
<1> QED BY <1>2, <1>3

LEMMA ErrPipeDoes ==
    ASSUME table \in [S!Fd -> Values], S!ErrPipe
    PROVE  /\ spc = "errPipe" /\ UNCHANGED <<outPipe, cpc, ctable, cprivate>>
           /\ \/ /\ spc' = "captures" /\ held' = held
                 /\ errPipe' = [r |-> errPipe'.r, w |-> errPipe'.w]
                 /\ Opens(errPipe'.r, errPipe'.w, S!ErrNames)
              \/ Returns(S!Ends(outPipe), {"arguments"})
<1>1. /\ spc = "errPipe" /\ UNCHANGED <<outPipe, cpc, ctable, cprivate>>
  BY DEF S!ErrPipe, S!MakePipe, S!child
<1>2. CASE S!Return(S!Ends(outPipe), {"arguments"})
  BY <1>1, <1>2 DEF S!Return, Returns
<1>3. CASE ~S!Return(S!Ends(outPipe), {"arguments"})
  <2>1. PICK r, w : /\ r = S!Lowest(table) /\ w = S!Lowest([table EXCEPT ![r] = "used"])
                    /\ errPipe' = [r |-> r, w |-> w] /\ S!Room(table, 2)
                    /\ table' = [table EXCEPT ![r] = S!ErrNames.r, ![w] = S!ErrNames.w]
                    /\ spc' = "captures" /\ held' = held
    BY <1>3 DEF S!ErrPipe, S!MakePipe
  <2>2. errPipe'.r = r /\ errPipe'.w = w
    BY <2>1
  <2>3. Opens(r, w, S!ErrNames)
    BY <2>1, PipeOpens
  <2> QED BY <1>1, <2>1, <2>2, <2>3
<1> QED BY <1>2, <1>3

-----------------------------------------------------------------------------
(* What the call holds at each step.                                        *)

LEMMA Shutting ==
    ASSUME NEW t \in [S!Fd -> Values], NEW fds
    PROVE  /\ S!Shut(t, fds) \in [S!Fd -> Values]
           /\ \A f \in S!Fd : S!Shut(t, fds)[f] = IF f \in fds THEN S!None ELSE t[f]
BY DEF S!Shut, Values

\* Every early return gives back what the call holds by then.
LEMMA ReturnsKeep ==
    ASSUME StartInv, NEW fds, NEW memory, Returns(fds, memory), pc' = "turn",
           OnlyOurs(table, fds), MemoryAt[spc] \subseteq memory \cup S!Guarded, pc = "turn"
    PROVE  StartInv'
<1>1. /\ table \in [S!Fd -> Values] /\ held = MemoryAt[spc]
      /\ spc' = "failed" /\ table' = S!Shut(table, fds)
      /\ held' = held \ (memory \cup S!Guarded)
  BY DEF StartInv, Descriptors, Returned, Returns
<1>2. /\ table' \in [S!Fd -> Values] /\ OnlyOurs(table', {})
  BY <1>1, Shutting DEF OnlyOurs
<1>3. held' = {} /\ MemoryAt["failed"] = {} /\ "failed" \in DOMAIN MemoryAt
  BY <1>1 DEF MemoryAt
<1>4. Descriptors'
  BY <1>1, <1>2 DEF Descriptors, OnlyOurs
<1> QED BY <1>1, <1>3, <1>4 DEF StartInv, Returned

LEMMA StartKeepsHoldings ==
    ASSUME LoopInv, StartInv, StartStep
    PROVE  StartInv'
<1>1. /\ S!Parent /\ spc # "started" /\ pc = "turn" /\ pc' = "turn" /\ fd' = Streams
      /\ spc \in DOMAIN MemoryAt /\ held = MemoryAt[spc]
      /\ table \in [S!Fd -> Values]
  BY BeforeLoop DEF StartStep, LoopInv, Begun, StartInv, Descriptors, vars, reader, capture,
     Returned
<1>2. CASE S!Arguments
  <2>1. /\ spc = "arguments" /\ UNCHANGED <<outPipe, errPipe>>
        /\ \/ /\ held' = held \cup {"arguments"} /\ spc' = "outPipe" /\ table' = table
           \/ Returns({}, {"arguments"})
    BY <1>2 DEF S!Arguments, S!Return, Returns
  <2>2. CASE Returns({}, {"arguments"})
    BY <1>1, <2>1, <2>2, ReturnsKeep DEF StartInv, Descriptors, MemoryAt
  <2>3. CASE held' = held \cup {"arguments"} /\ spc' = "outPipe" /\ table' = table
    <3>1. Descriptors'
      BY <1>1, <2>1, <2>3 DEF StartInv, Descriptors, OnlyOurs
    <3>2. held' = MemoryAt["outPipe"] /\ "outPipe" \in DOMAIN MemoryAt
      BY <1>1, <2>1, <2>3 DEF MemoryAt
    <3> QED BY <1>1, <2>3, <3>1, <3>2 DEF StartInv, Returned
  <2> QED BY <2>1, <2>2, <2>3
<1>3. CASE S!OutPipe
  <2>1. /\ spc = "outPipe" /\ OnlyOurs(table, {})
        /\ \/ /\ spc' = "errPipe" /\ held' = held /\ Opens(outPipe'.r, outPipe'.w, S!OutNames)
           \/ Returns({}, {"arguments"})
    BY <1>1, <1>3, OutPipeDoes DEF StartInv, Descriptors
  <2>2. CASE Returns({}, {"arguments"})
    BY <1>1, <2>1, <2>2, ReturnsKeep DEF MemoryAt
  <2>3. CASE spc' = "errPipe" /\ held' = held /\ Opens(outPipe'.r, outPipe'.w, S!OutNames)
    <3>1. PICK r, w : r = outPipe'.r /\ w = outPipe'.w
      OBVIOUS
    <3>2. /\ r \in S!Fd /\ w \in S!Fd /\ r # w
          /\ table' = [table EXCEPT ![r] = "outR", ![w] = "outW"]
      BY <2>3, <3>1 DEF Opens, S!OutNames
    <3>3. /\ table' \in [S!Fd -> Values] /\ table'[r] = "outR" /\ table'[w] = "outW"
          /\ \A f \in S!Fd \ {r, w} : table'[f] = table[f]
      BY <1>1, <3>2 DEF Values
    <3>4. Descriptors'
      BY <2>1, <2>3, <3>1, <3>2, <3>3 DEF Descriptors, OnlyOurs, HasOut
    <3>5. held' = MemoryAt["errPipe"] /\ "errPipe" \in DOMAIN MemoryAt
      BY <1>1, <2>1, <2>3 DEF MemoryAt
    <3> QED BY <1>1, <2>3, <3>4, <3>5 DEF StartInv, Returned
  <2> QED BY <2>1, <2>2, <2>3
<1>4. CASE S!ErrPipe
  <2>1. /\ spc = "errPipe" /\ outPipe' = outPipe
        /\ {outPipe.r, outPipe.w} \subseteq S!Fd /\ outPipe.r # outPipe.w
        /\ HasOut(table) /\ OnlyOurs(table, {outPipe.r, outPipe.w})
        /\ \/ /\ spc' = "captures" /\ held' = held /\ Opens(errPipe'.r, errPipe'.w, S!ErrNames)
           \/ Returns(S!Ends(outPipe), {"arguments"})
    BY <1>1, <1>4, ErrPipeDoes DEF StartInv, Descriptors
  <2>2. CASE Returns(S!Ends(outPipe), {"arguments"})
    <3>1. S!Ends(outPipe) = {outPipe.r, outPipe.w}
      BY <2>1, FdNat DEF S!Ends
    <3> QED BY <1>1, <2>1, <2>2, <3>1, ReturnsKeep DEF MemoryAt
  <2>3. CASE spc' = "captures" /\ held' = held /\ Opens(errPipe'.r, errPipe'.w, S!ErrNames)
    <3>1. PICK r, w, r2, w2 : /\ r = outPipe.r /\ w = outPipe.w
                              /\ r2 = errPipe'.r /\ w2 = errPipe'.w
      OBVIOUS
    <3>2. /\ r2 \in S!Fd /\ w2 \in S!Fd /\ r2 # w2
          /\ table[r2] = S!None /\ table[w2] = S!None
          /\ table' = [table EXCEPT ![r2] = "errR", ![w2] = "errW"]
      BY <2>3, <3>1 DEF Opens, S!ErrNames
    <3>3. /\ r \in S!Fd /\ w \in S!Fd /\ r # w /\ table[r] = "outR" /\ table[w] = "outW"
          /\ \A f \in S!Fd \ {r, w} : table[f] \in {S!None, "other"}
      BY <2>1, <3>1 DEF HasOut, OnlyOurs
    <3>4. r2 # r /\ r2 # w /\ w2 # r /\ w2 # w
      BY <3>2, <3>3 DEF S!None
    <3>5. /\ table' \in [S!Fd -> Values] /\ table'[r2] = "errR" /\ table'[w2] = "errW"
          /\ \A f \in S!Fd \ {r2, w2} : table'[f] = table[f]
      BY <1>1, <3>2 DEF Values
    <3>6. /\ Distinct' /\ HasOut(table)' /\ HasErr(table)'
          /\ OnlyOurs(table, {outPipe.r, outPipe.w, errPipe.r, errPipe.w})'
      BY <2>1, <3>1, <3>2, <3>3, <3>4, <3>5 DEF Distinct, HasOut, HasErr, OnlyOurs
    <3>7. Descriptors'
      BY <2>3, <3>5, <3>6 DEF Descriptors
    <3>8. held' = MemoryAt["captures"] /\ "captures" \in DOMAIN MemoryAt
      BY <1>1, <2>1, <2>3 DEF MemoryAt
    <3> QED BY <1>1, <2>3, <3>7, <3>8 DEF StartInv, Returned
  <2> QED BY <2>1, <2>2, <2>3
<1>5. CASE S!Captures \/ S!Environment \/ S!Fork \/ S!GroupFails
  <2>1. /\ spc \in {"captures", "environment", "fork", "group"}
        /\ UNCHANGED <<outPipe, errPipe>>
        /\ \/ /\ table' = table
              /\ \/ spc = "captures" /\ spc' = "environment" /\ held' = held \cup {"outData", "errData"}
                 \/ spc = "environment" /\ spc' = "fork" /\ held' = held \cup {"environment"}
                 \/ spc = "fork" /\ spc' = "group" /\ held' = held
           \/ \E memory : /\ Returns(S!AllEnds, memory)
                          /\ (memory = {"arguments", "outData", "errData"} \/ memory = S!Memory)
                          /\ (spc = "captures" \/ memory = S!Memory)
    BY <1>5 DEF S!Captures, S!Environment, S!Fork, S!GroupFails, S!Return, Returns
  <2>2. /\ Distinct /\ HasOut(table) /\ HasErr(table)
        /\ OnlyOurs(table, {outPipe.r, outPipe.w, errPipe.r, errPipe.w})
    BY <2>1 DEF StartInv, Descriptors
  <2>3. CASE \E memory : /\ Returns(S!AllEnds, memory)
                         /\ (memory = {"arguments", "outData", "errData"} \/ memory = S!Memory)
                         /\ (spc = "captures" \/ memory = S!Memory)
    <3>1. S!AllEnds = {outPipe.r, outPipe.w, errPipe.r, errPipe.w}
      BY <2>2, FdNat DEF S!AllEnds, S!Ends, Distinct
    <3>2. PICK memory : /\ Returns(S!AllEnds, memory)
                        /\ (memory = {"arguments", "outData", "errData"} \/ memory = S!Memory)
                        /\ (spc = "captures" \/ memory = S!Memory)
      BY <2>3
    <3>3. MemoryAt[spc] \subseteq memory \cup S!Guarded
      BY <2>1, <3>2 DEF MemoryAt, S!Memory, S!Guarded
    <3> QED BY <1>1, <2>2, <3>1, <3>2, <3>3, ReturnsKeep
  <2>4. CASE /\ table' = table
             /\ \/ spc = "captures" /\ spc' = "environment" /\ held' = held \cup {"outData", "errData"}
                \/ spc = "environment" /\ spc' = "fork" /\ held' = held \cup {"environment"}
                \/ spc = "fork" /\ spc' = "group" /\ held' = held
    <3>1. Descriptors'
      BY <1>1, <2>1, <2>2, <2>4 DEF Descriptors, Distinct, HasOut, HasErr, OnlyOurs
    <3>2. spc' \in DOMAIN MemoryAt /\ held' = MemoryAt[spc']
      BY <1>1, <2>4 DEF MemoryAt, S!Memory, S!Guarded
    <3> QED BY <1>1, <3>1, <3>2 DEF StartInv, Returned
  <2> QED BY <2>1, <2>3, <2>4
<1>6. CASE S!GroupSet
  <2>1. /\ spc = "group" /\ spc' = "started" /\ UNCHANGED <<outPipe, errPipe>>
        /\ held' = held \ {"arguments", "environment"}
        /\ table' = S!Shut(table, {outPipe.w, errPipe.w})
    BY <1>6 DEF S!GroupSet
  <2>2. /\ Distinct /\ HasOut(table) /\ HasErr(table)
        /\ OnlyOurs(table, {outPipe.r, outPipe.w, errPipe.r, errPipe.w})
    BY <2>1 DEF StartInv, Descriptors
  <2>3. table' \in [S!Fd -> Values]
        /\ \A f \in S!Fd : table'[f] = IF f \in {outPipe.w, errPipe.w} THEN S!None ELSE table[f]
    BY <1>1, <2>1, Shutting
  <2>4. S!Ours(table)' = {outPipe.r, errPipe.r}
    BY <2>1, <2>2, <2>3 DEF S!Ours, Distinct, HasOut, HasErr, OnlyOurs, S!None
  <2>5. {ReadEnd(s) : s \in fd}' = {outPipe.r, errPipe.r}
    BY <1>1, <2>1, RunnerAssumption DEF ReadEnd
  <2>6. Descriptors'
    BY <2>1, <2>2, <2>3, <2>4, <2>5 DEF Descriptors, Distinct
  <2>7. spc' \in DOMAIN MemoryAt /\ held' = MemoryAt[spc']
    BY <1>1, <2>1 DEF MemoryAt, S!Memory, ReleasedAtResult
  <2> QED BY <1>1, <2>6, <2>7 DEF StartInv, Returned
<1> QED BY <1>1, <1>2, <1>3, <1>4, <1>5, <1>6 DEF S!Parent

\* The loop closes the read end of a stream it is done with, and no other.
LEMMA FdShrinks ==
    ASSUME LoopInv, LoopStep
    PROVE  fd' \subseteq fd /\ pc # "result"
<1>1. Parent /\ todo \subseteq Streams
  BY DEF LoopStep, LoopInv, LoopTypes
<1>2. CASE \E s \in todo : Drain(s) /\ pc # "result"
  BY <1>1, <1>2, Drains
<1>3. CASE ~(\E s \in todo : Drain(s) /\ pc # "result")
  BY <1>1, <1>3 DEF Parent, Turn, Cancel, Observe, Reap, Decide, Poll, DrainReady, Drained,
     KillGroup, KillLeader, Wait, Rest, Result, capture
<1> QED BY <1>2, <1>3

LEMMA LoopKeepsHoldings ==
    ASSUME LoopInv, StartInv, LoopStep
    PROVE  StartInv'
<1> DEFINE shut == {ReadEnd(s) : s \in fd \ fd'}
<1>1. /\ spc = "started" /\ UNCHANGED <<spc, outPipe, errPipe>>
      /\ table' = S!Shut(table, shut)
      /\ held' = IF pc' = "result" THEN held \ ReleasedAtResult ELSE held
      /\ fd' \subseteq fd /\ pc # "result" /\ fd \subseteq Streams
  BY FdShrinks DEF LoopStep, LoopInv, LoopTypes
<1>2. /\ Distinct /\ S!Ours(table) = {ReadEnd(s) : s \in fd} /\ table \in [S!Fd -> Values]
      /\ held = ReleasedAtResult /\ spc \in DOMAIN MemoryAt /\ MemoryAt[spc] = ReleasedAtResult
  BY <1>1 DEF StartInv, Descriptors, Returned, MemoryAt
<1>3. \A s, k \in Streams : ReadEnd(s) = ReadEnd(k) => s = k
  BY <1>2, RunnerAssumption DEF ReadEnd, Distinct
<1>4. \A s \in Streams : ReadEnd(s)' = ReadEnd(s)
  BY <1>1 DEF ReadEnd
<1>5. /\ table' \in [S!Fd -> Values]
      /\ \A f \in S!Fd : table'[f] = IF f \in shut THEN S!None ELSE table[f]
  BY <1>1, <1>2, Shutting
<1>6. S!Ours(table)' = S!Ours(table) \ shut
  BY <1>5 DEF S!Ours
<1>7. {ReadEnd(s) : s \in fd} \ shut = {ReadEnd(s) : s \in fd'}
  BY <1>1, <1>3
<1>8. {ReadEnd(s) : s \in fd'} = {ReadEnd(s) : s \in fd}'
  BY <1>1, <1>4
<1>9. Descriptors'
  <2>1. S!Ours(table)' = {ReadEnd(s) : s \in fd}'
    BY <1>2, <1>6, <1>7, <1>8
  <2> QED BY <1>1, <1>2, <1>5, <2>1 DEF Descriptors, Distinct
<1>10. held' = IF pc' = "result" THEN {} ELSE ReleasedAtResult
  BY <1>1, <1>2
<1> QED BY <1>1, <1>2, <1>9, <1>10 DEF StartInv, Returned

LEMMA InitHoldings == CallInit => StartInv
<1> SUFFICES ASSUME CallInit PROVE StartInv
  OBVIOUS
<1>1. /\ spc = "arguments" /\ held = {} /\ pc = "turn"
      /\ \E Open \in Starts : table = [f \in S!Fd |-> IF f \in Open THEN "other" ELSE S!None]
  BY DEF CallInit, Init, S!Init
<1>2. table \in [S!Fd -> Values] /\ OnlyOurs(table, {})
  BY <1>1 DEF Values, OnlyOurs
<1> QED BY <1>1, <1>2 DEF StartInv, Descriptors, MemoryAt, Returned

LEMMA NextHoldings == LoopInv /\ StartInv /\ [CallNext]_call => StartInv'
<1> SUFFICES ASSUME LoopInv, StartInv, [CallNext]_call PROVE StartInv'
  OBVIOUS
<1>1. ASSUME UNCHANGED <<spc, table, held, outPipe, errPipe, pc, fd>>
      PROVE  StartInv'
  BY <1>1 DEF StartInv, Descriptors, Returned, ReadEnd, S!Ours, OnlyOurs, HasOut, HasErr, Distinct
<1>2. CASE StartStep
  BY <1>2, StartKeepsHoldings
<1>3. CASE ChildStep
  <2>1. UNCHANGED <<spc, table, held, outPipe, errPipe, pc, fd>>
    BY <1>3, ChildLeavesParent DEF ChildStep, Die, vars, reader, capture
  <2> QED BY <1>1, <2>1
<1>4. CASE LoopStep
  BY <1>4, LoopKeepsHoldings
<1>5. CASE Surroundings
  <2>1. UNCHANGED starting /\ UNCHANGED <<reader, capture>>
    BY <1>5 DEF Surroundings, Helper, Kernel, Spawn, Escape, Redirect, Write, LeaderExits,
       DescendantExits, LeaderKilled, DescendantKilled, Die, Tick
  <2> QED BY <1>1, <2>1 DEF starting, reader, capture
<1>6. CASE UNCHANGED call
  BY <1>1, <1>6 DEF call, starting, vars, reader, capture
<1> QED BY <1>2, <1>3, <1>4, <1>5, <1>6 DEF CallNext

\* Whatever fails in the start, and however the loop is left, the call keeps
\* neither memory nor a descriptor (the early returns of l_run, its guards and
\* close_fd); in the loop it has the read ends it still reads, and no other.
THEOREM NothingIsHeld == CallSpec => []NothingHeld
<1>1. CallInit => LoopInv /\ StartInv
  BY InitLoop, InitHoldings
<1>2. (LoopInv /\ StartInv) /\ [CallNext]_call => (LoopInv /\ StartInv)'
  BY NextLoop, NextHoldings
<1>3. LoopInv /\ StartInv => NothingHeld
  <2> SUFFICES ASSUME LoopInv, StartInv PROVE NothingHeld
    OBVIOUS
  <2>1. CASE Returned
    <3>1. spc = "started" /\ fd = {} /\ held = {}
      BY <2>1 DEF Returned, LoopInv, Begun, StartInv
    <3>2. S!Ours(table) = {ReadEnd(s) : s \in fd}
      BY <3>1 DEF StartInv, Descriptors
    <3> QED BY <3>1, <3>2 DEF NothingHeld
  <2>2. CASE ~Returned
    <3>1. spc = "failed" => held = {} /\ S!Ours(table) = {}
      BY <2>2 DEF StartInv, Descriptors, MemoryAt, OnlyOurs, S!Ours
    <3>2. spc = "started" => S!Ours(table) = {ReadEnd(s) : s \in fd}
      BY DEF StartInv, Descriptors
    <3> QED BY <2>2, <3>1, <3>2 DEF NothingHeld, Ended
  <2> QED BY <2>1, <2>2
<1> QED BY <1>1, <1>2, <1>3, PTL DEF CallSpec

-----------------------------------------------------------------------------
(* The helper's own streams.                                                *)

\* The second pipe's ends, and the first one's write end, lie above the
\* standard streams when the program lacks one of them at most.
LEMMA FirstPipeAbove ==
    ASSUME table \in [S!Fd -> Values], NEW r, NEW w, NEW names, Opens(r, w, names),
           names.r # S!None, names.w # S!None,
           \A f, g \in Std \cap S!Fd : table[f] = S!None /\ table[g] = S!None => f = g
    PROVE  w \notin Std /\ \A f \in Std \cap S!Fd : table'[f] # S!None
<1>1. /\ r \in S!Fd /\ w \in S!Fd /\ r # w /\ r \in Nat /\ w \in Nat
      /\ table[r] = S!None /\ table[w] = S!None
      /\ \A f \in S!Fd : table[f] = S!None => r <= f /\ (f # r => w <= f)
      /\ table' = [table EXCEPT ![r] = names.r, ![w] = names.w]
  BY FdNat DEF Opens
<1>2. w \notin Std
  <2> SUFFICES ASSUME w \in Std PROVE FALSE
    OBVIOUS
  <2>1. r \in Std
    BY <1>1 DEF Std
  <2> QED BY <1>1, <2>1
<1>3. ASSUME NEW f \in Std \cap S!Fd PROVE table'[f] # S!None
  <2> SUFFICES ASSUME table'[f] = S!None PROVE FALSE
    OBVIOUS
  <2>1. f # r /\ f # w /\ table[f] = S!None
    BY <1>1
  <2>2. r <= f
    BY <1>1, <2>1
  <2>3. r \in Std
    BY <1>1, <2>2 DEF Std
  <2> QED BY <1>1, <2>1, <2>3
<1> QED BY <1>2, <1>3

LEMMA StartKeepsChild ==
    ASSUME StartInv, ChildInv, S!Parent
    PROVE  ChildInv'
<1>1. /\ table \in [S!Fd -> Values] /\ ctable \in [S!Fd -> Values]
      /\ cpc # "none" => Distinct /\ Above
  BY DEF StartInv, Descriptors, ChildInv
<1>2. CASE S!Arguments
  BY <1>2 DEF S!Arguments, S!Return, S!child, ChildInv, Distinct, Above, HasOut, HasErr, Wired
<1>3. CASE S!OutPipe
  <2>1. /\ spc = "outPipe" /\ UNCHANGED <<errPipe, cpc, ctable, cprivate>> /\ cpc = "none"
        /\ \A f, g \in Std \cap S!Fd : table[f] = S!None /\ table[g] = S!None => f = g
        /\ \/ spc' = "errPipe" /\ Opens(outPipe'.r, outPipe'.w, S!OutNames)
           \/ Returns({}, {"arguments"})
    BY <1>1, <1>3, OutPipeDoes DEF ChildInv
  <2>2. CASE Returns({}, {"arguments"})
    BY <1>1, <2>1, <2>2 DEF Returns, ChildInv
  <2>3. CASE spc' = "errPipe" /\ Opens(outPipe'.r, outPipe'.w, S!OutNames)
    <3>1. outPipe'.w \notin Std /\ \A f \in Std \cap S!Fd : table'[f] # S!None
      BY <1>1, <2>1, <2>3, FirstPipeAbove DEF S!OutNames, S!None
    <3> QED BY <1>1, <2>1, <2>3, <3>1 DEF ChildInv
  <2> QED BY <2>1, <2>2, <2>3
<1>4. CASE S!ErrPipe
  <2>1. /\ spc = "errPipe" /\ UNCHANGED <<outPipe, cpc, ctable, cprivate>> /\ cpc = "none"
        /\ outPipe.w \notin Std /\ \A f \in Std \cap S!Fd : table[f] # S!None
        /\ \/ spc' = "captures" /\ Opens(errPipe'.r, errPipe'.w, S!ErrNames)
           \/ Returns(S!Ends(outPipe), {"arguments"})
    BY <1>1, <1>4, ErrPipeDoes DEF ChildInv
  <2>2. CASE Returns(S!Ends(outPipe), {"arguments"})
    BY <1>1, <2>1, <2>2 DEF Returns, ChildInv
  <2>3. CASE spc' = "captures" /\ Opens(errPipe'.r, errPipe'.w, S!ErrNames)
    <3>1. Above'
      BY <2>1, <2>3 DEF Opens, Above
    <3> QED BY <1>1, <2>1, <2>3, <3>1 DEF ChildInv
  <2> QED BY <2>1, <2>2, <2>3
<1>5. CASE S!Captures \/ S!Environment \/ S!GroupSet
  <2>1. /\ UNCHANGED <<outPipe, errPipe, cpc, ctable, cprivate>>
        /\ \/ spc \in {"captures", "environment"} /\ spc' \in {"environment", "fork", "failed"}
           \/ spc = "group" /\ spc' = "started"
    BY <1>5 DEF S!Captures, S!Environment, S!GroupSet, S!Return, S!child
  <2> QED BY <1>1, <2>1 DEF ChildInv, Distinct, Above, HasOut, HasErr, Wired
<1>6. CASE S!Fork \/ S!GroupFails
  <2>1. /\ spc \in {"fork", "group"} /\ UNCHANGED <<outPipe, errPipe>>
        /\ spc' \in {"group", "failed"}
        /\ \/ UNCHANGED <<cpc, ctable, cprivate>> /\ spc' = "failed"
           \/ cpc' = "gone" /\ UNCHANGED <<ctable, cprivate>>
           \/ cpc' = "group" /\ ctable' = table
    BY <1>6 DEF S!Fork, S!GroupFails, S!Return, S!child
  <2>2. Distinct /\ Above /\ HasOut(table) /\ HasErr(table)
    BY <2>1 DEF StartInv, Descriptors, ChildInv
  <2>3. Distinct' /\ Above'
    BY <2>1, <2>2 DEF Distinct, Above
  <2> QED BY <1>1, <2>1, <2>2, <2>3 DEF ChildInv, HasOut, HasErr, Wired
<1> QED BY <1>2, <1>3, <1>4, <1>5, <1>6 DEF S!Parent

LEMMA RoomForOne ==
    ASSUME NEW t, S!Room(t, 1)
    PROVE  \E f \in S!Fd : t[f] = S!None
<1> DEFINE free == {g \in S!Fd : t[g] = S!None}
<1>1. \A A : S!Cardinality(A) = Cardinality(A)
  BY DEF S!Cardinality, Cardinality
<1>2. Cardinality(free) >= 1
  BY <1>1 DEF S!Room
<1> HIDE DEF free
<1>3. free # {}
  BY <1>2, FS_EmptySet
<1> QED BY <1>3 DEF free

\* Everything above the standard streams is closed, one way or the other.
LEMMA ExtraClosed ==
    ASSUME Ordinary, S!ChildExtra
    PROVE  \E fds : /\ ctable' = S!Shut(ctable, fds)
                    /\ fds \cap Std = {} /\ S!Fd \ Std \subseteq fds
<1>1. /\ S!CloseExtra \cap Std = {} /\ S!Fd \ Std \subseteq S!CloseExtra
      /\ S!LastResort \subseteq S!CloseExtra /\ S!Fd \ Std \subseteq S!LastResort
  BY StartAssumption DEF Ordinary, S!CloseExtra, S!LastResort, S!Fd, Std
<1>2. CASE ctable' = S!Shut(ctable, S!CloseExtra)
  BY <1>1, <1>2
<1>3. CASE \E some \in SUBSET S!CloseExtra : ctable' = S!Shut(ctable, some \cup S!LastResort)
  <2>1. PICK some \in SUBSET S!CloseExtra : ctable' = S!Shut(ctable, some \cup S!LastResort)
    BY <1>3
  <2>2. (some \cup S!LastResort) \cap Std = {} /\ S!Fd \ Std \subseteq some \cup S!LastResort
    BY <1>1
  <2> QED BY <2>1, <2>2
<1> QED BY <1>2, <1>3 DEF S!ChildExtra

LEMMA ChildKeepsChild ==
    ASSUME Ordinary, ChildInv, S!Child
    PROVE  ChildInv'
<1>1. /\ UNCHANGED <<spc, table, private, held, outPipe, errPipe>>
      /\ ctable \in [S!Fd -> Values]
  BY ChildLeavesParent DEF ChildInv
<1>2. cpc # "none"
  BY DEF S!Child, S!ChildExits, S!ChildGroup, S!ChildNull, S!ChildStreams, S!ChildExtra,
     S!ChildExec
<1>3. Distinct /\ Above
  BY <1>2 DEF ChildInv
<1>4. /\ spc \notin {"arguments", "outPipe", "errPipe", "captures", "environment", "fork"}
  BY <1>2 DEF ChildInv
<1>5. Distinct' /\ Above'
  BY <1>1, <1>3 DEF Distinct, Above
<1>6. PICK r, w, r2, w2 : r = outPipe.r /\ w = outPipe.w /\ r2 = errPipe.r /\ w2 = errPipe.w
  OBVIOUS
<1>7. /\ r \in S!Fd /\ w \in S!Fd /\ r2 \in S!Fd /\ w2 \in S!Fd
      /\ w # r /\ w # r2 /\ w2 # r /\ w2 # r2 /\ w # w2
      /\ w \notin Std /\ w2 \notin Std /\ r2 \notin Std
  BY <1>3, <1>6 DEF Distinct, Above
<1>8. Std \subseteq S!Fd /\ S!Fd \subseteq Nat
  <2>1. w \in Nat /\ w > 2 /\ w <= MaxFd
    BY <1>7, StartAssumption DEF Std, S!Fd
  <2> QED BY <2>1, StartAssumption DEF Std, S!Fd
<1>9. CASE S!ChildExits
  BY <1>1, <1>4, <1>5, <1>9 DEF S!ChildExits, ChildInv
<1>10. CASE S!ChildGroup
  <2>1. /\ cpc = "group" /\ cpc' = "null" /\ ctable' = S!Shut(ctable, {r, r2})
    BY <1>6, <1>10 DEF S!ChildGroup
  <2>2. ctable[w] = "outW" /\ ctable[w2] = "errW"
    BY <1>6, <2>1 DEF ChildInv, HasOut, HasErr
  <2>3. ctable' \in [S!Fd -> Values] /\ ctable'[w] = "outW" /\ ctable'[w2] = "errW"
    BY <1>1, <1>7, <2>1, <2>2, Shutting
  <2> QED BY <1>1, <1>4, <1>5, <1>6, <2>1, <2>3 DEF ChildInv
<1>11. CASE S!ChildNull
  <2>1. PICK null : null = S!Lowest(ctable)
    OBVIOUS
  <2>2. PICK opened, moved : opened = [ctable EXCEPT ![null] = "null"]
                             /\ moved = S!Dup(opened, null, 0)
    OBVIOUS
  <2>3. /\ cpc = "null" /\ cpc' = "streams" /\ S!Room(ctable, 1)
        /\ ctable' = IF null # 0 THEN S!Shut(moved, {null}) ELSE moved
        /\ cprivate' = cprivate \ {null, 0}
    BY <1>11, <2>1, <2>2 DEF S!ChildNull
  <2>4. null \in S!Fd /\ ctable[null] = S!None
    BY <2>1, <2>3, RoomForOne, LowestFree
  <2>5. ctable[w] = "outW" /\ ctable[w2] = "errW"
    BY <1>6, <2>3 DEF ChildInv
  <2>6. null # w /\ null # w2 /\ 0 \in S!Fd /\ w # 0 /\ w2 # 0
    BY <1>7, <1>8, <2>4, <2>5 DEF S!None, Std
  <2>7. opened \in [S!Fd -> Values] /\ opened[null] = "null" /\ opened[w] = "outW" /\ opened[w2] = "errW"
    BY <1>1, <1>7, <2>2, <2>4, <2>5, <2>6 DEF Values
  <2>8. moved \in [S!Fd -> Values] /\ moved[0] = "null" /\ moved[w] = "outW" /\ moved[w2] = "errW"
    BY <1>7, <2>2, <2>4, <2>6, <2>7 DEF S!Dup
  <2>9. /\ ctable' \in [S!Fd -> Values]
        /\ ctable'[0] = "null" /\ ctable'[w] = "outW" /\ ctable'[w2] = "errW"
    BY <1>7, <2>3, <2>6, <2>8, Shutting
  <2> QED BY <1>1, <1>4, <1>5, <1>6, <2>3, <2>9 DEF ChildInv
<1>12. CASE S!ChildStreams
  <2>1. PICK one, two : one = S!Dup(ctable, w, 1) /\ two = S!Dup(one, w2, 2)
    OBVIOUS
  <2>2. /\ cpc = "streams" /\ cpc' = "extra"
        /\ ctable' = S!Shut(two, {w, w2})
        /\ cprivate' = cprivate \ {IF w # 1 THEN 1 ELSE -1, IF w2 # 2 THEN 2 ELSE -1}
    BY <1>6, <1>12, <2>1 DEF S!ChildStreams, S!WireStreams, S!CloseWired
  <2>3. ctable[0] = "null" /\ 0 \notin cprivate /\ ctable[w] = "outW" /\ ctable[w2] = "errW"
    BY <1>6, <2>2 DEF ChildInv
  <2>4. {0, 1, 2} \subseteq S!Fd /\ w \notin {0, 1, 2} /\ w2 \notin {0, 1, 2}
    BY <1>7, <1>8 DEF Std
  <2>5. /\ one \in [S!Fd -> Values] /\ one[0] = "null" /\ one[1] = "outW" /\ one[w2] = "errW"
    BY <1>1, <1>7, <2>1, <2>3, <2>4 DEF S!Dup
  <2>6. /\ two \in [S!Fd -> Values] /\ two[0] = "null" /\ two[1] = "outW" /\ two[2] = "errW"
    BY <1>7, <2>1, <2>4, <2>5 DEF S!Dup
  <2>7. ctable' \in [S!Fd -> Values] /\ Wired(ctable)'
    BY <2>2, <2>4, <2>6, Shutting DEF Wired
  <2>8. Std \cap cprivate' = {}
    BY <2>2, <2>3, <2>4 DEF Std
  <2> QED BY <1>1, <1>4, <1>5, <2>2, <2>7, <2>8 DEF ChildInv
<1>13. CASE S!ChildExtra
  <2>1. PICK fds : ctable' = S!Shut(ctable, fds) /\ fds \cap Std = {} /\ S!Fd \ Std \subseteq fds
    BY <1>13, ExtraClosed
  <2>2. cpc = "extra" /\ cpc' = "exec" /\ cprivate' = cprivate
    BY <1>13 DEF S!ChildExtra
  <2>3. Wired(ctable) /\ Std \cap cprivate = {}
    BY <2>2 DEF ChildInv
  <2>4. /\ ctable' \in [S!Fd -> Values]
        /\ \A f \in S!Fd : ctable'[f] = IF f \in fds THEN S!None ELSE ctable[f]
    BY <1>1, <2>1, Shutting
  <2>5. Wired(ctable)' /\ \A f \in S!Fd \ Std : ctable'[f] = S!None
    BY <1>8, <2>1, <2>3, <2>4 DEF Wired, Std
  <2> QED BY <1>1, <1>4, <1>5, <2>2, <2>3, <2>4, <2>5 DEF ChildInv
<1>14. CASE S!ChildExec
  <2>1. /\ cpc = "exec" /\ cprivate' = cprivate
        /\ \/ cpc' = "helper" /\ ctable' = S!Shut(ctable, cprivate)
           \/ cpc' = "gone" /\ ctable' = ctable
    BY <1>14 DEF S!ChildExec
  <2>2. Wired(ctable) /\ Std \cap cprivate = {} /\ \A f \in S!Fd \ Std : ctable[f] = S!None
    BY <2>1 DEF ChildInv
  <2>3. CASE cpc' = "helper" /\ ctable' = S!Shut(ctable, cprivate)
    <3>1. /\ ctable' \in [S!Fd -> Values]
          /\ \A f \in S!Fd : ctable'[f] = IF f \in cprivate THEN S!None ELSE ctable[f]
      BY <1>1, <2>3, Shutting
    <3>2. Wired(ctable)' /\ \A f \in S!Fd \ Std : ctable'[f] = S!None
      BY <1>8, <2>2, <3>1 DEF Wired, Std
    <3> QED BY <1>1, <1>4, <1>5, <2>3, <3>1, <3>2 DEF ChildInv
  <2>4. CASE cpc' = "gone" /\ ctable' = ctable
    BY <1>1, <1>4, <1>5, <2>4 DEF ChildInv
  <2> QED BY <2>1, <2>3, <2>4
<1> QED BY <1>9, <1>10, <1>11, <1>12, <1>13, <1>14 DEF S!Child

LEMMA InitChild ==
    ASSUME Ordinary, CallInit
    PROVE  ChildInv
<1>1. /\ spc = "arguments" /\ cpc = "none" /\ ctable = table
      /\ \E Open \in Starts : table = [f \in S!Fd |-> IF f \in Open THEN "other" ELSE S!None]
  BY DEF CallInit, S!Init
<1>2. /\ table \in [S!Fd -> Values]
      /\ \A f, g \in Std \cap S!Fd : table[f] = S!None /\ table[g] = S!None => f = g
  BY <1>1 DEF Values, Ordinary, S!None
<1> QED BY <1>1, <1>2 DEF ChildInv

LEMMA NextChild ==
    ASSUME Ordinary, StartInv, ChildInv, [CallNext]_call
    PROVE  ChildInv'
<1>1. CASE StartStep
  BY <1>1, StartKeepsChild DEF StartStep
<1>2. CASE ChildStep
  BY <1>2, ChildKeepsChild DEF ChildStep
<1>3. CASE LoopStep
  <2>1. spc = "started" /\ UNCHANGED <<spc, outPipe, errPipe, cpc, ctable, cprivate>>
    BY <1>3 DEF LoopStep
  <2> QED BY <2>1 DEF ChildInv, Distinct, Above, HasOut, HasErr, Wired
<1>4. CASE Surroundings \/ UNCHANGED call
  <2>1. UNCHANGED <<spc, table, outPipe, errPipe, cpc, ctable, cprivate>>
    BY <1>4 DEF Surroundings, call, starting
  <2> QED BY <2>1 DEF ChildInv, Distinct, Above, HasOut, HasErr, Wired
<1> QED BY <1>1, <1>2, <1>3, <1>4 DEF CallNext

\* The helper runs with the null device, the two pipes and no other file,
\* whatever else the program has open, if the program itself has two of its
\* standard streams at least (the dup2 and close sequence of the child).
THEOREM HelperGetsItsStreams ==
    ASSUME Ordinary
    PROVE  CallSpec => []HelperStreams
<1>1. CallInit => LoopInv /\ StartInv /\ ChildInv
  BY InitLoop, InitHoldings, InitChild
<1>2. (LoopInv /\ StartInv /\ ChildInv) /\ [CallNext]_call => (LoopInv /\ StartInv /\ ChildInv)'
  BY NextLoop, NextHoldings, NextChild
<1>3. LoopInv /\ StartInv /\ ChildInv => HelperStreams
  <2> SUFFICES ASSUME ChildInv, cpc = "helper"
               PROVE  ctable = [f \in S!Fd |-> CASE f = 0 -> "null" [] f = 1 -> "outW"
                                                 [] f = 2 -> "errW" [] OTHER -> S!None]
    BY DEF HelperStreams, S!HelperStreams
  <2>1. /\ ctable \in [S!Fd -> Values] /\ Wired(ctable)
        /\ \A f \in S!Fd \ Std : ctable[f] = S!None
    BY DEF ChildInv
  <2>2. ASSUME NEW f \in S!Fd
        PROVE  ctable[f] = CASE f = 0 -> "null" [] f = 1 -> "outW"
                             [] f = 2 -> "errW" [] OTHER -> S!None
    BY <2>1, FdNat DEF Wired, Std
  <2> QED BY <2>1, <2>2
<1> QED BY <1>1, <1>2, <1>3, PTL DEF CallSpec
==============================================================================
