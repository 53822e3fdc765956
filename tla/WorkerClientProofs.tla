-------------------------- MODULE WorkerClientProofs --------------------------
(***************************************************************************)
(* Theorems about WorkerClient, for every source: any finite sets of       *)
(* sessions and job addresses, any policies, depth of nesting and limit of *)
(* controllers, any time limits.                                           *)
(***************************************************************************)
EXTENDS WorkerClient, FiniteSetTheorems, TLAPS

-----------------------------------------------------------------------------
(* The heap and who counts on it.                                           *)

Words == (UNION {s.policies : s \in Sources}) \cup {None}

JobRecord   == [refs : Nat, cancelled : BOOLEAN, state : {"IDLE", "QUERY", "READY", "ERROR"},
                done : BOOLEAN, processes : Words, requested : Nat, failed : Nat,
                frame : Frames \cup {None}]
FrameRecord == [refs : Nat, processes : Words, started : Nat]

\* The jobs that store frame f.
Storing(h, f) == {j \in Jobs : h.jobs[j].frame = f}

\* What ReplyIsCurrent says of one job.
CurrentReply(h, j) ==
    LET job == h.jobs[j] IN
    /\ job.state = "READY" <=> job.frame # None
    /\ job.frame # None => /\ h.frames[job.frame].processes = job.processes
                           /\ h.frames[job.frame].started <= job.requested

\* A heap in which job j is held jr[j] times, and frame f is held fr[f] times
\* by others than jobs.
HeapOK(h, jr, fr) ==
    /\ h \in [jobs : [Jobs -> JobRecord], frames : [Frames -> FrameRecord]]
    /\ jr \in [Jobs -> Nat] /\ fr \in [Frames -> Nat]
    /\ \A j \in Jobs : h.jobs[j].refs = jr[j]
    /\ \A f \in Frames : h.frames[f].refs = Cardinality(Storing(h, f)) + fr[f]
    /\ \A j \in Jobs : h.jobs[j].refs = 0 => h.jobs[j] = FreeJob
    /\ \A j \in Jobs : CurrentReply(h, j)

\* The holders.
SessionsOf(j) == {s \in Sessions : sessions[s].job = j}
CallsOn(j)    == {l \in Levels : HoldsJob(l, j)}
Decoding(f)   == {l \in Levels : HoldsFrame(l, f)}
Publishing(f) == {j \in Jobs : At(j, "publish") /\ ctl[j].frame = f}
Counted       == {j \in Jobs : ~At(j, "none") /\ ~At(j, "drop")}

JobHolders == [j \in Jobs |-> Cardinality(SessionsOf(j)) + Cardinality(CallsOn(j))
                              + (IF At(j, "none") THEN 0 ELSE 1)]
FrameHolders == [f \in Frames |-> Cardinality(Decoding(f)) + Cardinality(Publishing(f))]

-----------------------------------------------------------------------------
(* The inductive invariant.                                                 *)

CallPCs == {"none", "guard", "look", "decode", "signal", "closing"}
CtlPCs  == {"none", "spawn", "configure", "check", "blocked", "exchange", "publish",
            "quit", "reap", "finish", "uncount", "drop"}

ThreadRecord == [pc : CtlPCs, processes : Words, frame : Frames \cup {None},
                 grace : Nat, killed : BOOLEAN]
CallRecord   == [pc : CallPCs, session : Sessions \cup {None}, job : Jobs \cup {None},
                 frame : Frames \cup {None}, processes : Words]

Types ==
    /\ source \in Sources
    /\ sessions \in [Sessions -> [closed : BOOLEAN, job : Jobs \cup {None}]]
    /\ ctl \in [Jobs -> ThreadRecord]
    /\ child \in [Jobs -> {"none", "running", "zombie"}]
    /\ call \in [Levels -> CallRecord]

\* A call that holds no reference of its own relies on its session's.
CallOK(l) ==
    LET c == call[l] IN
    /\ c.pc = "none" => c = NoCall
    /\ c.pc # "none" => c.session \in Sessions /\ c.job \in Jobs
    /\ c.pc = "decode" <=> c.frame # None
    /\ c.pc \in {"guard", "signal", "closing"} => sessions[c.session].job = c.job
    /\ c.pc \in {"signal", "closing"} => sessions[c.session].closed

\* Calls nest in one another's decoding only.
Stack == \A l, m \in Levels : l < m /\ call[m].pc # "none" => call[l].pc = "decode"

\* While a controller spawns or exchanges, nobody else changes the request;
\* it has a reader process just while it may use or must reap one.
ThreadOK(j) ==
    LET t == ctl[j] IN
    /\ t.pc = "publish" <=> t.frame # None
    /\ t.pc \in {"spawn", "configure", "exchange", "publish"} => jobs[j].state = "QUERY"
    /\ t.pc \in {"exchange", "publish"} => t.processes = jobs[j].processes
    /\ t.pc = "publish" => /\ frames[t.frame].processes = t.processes
                           /\ frames[t.frame].started <= jobs[j].requested
    /\ t.pc \in {"none", "spawn", "finish", "uncount", "drop"} => child[j] = "none"
    /\ child[j] = "none" => t.pc \notin {"configure", "check", "blocked", "exchange",
                                         "publish", "reap"}
    /\ jobs[j].done => t.pc \in {"none", "uncount", "drop"}

\* A job belongs to one session.
Owned == \A s, t \in Sessions : sessions[s].job # None /\ sessions[s].job = sessions[t].job => s = t

CountersOK == controllers = Cardinality(Counted) /\ controllers <= Limit

IInv ==
    /\ Types
    /\ HeapOK(Heap, JobHolders, FrameHolders)
    /\ \A l \in Levels : CallOK(l)
    /\ Stack /\ Owned
    /\ \A j \in Jobs : ThreadOK(j)
    /\ CountersOK
    /\ NoLostWakeup

USE DEF ThreadRecord, CallRecord

-----------------------------------------------------------------------------
(* Counting.                                                                *)

\* Two subsets of a finite set that differ in one element at most.
LEMMA OneChanged ==
    ASSUME NEW S, IsFiniteSet(S), NEW A, NEW B, A \subseteq S, B \subseteq S,
           NEW x, \A y \in S : y # x => (y \in A <=> y \in B)
    PROVE  /\ Cardinality(A) \in Nat /\ Cardinality(B) \in Nat
           /\ Cardinality(B) = Cardinality(A) + (IF x \in B THEN 1 ELSE 0)
                                              - (IF x \in A THEN 1 ELSE 0)
           /\ x \in A => Cardinality(A) > 0
<1>1. IsFiniteSet(A) /\ IsFiniteSet(B)
  BY FS_Subset
<1>2. Cardinality(A) \in Nat /\ Cardinality(B) \in Nat
  BY <1>1, FS_CardinalityType
<1>3. x \in A => Cardinality(A) # 0
  BY <1>1, FS_EmptySet
<1>4. CASE x \in A <=> x \in B
  <2>1. A = B
    BY <1>4
  <2> QED BY <1>2, <1>3, <2>1
<1>5. CASE x \in A /\ x \notin B
  <2>1. B = A \ {x}
    BY <1>5
  <2> QED BY <1>1, <1>2, <1>3, <1>5, <2>1, FS_RemoveElement
<1>6. CASE x \notin A /\ x \in B
  <2>1. B = A \cup {x}
    BY <1>6
  <2> QED BY <1>1, <1>2, <1>6, <2>1, FS_AddElement
<1> QED BY <1>4, <1>5, <1>6

LEMMA FiniteSources ==
    ASSUME source \in Sources
    PROVE  /\ IsFiniteSet(Sessions) /\ IsFiniteSet(Levels) /\ IsFiniteSet(Jobs)
           /\ Depth \in Nat \ {0} /\ Limit \in Nat \ {0} /\ None \notin Sessions
           /\ Policies \subseteq Words
<1>1. /\ IsFiniteSet(Sessions) /\ IsFiniteSet(Jobs) /\ None \notin Sessions
      /\ Depth \in Nat \ {0} /\ Limit \in Nat \ {0}
  BY WorkerAssumption DEF Sessions, Depth, Limit
<1>2. IsFiniteSet(Levels)
  BY <1>1, FS_Interval DEF Levels
<1> QED BY <1>1, <1>2 DEF Policies, Words

-----------------------------------------------------------------------------
(* The heap operations.                                                     *)

\* The data of whatever is still allocated is untouched.
Kept(h, k) ==
    /\ \A j \in Jobs : k.jobs[j].refs > 0 =>
          h.jobs[j].refs > 0 /\ k.jobs[j] = [h.jobs[j] EXCEPT !.refs = k.jobs[j].refs]
    /\ \A f \in Frames : k.frames[f].refs > 0 =>
          h.frames[f].refs > 0 /\ k.frames[f] = [h.frames[f] EXCEPT !.refs = k.frames[f].refs]

LEMMA KeptTwice ==
    ASSUME NEW h \in [jobs : [Jobs -> JobRecord], frames : [Frames -> FrameRecord]],
           NEW k, NEW m, Kept(h, k), Kept(k, m)
    PROVE  Kept(h, m)
<1>1. ASSUME NEW j \in Jobs, m.jobs[j].refs > 0
      PROVE  h.jobs[j].refs > 0 /\ m.jobs[j] = [h.jobs[j] EXCEPT !.refs = m.jobs[j].refs]
  <2>1. /\ k.jobs[j].refs > 0 /\ h.jobs[j].refs > 0
        /\ m.jobs[j] = [k.jobs[j] EXCEPT !.refs = m.jobs[j].refs]
        /\ k.jobs[j] = [h.jobs[j] EXCEPT !.refs = k.jobs[j].refs]
        /\ h.jobs[j] \in JobRecord
    BY <1>1 DEF Kept
  <2> QED BY <2>1 DEF JobRecord
<1>2. ASSUME NEW f \in Frames, m.frames[f].refs > 0
      PROVE  h.frames[f].refs > 0 /\ m.frames[f] = [h.frames[f] EXCEPT !.refs = m.frames[f].refs]
  <2>1. /\ k.frames[f].refs > 0 /\ h.frames[f].refs > 0
        /\ m.frames[f] = [k.frames[f] EXCEPT !.refs = m.frames[f].refs]
        /\ k.frames[f] = [h.frames[f] EXCEPT !.refs = k.frames[f].refs]
        /\ h.frames[f] \in FrameRecord
    BY <1>2 DEF Kept
  <2> QED BY <2>1 DEF FrameRecord
<1> QED BY <1>1, <1>2 DEF Kept

\* A frame that a job stores, or that is held otherwise, is allocated.
LEMMA Held ==
    ASSUME NEW h, NEW jr, NEW fr, HeapOK(h, jr, fr), NEW f \in Frames
    PROVE  /\ Cardinality(Storing(h, f)) \in Nat
           /\ fr[f] > 0 => h.frames[f].refs > 0
           /\ \A j \in Jobs : h.jobs[j].frame = f => h.frames[f].refs > 0
           /\ h.frames[f].refs = 0 => Storing(h, f) = {} /\ fr[f] = 0
<1>1. IsFiniteSet(Jobs) /\ Storing(h, f) \subseteq Jobs
  BY WorkerAssumption DEF Storing
<1>2. /\ Cardinality(Storing(h, f)) \in Nat
      /\ \A j \in Storing(h, f) : Cardinality(Storing(h, f)) > 0
  BY <1>1, OneChanged
<1>3. h.frames[f].refs = Cardinality(Storing(h, f)) + fr[f] /\ fr[f] \in Nat
  BY DEF HeapOK
<1>4. \A j \in Jobs : h.jobs[j].frame = f => j \in Storing(h, f)
  BY DEF Storing
<1> QED BY <1>2, <1>3, <1>4

\* A heap with another record at j, and the counts when a job lets go of one
\* frame and stores another (or none).
WithJob(h, j, x) == [h EXCEPT !.jobs = [h.jobs EXCEPT ![j] = x]]

Passed(fr, from, to) ==
    [f \in Frames |-> fr[f] + (IF f = from THEN 1 ELSE 0) - (IF f = to THEN 1 ELSE 0)]

LEMMA PassedType ==
    ASSUME NEW fr \in [Frames -> Nat], NEW from, NEW to,
           to \in Frames => to = from \/ fr[to] > 0
    PROVE  /\ Passed(fr, from, to) \in [Frames -> Nat]
           /\ from = to => Passed(fr, from, to) = fr
BY DEF Passed

LEMMA WithJobEffect ==
    ASSUME NEW h \in [jobs : [Jobs -> JobRecord], frames : [Frames -> FrameRecord]],
           NEW j \in Jobs, NEW x \in JobRecord
    PROVE  /\ WithJob(h, j, x) \in [jobs : [Jobs -> JobRecord], frames : [Frames -> FrameRecord]]
           /\ WithJob(h, j, x).frames = h.frames
           /\ WithJob(h, j, x).jobs[j] = x
           /\ \A i \in Jobs \ {j} : WithJob(h, j, x).jobs[i] = h.jobs[i]
BY DEF WithJob

LEMMA SetJob ==
    ASSUME NEW h, NEW jr, NEW fr, HeapOK(h, jr, fr),
           NEW j \in Jobs, NEW x \in JobRecord, x.refs > 0 \/ x = FreeJob,
           CurrentReply(WithJob(h, j, x), j),
           x.frame \in Frames => x.frame = h.jobs[j].frame \/ fr[x.frame] > 0
    PROVE  HeapOK(WithJob(h, j, x), [jr EXCEPT ![j] = x.refs],
                  Passed(fr, h.jobs[j].frame, x.frame))
<1> DEFINE k   == WithJob(h, j, x)
           jr2 == [jr EXCEPT ![j] = x.refs]
           fr2 == Passed(fr, h.jobs[j].frame, x.frame)
<1>0. h \in [jobs : [Jobs -> JobRecord], frames : [Frames -> FrameRecord]]
      /\ fr \in [Frames -> Nat]
  BY DEF HeapOK
<1>1. /\ k \in [jobs : [Jobs -> JobRecord], frames : [Frames -> FrameRecord]]
      /\ k.frames = h.frames /\ k.jobs[j] = x
      /\ \A i \in Jobs \ {j} : k.jobs[i] = h.jobs[i]
  BY <1>0, WithJobEffect
<1>2. jr2 \in [Jobs -> Nat] /\ jr2[j] = x.refs /\ \A i \in Jobs \ {j} : jr2[i] = jr[i]
  BY DEF HeapOK, JobRecord
<1>3. fr2 \in [Frames -> Nat]
  BY <1>0, PassedType
<1>4. \A f \in Frames : fr2[f] = fr[f] + (IF h.jobs[j].frame = f THEN 1 ELSE 0)
                                       - (IF x.frame = f THEN 1 ELSE 0)
  BY DEF Passed
<1> HIDE DEF k, jr2, fr2
<1>5. \A i \in Jobs : k.jobs[i].refs = jr2[i]
  BY <1>1, <1>2 DEF HeapOK
<1>6. ASSUME NEW f \in Frames
      PROVE  k.frames[f].refs = Cardinality(Storing(k, f)) + fr2[f]
  <2>1. /\ Storing(h, f) \subseteq Jobs /\ Storing(k, f) \subseteq Jobs
        /\ \A i \in Jobs : i # j => (i \in Storing(h, f) <=> i \in Storing(k, f))
        /\ j \in Storing(h, f) <=> h.jobs[j].frame = f
        /\ j \in Storing(k, f) <=> x.frame = f
    BY <1>1 DEF Storing
  <2>2. IsFiniteSet(Jobs)
    BY WorkerAssumption
  <2>3. /\ Cardinality(Storing(h, f)) \in Nat /\ Cardinality(Storing(k, f)) \in Nat
        /\ Cardinality(Storing(k, f)) = Cardinality(Storing(h, f))
             + (IF j \in Storing(k, f) THEN 1 ELSE 0) - (IF j \in Storing(h, f) THEN 1 ELSE 0)
    BY <2>1, <2>2, OneChanged
  <2>4. h.frames[f].refs = Cardinality(Storing(h, f)) + fr[f] /\ fr[f] \in Nat
    BY DEF HeapOK
  <2>5. fr2[f] = fr[f] + (IF h.jobs[j].frame = f THEN 1 ELSE 0)
                       - (IF x.frame = f THEN 1 ELSE 0) /\ fr2[f] \in Nat
    BY <1>3, <1>4
  <2> QED BY <1>1, <2>1, <2>3, <2>4, <2>5
<1>7. \A i \in Jobs : k.jobs[i].refs = 0 => k.jobs[i] = FreeJob
  BY <1>1 DEF HeapOK, JobRecord
<1>8. \A i \in Jobs : CurrentReply(k, i)
  BY <1>1 DEF HeapOK, CurrentReply, k
<1> QED BY <1>1, <1>2, <1>3, <1>5, <1>6, <1>7, <1>8 DEF HeapOK, k, jr2, fr2

\* One frame's record changes, with its count; what a job stores keeps its data.
LEMMA SetFrame ==
    ASSUME NEW h, NEW jr, NEW fr, HeapOK(h, jr, fr),
           NEW f \in Frames, NEW x \in FrameRecord,
           NEW k, k = [h EXCEPT !.frames = [h.frames EXCEPT ![f] = x]],
           NEW fr2 \in [Frames -> Nat],
           \A g \in Frames : g # f => fr2[g] = fr[g],
           x.refs = Cardinality(Storing(h, f)) + fr2[f],
           \/ Storing(h, f) = {}
           \/ x.processes = h.frames[f].processes /\ x.started = h.frames[f].started
    PROVE  HeapOK(k, jr, fr2)
<1>1. /\ k \in [jobs : [Jobs -> JobRecord], frames : [Frames -> FrameRecord]]
      /\ k.jobs = h.jobs /\ k.frames[f] = x
      /\ \A g \in Frames \ {f} : k.frames[g] = h.frames[g]
  BY DEF HeapOK
<1>2. \A g \in Frames : Storing(k, g) = Storing(h, g)
  BY <1>1 DEF Storing
<1>3. \A g \in Frames : k.frames[g].refs = Cardinality(Storing(k, g)) + fr2[g]
  BY <1>1, <1>2 DEF HeapOK
<1>4. ASSUME NEW i \in Jobs PROVE CurrentReply(k, i)
  <2>1. CurrentReply(h, i) /\ h.jobs[i].frame \in Frames \cup {None}
    BY DEF HeapOK, JobRecord
  <2>2. h.jobs[i].frame = f => i \in Storing(h, f)
    BY DEF Storing
  <2> QED BY <1>1, <2>1, <2>2 DEF CurrentReply
<1> QED BY <1>1, <1>3, <1>4 DEF HeapOK

\* frame_release by a holder that is not a job.
LEMMA FrameReleased ==
    ASSUME NEW h, NEW jr, NEW fr, HeapOK(h, jr, fr), NEW f \in Frames, fr[f] > 0
    PROVE  /\ HeapOK(ReleaseFrame(h, f), jr, [fr EXCEPT ![f] = @ - 1])
           /\ Kept(h, ReleaseFrame(h, f))
           /\ ReleaseFrame(h, f).jobs = h.jobs
<1> DEFINE x == IF h.frames[f].refs = 1 THEN FreeFrame
                ELSE [h.frames[f] EXCEPT !.refs = @ - 1]
           k == [h EXCEPT !.frames = [h.frames EXCEPT ![f] = x]]
           fr2 == [fr EXCEPT ![f] = @ - 1]
<1>0. /\ h \in [jobs : [Jobs -> JobRecord], frames : [Frames -> FrameRecord]]
      /\ fr \in [Frames -> Nat]
      /\ h.frames[f].refs = Cardinality(Storing(h, f)) + fr[f]
  BY DEF HeapOK
<1>1. f # None
  BY WorkerAssumption
<1>2. ReleaseFrame(h, f) = k
  BY <1>0, <1>1 DEF ReleaseFrame, OneLess
<1>3. /\ Cardinality(Storing(h, f)) \in Nat /\ h.frames[f].refs > 0
      /\ h.frames[f] \in FrameRecord /\ h.frames[f].refs \in Nat
  BY <1>0, Held DEF FrameRecord
<1>4. /\ x \in FrameRecord /\ x.refs = h.frames[f].refs - 1
      /\ x.refs > 0 => /\ x = [h.frames[f] EXCEPT !.refs = x.refs]
                       /\ x.processes = h.frames[f].processes
                       /\ x.started = h.frames[f].started
  BY <1>3 DEF FreeFrame, FrameRecord, Words
<1> HIDE DEF x
<1>5. fr2 \in [Frames -> Nat] /\ fr2[f] = fr[f] - 1 /\ \A g \in Frames : g # f => fr2[g] = fr[g]
  BY <1>0
<1> HIDE DEF fr2
<1>6. x.refs = Cardinality(Storing(h, f)) + fr2[f]
  BY <1>0, <1>3, <1>4, <1>5
<1>7. Storing(h, f) = {} \/ (x.processes = h.frames[f].processes /\ x.started = h.frames[f].started)
  <2>1. IsFiniteSet(Storing(h, f))
    BY WorkerAssumption, FS_Subset DEF Storing
  <2>2. Cardinality(Storing(h, f)) = 0 => Storing(h, f) = {}
    BY <2>1, FS_EmptySet
  <2> QED BY <1>3, <1>4, <1>5, <1>6, <2>2
<1>8. HeapOK(k, jr, fr2)
  BY <1>4, <1>5, <1>6, <1>7, SetFrame
<1>9. /\ k.jobs = h.jobs /\ k.frames[f] = x
      /\ \A g \in Frames \ {f} : k.frames[g] = h.frames[g]
  BY <1>0
<1>10. Kept(h, k)
  <2>1. \A j \in Jobs : h.jobs[j] = [h.jobs[j] EXCEPT !.refs = h.jobs[j].refs]
    BY <1>0 DEF JobRecord
  <2>2. \A g \in Frames : h.frames[g] = [h.frames[g] EXCEPT !.refs = h.frames[g].refs]
    BY <1>0 DEF FrameRecord
  <2> HIDE DEF k
  <2> QED BY <1>3, <1>4, <1>9, <2>1, <2>2 DEF Kept
<1> QED BY <1>2, <1>8, <1>9, <1>10 DEF fr2

\* job_release.
LEMMA JobReleased ==
    ASSUME NEW h, NEW jr, NEW fr, HeapOK(h, jr, fr), NEW j \in Jobs, jr[j] > 0
    PROVE  /\ HeapOK(ReleaseJob(h, j), [jr EXCEPT ![j] = @ - 1], fr)
           /\ Kept(h, ReleaseJob(h, j))
<1> DEFINE m == h.jobs[j]
           jr2 == [jr EXCEPT ![j] = @ - 1]
<1>1. /\ h \in [jobs : [Jobs -> JobRecord], frames : [Frames -> FrameRecord]]
      /\ jr \in [Jobs -> Nat] /\ fr \in [Frames -> Nat]
      /\ m \in JobRecord /\ m.refs = jr[j] /\ m.refs \in Nat /\ m.refs > 0
      /\ m.frame \in Frames \cup {None} /\ CurrentReply(h, j)
  BY DEF HeapOK, JobRecord
<1>2. /\ \A i \in Jobs : h.jobs[i] = [h.jobs[i] EXCEPT !.refs = h.jobs[i].refs]
      /\ \A f \in Frames : h.frames[f] = [h.frames[f] EXCEPT !.refs = h.frames[f].refs]
  BY <1>1 DEF JobRecord, FrameRecord
<1>3. CASE m.refs # 1
  <2> DEFINE x == OneLess(m)
             k == WithJob(h, j, x)
  <2>1. ReleaseJob(h, j) = k
    BY <1>1, <1>3 DEF ReleaseJob, WithJob
  <2>2. /\ x \in JobRecord /\ x.refs = m.refs - 1 /\ x.refs > 0
        /\ x = [m EXCEPT !.refs = x.refs]
        /\ x.state = m.state /\ x.frame = m.frame
        /\ x.processes = m.processes /\ x.requested = m.requested
    <3> HIDE DEF m
    <3> QED BY <1>1, <1>3 DEF OneLess, JobRecord
  <2> HIDE DEF x
  <2>3. /\ k.frames = h.frames /\ k.jobs[j] = x
        /\ \A i \in Jobs \ {j} : k.jobs[i] = h.jobs[i]
    BY <1>1, <2>2, WithJobEffect
  <2>4. CurrentReply(k, j)
    BY <1>1, <2>2, <2>3 DEF CurrentReply
  <2>5. jr2 = [jr EXCEPT ![j] = x.refs]
    BY <1>1, <2>2
  <2>6. HeapOK(k, jr2, fr)
    <3>1. Passed(fr, h.jobs[j].frame, x.frame) = fr
      BY <1>1, <2>2, PassedType
    <3>2. HeapOK(k, [jr EXCEPT ![j] = x.refs], Passed(fr, h.jobs[j].frame, x.frame))
      BY <2>2, <2>4, SetJob
    <3> QED BY <2>5, <3>1, <3>2
  <2>7. Kept(h, k)
    <3> HIDE DEF k
    <3> QED BY <1>1, <1>2, <2>2, <2>3 DEF Kept
  <2> QED BY <2>1, <2>6, <2>7
<1>4. CASE m.refs = 1
  <2> DEFINE k   == WithJob(h, j, FreeJob)
             fr2 == Passed(fr, m.frame, None)
  <2>1. ReleaseJob(h, j) = ReleaseFrame(k, m.frame)
    BY <1>1, <1>4 DEF ReleaseJob, WithJob
  <2>2. /\ FreeJob \in JobRecord /\ FreeJob.refs = 0 /\ FreeJob.frame = None
        /\ FreeJob.state = "IDLE" /\ None \notin Frames
    BY WorkerAssumption DEF FreeJob, JobRecord, Words
  <2>3. /\ k.frames = h.frames /\ k.jobs[j] = FreeJob
        /\ \A i \in Jobs \ {j} : k.jobs[i] = h.jobs[i]
    BY <1>1, <2>2, WithJobEffect
  <2>4. CurrentReply(k, j)
    BY <2>2, <2>3 DEF CurrentReply
  <2>5. jr2 = [jr EXCEPT ![j] = FreeJob.refs]
    BY <1>1, <1>4, <2>2
  <2>6. HeapOK(k, jr2, fr2)
    <3>1. HeapOK(k, [jr EXCEPT ![j] = FreeJob.refs], Passed(fr, h.jobs[j].frame, FreeJob.frame))
      BY <2>2, <2>4, SetJob
    <3> QED BY <2>2, <2>5, <3>1
  <2>7. Kept(h, k)
    <3> HIDE DEF k
    <3> QED BY <1>2, <2>2, <2>3 DEF Kept
  <2>8. CASE m.frame = None
    <3>1. fr2 = fr
      BY <1>1, <2>2, <2>8, PassedType
    <3>2. ReleaseFrame(k, m.frame) = k
      BY <2>8 DEF ReleaseFrame
    <3>3. HeapOK(k, jr2, fr)
      BY <2>6, <3>1
    <3> QED BY <2>1, <2>7, <3>2, <3>3
  <2>9. CASE m.frame # None
    <3>1. m.frame \in Frames /\ fr2[m.frame] > 0 /\ [fr2 EXCEPT ![m.frame] = @ - 1] = fr
      BY <1>1, <2>2, <2>9 DEF Passed
    <3> HIDE DEF k, jr2, fr2, m
    <3>3. /\ HeapOK(ReleaseFrame(k, m.frame), jr2, fr)
          /\ Kept(k, ReleaseFrame(k, m.frame))
          /\ ReleaseFrame(k, m.frame).jobs = k.jobs
      BY <2>6, <3>1, FrameReleased
    <3>4. Kept(h, ReleaseFrame(k, m.frame))
      BY <1>1, <2>7, <3>3, KeptTwice
    <3> QED BY <2>1, <3>3, <3>4 DEF jr2
  <2> QED BY <2>8, <2>9
<1> QED BY <1>3, <1>4

-----------------------------------------------------------------------------
(* Who holds what, after a step.                                            *)

One(condition) == IF condition THEN 1 ELSE 0

LEMMA SessionsChange ==
    ASSUME Types, UNCHANGED source, NEW s \in Sessions,
           \A t \in Sessions \ {s} : sessions'[t].job = sessions[t].job
    PROVE  \A j \in Jobs :
              /\ Cardinality(SessionsOf(j)) \in Nat /\ Cardinality(SessionsOf(j)') \in Nat
              /\ Cardinality(SessionsOf(j)') = Cardinality(SessionsOf(j))
                    + One(sessions'[s].job = j) - One(sessions[s].job = j)
              /\ sessions[s].job = j => Cardinality(SessionsOf(j)) > 0
<1> SUFFICES ASSUME NEW j \in Jobs
             PROVE  /\ Cardinality(SessionsOf(j)) \in Nat /\ Cardinality(SessionsOf(j)') \in Nat
                    /\ Cardinality(SessionsOf(j)') = Cardinality(SessionsOf(j))
                          + One(sessions'[s].job = j) - One(sessions[s].job = j)
                    /\ sessions[s].job = j => Cardinality(SessionsOf(j)) > 0
  OBVIOUS
<1>1. IsFiniteSet(Sessions) /\ Sessions' = Sessions
  BY FiniteSources DEF Types, Sessions
<1>2. /\ SessionsOf(j) \subseteq Sessions /\ SessionsOf(j)' \subseteq Sessions
      /\ \A t \in Sessions : t # s => (t \in SessionsOf(j) <=> t \in SessionsOf(j)')
      /\ s \in SessionsOf(j) <=> sessions[s].job = j
      /\ s \in SessionsOf(j)' <=> sessions'[s].job = j
  BY <1>1 DEF SessionsOf
<1> QED BY <1>1, <1>2, OneChanged DEF One

LEMMA CallsChange ==
    ASSUME Types, UNCHANGED source, NEW l \in Levels,
           \A m \in Levels \ {l} : call'[m] = call[m]
    PROVE  /\ \A j \in Jobs :
              /\ Cardinality(CallsOn(j)) \in Nat /\ Cardinality(CallsOn(j)') \in Nat
              /\ Cardinality(CallsOn(j)') = Cardinality(CallsOn(j))
                    + One(HoldsJob(l, j)') - One(HoldsJob(l, j))
              /\ HoldsJob(l, j) => Cardinality(CallsOn(j)) > 0
           /\ \A f \in Frames :
              /\ Cardinality(Decoding(f)) \in Nat /\ Cardinality(Decoding(f)') \in Nat
              /\ Cardinality(Decoding(f)') = Cardinality(Decoding(f))
                    + One(HoldsFrame(l, f)') - One(HoldsFrame(l, f))
              /\ HoldsFrame(l, f) => Cardinality(Decoding(f)) > 0
<1>1. IsFiniteSet(Levels) /\ Levels' = Levels
  BY FiniteSources DEF Types, Levels, Depth
<1>2. ASSUME NEW j \in Jobs
      PROVE  /\ CallsOn(j) \subseteq Levels /\ CallsOn(j)' \subseteq Levels
             /\ \A m \in Levels : m # l => (m \in CallsOn(j) <=> m \in CallsOn(j)')
             /\ l \in CallsOn(j) <=> HoldsJob(l, j)
             /\ l \in CallsOn(j)' <=> HoldsJob(l, j)'
  BY <1>1 DEF CallsOn, HoldsJob
<1>3. ASSUME NEW f \in Frames
      PROVE  /\ Decoding(f) \subseteq Levels /\ Decoding(f)' \subseteq Levels
             /\ \A m \in Levels : m # l => (m \in Decoding(f) <=> m \in Decoding(f)')
             /\ l \in Decoding(f) <=> HoldsFrame(l, f)
             /\ l \in Decoding(f)' <=> HoldsFrame(l, f)'
  BY <1>1 DEF Decoding, HoldsFrame
<1>4. ASSUME NEW j \in Jobs
      PROVE  /\ Cardinality(CallsOn(j)) \in Nat /\ Cardinality(CallsOn(j)') \in Nat
             /\ Cardinality(CallsOn(j)') = Cardinality(CallsOn(j))
                   + One(HoldsJob(l, j)') - One(HoldsJob(l, j))
             /\ HoldsJob(l, j) => Cardinality(CallsOn(j)) > 0
  BY <1>1, <1>2, OneChanged DEF One
<1>5. ASSUME NEW f \in Frames
      PROVE  /\ Cardinality(Decoding(f)) \in Nat /\ Cardinality(Decoding(f)') \in Nat
             /\ Cardinality(Decoding(f)') = Cardinality(Decoding(f))
                   + One(HoldsFrame(l, f)') - One(HoldsFrame(l, f))
             /\ HoldsFrame(l, f) => Cardinality(Decoding(f)) > 0
  BY <1>1, <1>3, OneChanged DEF One
<1> QED BY <1>4, <1>5

LEMMA ThreadsChange ==
    ASSUME UNCHANGED source, NEW j \in Jobs,
           \A i \in Jobs \ {j} : ctl'[i].pc = ctl[i].pc /\ ctl'[i].frame = ctl[i].frame
    PROVE  /\ \A f \in Frames :
              /\ Cardinality(Publishing(f)) \in Nat /\ Cardinality(Publishing(f)') \in Nat
              /\ Cardinality(Publishing(f)') = Cardinality(Publishing(f))
                    + One(At(j, "publish")' /\ ctl'[j].frame = f)
                    - One(At(j, "publish") /\ ctl[j].frame = f)
              /\ At(j, "publish") /\ ctl[j].frame = f => Cardinality(Publishing(f)) > 0
           /\ Cardinality(Counted) \in Nat
           /\ Cardinality(Counted') = Cardinality(Counted)
                    + One(ctl'[j].pc \notin {"none", "drop"}) - One(ctl[j].pc \notin {"none", "drop"})
<1>1. IsFiniteSet(Jobs)
  BY WorkerAssumption
<1>2. ASSUME NEW f \in Frames
      PROVE  /\ Publishing(f) \subseteq Jobs /\ Publishing(f)' \subseteq Jobs
             /\ \A i \in Jobs : i # j => (i \in Publishing(f) <=> i \in Publishing(f)')
             /\ j \in Publishing(f) <=> At(j, "publish") /\ ctl[j].frame = f
             /\ j \in Publishing(f)' <=> At(j, "publish")' /\ ctl'[j].frame = f
  BY DEF Publishing, At
<1>3. /\ Counted \subseteq Jobs /\ Counted' \subseteq Jobs
      /\ \A i \in Jobs : i # j => (i \in Counted <=> i \in Counted')
      /\ j \in Counted <=> ctl[j].pc \notin {"none", "drop"}
      /\ j \in Counted' <=> ctl'[j].pc \notin {"none", "drop"}
  BY DEF Counted, At
<1>4. ASSUME NEW f \in Frames
      PROVE  /\ Cardinality(Publishing(f)) \in Nat /\ Cardinality(Publishing(f)') \in Nat
             /\ Cardinality(Publishing(f)') = Cardinality(Publishing(f))
                   + One(At(j, "publish")' /\ ctl'[j].frame = f)
                   - One(At(j, "publish") /\ ctl[j].frame = f)
             /\ At(j, "publish") /\ ctl[j].frame = f => Cardinality(Publishing(f)) > 0
  BY <1>1, <1>2, OneChanged DEF One
<1>5. /\ Cardinality(Counted) \in Nat
      /\ Cardinality(Counted') = Cardinality(Counted)
               + One(ctl'[j].pc \notin {"none", "drop"}) - One(ctl[j].pc \notin {"none", "drop"})
  BY <1>1, <1>3, OneChanged DEF One
<1> QED BY <1>4, <1>5

\* The holders after a step of the Lua thread.
LEMMA LuaHolders ==
    ASSUME Types, UNCHANGED source, NEW s \in Sessions, NEW l \in Levels,
           \A t \in Sessions \ {s} : sessions'[t].job = sessions[t].job,
           \A m \in Levels \ {l} : call'[m] = call[m],
           \A j \in Jobs : /\ At(j, "none")' <=> At(j, "none")
                           /\ At(j, "publish")' <=> At(j, "publish")
                           /\ ctl'[j].frame = ctl[j].frame
    PROVE  /\ JobHolders \in [Jobs -> Nat] /\ JobHolders' \in [Jobs -> Nat]
           /\ \A j \in Jobs :
                /\ JobHolders'[j] = JobHolders[j]
                     + One(sessions'[s].job = j) - One(sessions[s].job = j)
                     + One(HoldsJob(l, j)') - One(HoldsJob(l, j))
                /\ HoldsJob(l, j) \/ sessions[s].job = j => JobHolders[j] > 0
           /\ FrameHolders \in [Frames -> Nat] /\ FrameHolders' \in [Frames -> Nat]
           /\ \A f \in Frames :
                /\ FrameHolders'[f] = FrameHolders[f]
                     + One(HoldsFrame(l, f)') - One(HoldsFrame(l, f))
                /\ HoldsFrame(l, f) => FrameHolders[f] > 0
<1>1. ASSUME NEW j \in Jobs
      PROVE  /\ JobHolders[j] \in Nat /\ JobHolders'[j] \in Nat
             /\ JobHolders'[j] = JobHolders[j]
                  + One(sessions'[s].job = j) - One(sessions[s].job = j)
                  + One(HoldsJob(l, j)') - One(HoldsJob(l, j))
             /\ HoldsJob(l, j) \/ sessions[s].job = j => JobHolders[j] > 0
  <2>1. /\ Cardinality(SessionsOf(j)) \in Nat /\ Cardinality(SessionsOf(j)') \in Nat
        /\ Cardinality(SessionsOf(j)') = Cardinality(SessionsOf(j))
              + One(sessions'[s].job = j) - One(sessions[s].job = j)
        /\ sessions[s].job = j => Cardinality(SessionsOf(j)) > 0
    BY SessionsChange
  <2>2. /\ Cardinality(CallsOn(j)) \in Nat /\ Cardinality(CallsOn(j)') \in Nat
        /\ Cardinality(CallsOn(j)') = Cardinality(CallsOn(j))
              + One(HoldsJob(l, j)') - One(HoldsJob(l, j))
        /\ HoldsJob(l, j) => Cardinality(CallsOn(j)) > 0
    BY CallsChange
  <2>3. /\ JobHolders[j] = Cardinality(SessionsOf(j)) + Cardinality(CallsOn(j))
                           + (IF At(j, "none") THEN 0 ELSE 1)
        /\ JobHolders'[j] = Cardinality(SessionsOf(j)') + Cardinality(CallsOn(j)')
                           + (IF At(j, "none")' THEN 0 ELSE 1)
    BY DEF JobHolders
  <2> QED BY <2>1, <2>2, <2>3 DEF One
<1>2. ASSUME NEW f \in Frames
      PROVE  /\ FrameHolders[f] \in Nat /\ FrameHolders'[f] \in Nat
             /\ FrameHolders'[f] = FrameHolders[f]
                  + One(HoldsFrame(l, f)') - One(HoldsFrame(l, f))
             /\ HoldsFrame(l, f) => FrameHolders[f] > 0
  <2>1. /\ Cardinality(Decoding(f)) \in Nat /\ Cardinality(Decoding(f)') \in Nat
        /\ Cardinality(Decoding(f)') = Cardinality(Decoding(f))
              + One(HoldsFrame(l, f)') - One(HoldsFrame(l, f))
        /\ HoldsFrame(l, f) => Cardinality(Decoding(f)) > 0
    BY CallsChange
  <2>2. Publishing(f)' = Publishing(f) /\ Cardinality(Publishing(f)) \in Nat
    <3>1. Publishing(f)' = Publishing(f)
      BY DEF Publishing
    <3>2. IsFiniteSet(Jobs) /\ Publishing(f) \subseteq Jobs
      BY WorkerAssumption DEF Publishing
    <3> QED BY <3>1, <3>2, OneChanged
  <2>3. /\ FrameHolders[f] = Cardinality(Decoding(f)) + Cardinality(Publishing(f))
        /\ FrameHolders'[f] = Cardinality(Decoding(f)') + Cardinality(Publishing(f)')
    BY DEF FrameHolders
  <2> QED BY <2>1, <2>2, <2>3 DEF One
<1>3. /\ JobHolders = [j \in Jobs |-> JobHolders[j]] /\ JobHolders' = [j \in Jobs |-> JobHolders'[j]]
      /\ FrameHolders = [f \in Frames |-> FrameHolders[f]]
      /\ FrameHolders' = [f \in Frames |-> FrameHolders'[f]]
  BY DEF JobHolders, FrameHolders
<1> QED BY <1>1, <1>2, <1>3

\* The holders after a step of a controller.
LEMMA ControllerHolders ==
    ASSUME Types, UNCHANGED <<source, sessions, call>>, NEW j \in Jobs,
           \A i \in Jobs \ {j} : ctl'[i] = ctl[i]
    PROVE  /\ JobHolders \in [Jobs -> Nat] /\ JobHolders' \in [Jobs -> Nat]
           /\ \A i \in Jobs \ {j} : JobHolders'[i] = JobHolders[i]
           /\ JobHolders'[j] = JobHolders[j] + One(~At(j, "none")') - One(~At(j, "none"))
           /\ ~At(j, "none") => JobHolders[j] > 0
           /\ FrameHolders \in [Frames -> Nat] /\ FrameHolders' \in [Frames -> Nat]
           /\ \A f \in Frames :
                /\ FrameHolders'[f] = FrameHolders[f]
                     + One(At(j, "publish")' /\ ctl'[j].frame = f)
                     - One(At(j, "publish") /\ ctl[j].frame = f)
                /\ At(j, "publish") /\ ctl[j].frame = f => FrameHolders[f] > 0
<1>1. /\ IsFiniteSet(Sessions) /\ Sessions' = Sessions
      /\ IsFiniteSet(Levels) /\ Levels' = Levels
  BY FiniteSources DEF Types, Sessions, Levels, Depth
<1>2. ASSUME NEW i \in Jobs
      PROVE  /\ JobHolders[i] \in Nat /\ JobHolders'[i] \in Nat
             /\ JobHolders'[i] = JobHolders[i] + One(~At(i, "none")') - One(~At(i, "none"))
             /\ ~At(i, "none") => JobHolders[i] > 0
  <2>1. /\ SessionsOf(i)' = SessionsOf(i) /\ CallsOn(i)' = CallsOn(i)
        /\ SessionsOf(i) \subseteq Sessions /\ CallsOn(i) \subseteq Levels
    BY <1>1 DEF SessionsOf, CallsOn, HoldsJob
  <2>2. Cardinality(SessionsOf(i)) \in Nat /\ Cardinality(CallsOn(i)) \in Nat
    BY <1>1, <2>1, OneChanged
  <2>3. /\ JobHolders[i] = Cardinality(SessionsOf(i)) + Cardinality(CallsOn(i))
                           + (IF At(i, "none") THEN 0 ELSE 1)
        /\ JobHolders'[i] = Cardinality(SessionsOf(i)') + Cardinality(CallsOn(i)')
                           + (IF At(i, "none")' THEN 0 ELSE 1)
    BY DEF JobHolders
  <2> QED BY <2>1, <2>2, <2>3 DEF One
<1>3. ASSUME NEW f \in Frames
      PROVE  /\ FrameHolders[f] \in Nat /\ FrameHolders'[f] \in Nat
             /\ FrameHolders'[f] = FrameHolders[f]
                  + One(At(j, "publish")' /\ ctl'[j].frame = f)
                  - One(At(j, "publish") /\ ctl[j].frame = f)
             /\ At(j, "publish") /\ ctl[j].frame = f => FrameHolders[f] > 0
  <2>1. Decoding(f)' = Decoding(f) /\ Decoding(f) \subseteq Levels
    BY <1>1 DEF Decoding, HoldsFrame
  <2>2. Cardinality(Decoding(f)) \in Nat
    BY <1>1, <2>1, OneChanged
  <2>3. /\ Cardinality(Publishing(f)) \in Nat /\ Cardinality(Publishing(f)') \in Nat
        /\ Cardinality(Publishing(f)') = Cardinality(Publishing(f))
              + One(At(j, "publish")' /\ ctl'[j].frame = f)
              - One(At(j, "publish") /\ ctl[j].frame = f)
        /\ At(j, "publish") /\ ctl[j].frame = f => Cardinality(Publishing(f)) > 0
    BY ThreadsChange
  <2>4. /\ FrameHolders[f] = Cardinality(Decoding(f)) + Cardinality(Publishing(f))
        /\ FrameHolders'[f] = Cardinality(Decoding(f)') + Cardinality(Publishing(f)')
    BY DEF FrameHolders
  <2> QED BY <2>1, <2>2, <2>3, <2>4 DEF One
<1>4. \A i \in Jobs \ {j} : At(i, "none")' <=> At(i, "none")
  BY DEF At
<1>5. /\ JobHolders = [i \in Jobs |-> JobHolders[i]] /\ JobHolders' = [i \in Jobs |-> JobHolders'[i]]
      /\ FrameHolders = [f \in Frames |-> FrameHolders[f]]
      /\ FrameHolders' = [f \in Frames |-> FrameHolders'[f]]
  BY DEF JobHolders, FrameHolders
<1>6. \A i \in Jobs \ {j} : JobHolders'[i] = JobHolders[i]
  BY <1>2, <1>4 DEF One
<1> QED BY <1>2, <1>3, <1>5, <1>6

-----------------------------------------------------------------------------
(* What a step of one thread leaves alone.                                  *)

\* Level l is where the Lua thread acts.
Acting(l) == MayStart(l) \/ \E pc \in CallPCs \ {"none"} : Running(l, pc)

LEMMA OthersDecode ==
    ASSUME Types, Stack, NEW l \in Levels, Acting(l), NEW m \in Levels
    PROVE  /\ m > l => call[m].pc = "none"
           /\ m < l => call[m].pc = "decode"
<1>1. Depth \in Nat /\ l \in 1..Depth /\ m \in 1..Depth
  BY FiniteSources DEF Types, Levels
<1>2. \A a, b \in 1..Depth : a < b /\ call[b].pc # "none" => call[a].pc = "decode"
  BY DEF Stack, Levels
<1>3. CASE MayStart(l)
  <2>1. call[l].pc = "none" /\ (l > 1 => call[l-1].pc = "decode")
    BY <1>3 DEF MayStart
  <2>2. m > l => call[m].pc = "none"
    BY <1>1, <1>2, <2>1
  <2>3. m < l => call[m].pc = "decode"
    <3>1. m < l => m = l-1 \/ (m < l-1 /\ l-1 \in 1..Depth)
      BY <1>1
    <3> QED BY <1>1, <1>2, <2>1, <3>1
  <2> QED BY <2>2, <2>3
<1>4. CASE \E pc \in CallPCs \ {"none"} : Running(l, pc)
  <2>1. call[l].pc # "none" /\ (l < Depth => call[l+1].pc = "none")
    BY <1>4 DEF Running
  <2>2. m < l => call[m].pc = "decode"
    BY <1>1, <1>2, <2>1
  <2>3. m > l => call[m].pc = "none"
    <3>1. m > l => m = l+1 \/ (l+1 < m /\ l+1 \in 1..Depth)
      BY <1>1
    <3> QED BY <1>1, <1>2, <2>1, <3>1
  <2> QED BY <2>2, <2>3
<1> QED BY <1>3, <1>4 DEF Acting

\* The calls the others run are decoding, and need nothing of the sessions.
LEMMA CallsKept ==
    ASSUME Types, Stack, \A m \in Levels : CallOK(m), UNCHANGED source,
           NEW l \in Levels, Acting(l), \A m \in Levels \ {l} : call'[m] = call[m],
           CallOK(l)'
    PROVE  Stack' /\ \A m \in Levels : CallOK(m)'
<1>1. Levels' = Levels /\ Sessions' = Sessions /\ Levels \subseteq Int
  BY FiniteSources DEF Types, Levels, Sessions, Depth
<1>2. \A m \in Levels : (m > l => call[m].pc = "none") /\ (m < l => call[m].pc = "decode")
  BY OthersDecode
<1>3. Stack'
  <2> SUFFICES ASSUME NEW a \in Levels, NEW b \in Levels, a < b, call'[b].pc # "none"
               PROVE  call'[a].pc = "decode"
    BY <1>1 DEF Stack
  <2>1. b <= l
    BY <1>1, <1>2
  <2>2. a < l
    BY <1>1, <2>1
  <2> QED BY <1>1, <1>2, <2>2
<1>4. ASSUME NEW m \in Levels, m # l PROVE CallOK(m)'
  <2>1. call'[m] = call[m] /\ call[m].pc \in {"none", "decode"}
    BY <1>1, <1>2, <1>4
  <2>2. CallOK(m)
    OBVIOUS
  <2> QED BY <1>1, <2>1, <2>2 DEF CallOK, NoCall
<1> QED BY <1>3, <1>4

Woken(thread) == [thread EXCEPT !.pc = "check"]

\* A thread that stays where it is, or is woken, while somebody else runs.
LEMMA ThreadKept ==
    ASSUME Types, Types', UNCHANGED source, HeapOK(Heap, JobHolders, FrameHolders),
           HeapOK(Heap, JobHolders, FrameHolders)',
           NEW j \in Jobs, ThreadOK(j), child'[j] = child[j],
           \/ ctl'[j] = ctl[j]
           \/ ctl[j].pc = "blocked" /\ ctl'[j] = Woken(ctl[j]),
           jobs'[j].refs > 0 =>
               /\ jobs'[j].done = jobs[j].done
               /\ \/ ctl[j].pc \notin {"spawn", "configure", "exchange", "publish"}
                  \/ /\ jobs'[j].state = jobs[j].state
                     /\ jobs'[j].processes = jobs[j].processes
                     /\ jobs'[j].requested = jobs[j].requested,
           \A f \in Frames : frames[f].refs > 0 /\ frames'[f].refs > 0 =>
               /\ frames'[f].processes = frames[f].processes
               /\ frames'[f].started = frames[f].started
    PROVE  ThreadOK(j)'
<1>1. /\ jobs'[j].refs = JobHolders'[j] /\ jobs'[j].refs \in Nat
      /\ jobs'[j].refs = 0 => jobs'[j] = FreeJob
  BY DEF HeapOK, Heap, JobRecord
<1>2. /\ ctl[j] \in ThreadRecord
      /\ ctl'[j].frame = ctl[j].frame /\ ctl'[j].processes = ctl[j].processes
      /\ ctl'[j].pc = ctl[j].pc \/ (ctl[j].pc = "blocked" /\ ctl'[j].pc = "check")
  BY DEF Types, Woken
<1>3. CASE jobs'[j].refs = 0
  <2>1. ctl'[j].pc = "none"
    <3>1. JobHolders'[j] = Cardinality(SessionsOf(j)') + Cardinality(CallsOn(j)')
                             + (IF At(j, "none")' THEN 0 ELSE 1)
      BY DEF JobHolders
    <3>2. /\ IsFiniteSet(Sessions') /\ Sessions' = Sessions
          /\ IsFiniteSet(Levels') /\ Levels' = Levels
      BY FiniteSources DEF Types, Sessions, Levels, Depth
    <3>3. SessionsOf(j)' \subseteq Sessions' /\ CallsOn(j)' \subseteq Levels'
      BY DEF SessionsOf, CallsOn
    <3>4. Cardinality(SessionsOf(j)') \in Nat /\ Cardinality(CallsOn(j)') \in Nat
      BY <3>2, <3>3, FS_Subset, FS_CardinalityType
    <3>5. ~At(j, "none")' => JobHolders'[j] > 0
      BY <3>1, <3>4
    <3> QED BY <1>1, <1>3, <3>5 DEF At
  <2>2. ctl[j].pc = "none" /\ ctl[j].frame = None /\ child[j] = "none"
    BY <1>2, <2>1 DEF ThreadOK
  <2> QED BY <1>1, <1>2, <1>3, <2>1, <2>2 DEF ThreadOK, FreeJob
<1>4. CASE jobs'[j].refs # 0
  <2>1. ctl[j].pc = "publish" =>
            /\ ctl[j].frame \in Frames
            /\ frames'[ctl[j].frame].processes = frames[ctl[j].frame].processes
            /\ frames'[ctl[j].frame].started = frames[ctl[j].frame].started
    <3> SUFFICES ASSUME ctl[j].pc = "publish"
                 PROVE  /\ ctl[j].frame \in Frames
                        /\ frames[ctl[j].frame].refs > 0 /\ frames'[ctl[j].frame].refs > 0
      OBVIOUS
    <3>1. ctl[j].frame \in Frames
      BY <1>2 DEF ThreadOK
    <3>10. PICK f \in Frames : f = ctl[j].frame
      BY <3>1
    <3>2. j \in Publishing(f) /\ j \in Publishing(f)'
      BY <1>2, <3>10 DEF Publishing, At
    <3>3. IsFiniteSet(Levels) /\ IsFiniteSet(Levels') /\ IsFiniteSet(Jobs)
      BY FiniteSources DEF Types, Levels, Depth
    <3>4. /\ Decoding(f) \subseteq Levels /\ Decoding(f)' \subseteq Levels'
          /\ Publishing(f) \subseteq Jobs /\ Publishing(f)' \subseteq Jobs
      BY DEF Decoding, Publishing
    <3>5. /\ Cardinality(Decoding(f)) \in Nat /\ Cardinality(Decoding(f)') \in Nat
          /\ Cardinality(Publishing(f)) > 0 /\ Cardinality(Publishing(f)') > 0
          /\ Cardinality(Publishing(f)) \in Nat /\ Cardinality(Publishing(f)') \in Nat
      BY <3>2, <3>3, <3>4, OneChanged
    <3>6. FrameHolders[f] > 0 /\ FrameHolders'[f] > 0
      BY <3>5 DEF FrameHolders
    <3>7. Heap.frames[f].refs > 0
      BY <3>6, Held
    <3>8. Heap'.frames[f].refs > 0
      <4>1. HeapOK(Heap', JobHolders', FrameHolders')
        BY DEF HeapOK, CurrentReply, Storing
      <4> QED BY <3>6, <4>1, Held
    <3> QED BY <3>1, <3>10, <3>7, <3>8 DEF Heap
  <2>2. jobs'[j].done = jobs[j].done
    BY <1>1, <1>4
  <2>3. \/ ctl[j].pc \notin {"spawn", "configure", "exchange", "publish"}
        \/ /\ jobs'[j].state = jobs[j].state
           /\ jobs'[j].processes = jobs[j].processes
           /\ jobs'[j].requested = jobs[j].requested
    BY <1>1, <1>4
  <2> QED BY <1>2, <2>1, <2>2, <2>3 DEF ThreadOK
<1> QED BY <1>3, <1>4

\* What a step of the Lua thread may do to the rest.
LEMMA LuaKeeps ==
    ASSUME IInv, UNCHANGED <<source, controllers, child>>, NEW l \in Levels, Acting(l),
           \A m \in Levels \ {l} : call'[m] = call[m],
           Types', HeapOK(Heap, JobHolders, FrameHolders)', CallOK(l)', Owned',
           \A j \in Jobs : \/ ctl'[j] = ctl[j]
                           \/ ctl[j].pc = "blocked" /\ ctl'[j] = Woken(ctl[j]),
           \A j \in Jobs : jobs'[j].refs > 0 =>
               /\ jobs'[j].done = jobs[j].done
               /\ \/ /\ jobs'[j].state = jobs[j].state
                     /\ jobs'[j].processes = jobs[j].processes
                     /\ jobs'[j].requested = jobs[j].requested
                  \/ jobs[j].state # "QUERY" /\ ctl'[j].pc # "blocked"
               /\ \/ jobs'[j].cancelled = jobs[j].cancelled
                  \/ call'[l].pc = "signal" /\ call'[l].job = j,
           \A f \in Frames : frames'[f].refs > 0 =>
               /\ frames'[f].processes = frames[f].processes
               /\ frames'[f].started = frames[f].started,
           call[l].pc = "signal" => ctl'[call[l].job].pc # "blocked"
    PROVE  IInv'
<1> USE DEF IInv
<1>1. /\ Levels' = Levels /\ Sessions' = Sessions /\ Limit' = Limit /\ Levels \subseteq Int
  BY FiniteSources DEF Types, Levels, Sessions, Depth, Limit
<1>2. Stack' /\ \A m \in Levels : CallOK(m)'
  BY CallsKept
<1>3. ASSUME NEW j \in Jobs PROVE ThreadOK(j)'
  <2>1. ThreadOK(j) /\ child'[j] = child[j]
    OBVIOUS
  <2>2. jobs'[j].refs > 0 =>
               /\ jobs'[j].done = jobs[j].done
               /\ \/ ctl[j].pc \notin {"spawn", "configure", "exchange", "publish"}
                  \/ /\ jobs'[j].state = jobs[j].state
                     /\ jobs'[j].processes = jobs[j].processes
                     /\ jobs'[j].requested = jobs[j].requested
    BY <2>1 DEF ThreadOK
  <2> QED BY <2>1, <2>2, ThreadKept
<1>4. \A j \in Jobs : /\ ctl'[j].pc = ctl[j].pc \/ (ctl[j].pc = "blocked" /\ ctl'[j].pc = "check")
                      /\ ctl[j].pc \in CtlPCs
  BY DEF Types, Woken
<1>5. CountersOK'
  <2>1. Counted' = Counted
    BY <1>4 DEF Counted, At
  <2> QED BY <1>1, <2>1 DEF CountersOK
<1>6. NoLostWakeup'
  <2> SUFFICES ASSUME NEW j \in Jobs, ctl'[j].pc = "blocked"
               PROVE  /\ jobs'[j].state # "QUERY"
                      /\ jobs'[j].cancelled => \E m \in Levels : call'[m].pc = "signal" /\ call'[m].job = j
    BY <1>1 DEF NoLostWakeup, At
  <2>1. ctl[j].pc = "blocked"
    BY <1>4
  <2>2. /\ jobs[j].state # "QUERY"
        /\ jobs[j].cancelled => \E m \in Levels : call[m].pc = "signal" /\ call[m].job = j
    BY <2>1 DEF NoLostWakeup, At
  <2>3. jobs'[j].refs \in Nat /\ (jobs'[j].refs = 0 => jobs'[j] = FreeJob)
    BY DEF HeapOK, Heap, JobRecord
  <2>4. CASE jobs'[j].refs = 0
    BY <2>3, <2>4 DEF FreeJob
  <2>5. CASE jobs'[j].refs # 0
    <3>1. jobs'[j].state = jobs[j].state
      BY <2>3, <2>5
    <3>2. \/ jobs'[j].cancelled = jobs[j].cancelled
          \/ call'[l].pc = "signal" /\ call'[l].job = j
      BY <2>3, <2>5
    <3>3. ASSUME jobs[j].cancelled
          PROVE  \E m \in Levels : call'[m].pc = "signal" /\ call'[m].job = j
      <4>1. PICK m \in Levels : call[m].pc = "signal" /\ call[m].job = j
        BY <2>2, <3>3
      <4>2. m # l
        BY <4>1
      <4> QED BY <4>1, <4>2
    <3> QED BY <2>2, <3>1, <3>2, <3>3
  <2> QED BY <2>4, <2>5
<1> QED BY <1>1, <1>2, <1>3, <1>5, <1>6

\* What a step of controller j may do to the rest.
LEMMA ControllerKeeps ==
    ASSUME IInv, UNCHANGED <<source, sessions, call>>, NEW j \in Jobs,
           \A i \in Jobs \ {j} : ctl'[i] = ctl[i] /\ child'[i] = child[i],
           Types', HeapOK(Heap, JobHolders, FrameHolders)', ThreadOK(j)', CountersOK',
           \A i \in Jobs : i # j \/ ctl'[j].pc = "blocked" => jobs'[i] = jobs[i],
           \A f \in Frames : frames[f].refs > 0 /\ frames'[f].refs > 0 =>
               /\ frames'[f].processes = frames[f].processes
               /\ frames'[f].started = frames[f].started,
           ctl'[j].pc = "blocked" => \/ ctl[j].pc = "blocked"
                                     \/ jobs[j].state # "QUERY" /\ ~jobs[j].cancelled
    PROVE  IInv'
<1> USE DEF IInv
<1>1. /\ Levels' = Levels /\ Sessions' = Sessions
  BY DEF Levels, Sessions, Depth
<1>2. Stack' /\ (\A m \in Levels : CallOK(m)') /\ Owned'
  BY <1>1 DEF Stack, CallOK, Owned, NoCall
<1>3. ASSUME NEW i \in Jobs, i # j PROVE ThreadOK(i)'
  <2>1. ThreadOK(i) /\ child'[i] = child[i] /\ ctl'[i] = ctl[i] /\ jobs'[i] = jobs[i]
    BY <1>3
  <2> QED BY <2>1, ThreadKept
<1>4. NoLostWakeup'
  <2> SUFFICES ASSUME NEW i \in Jobs, ctl'[i].pc = "blocked"
               PROVE  /\ jobs'[i].state # "QUERY"
                      /\ jobs'[i].cancelled => \E m \in Levels : call[m].pc = "signal" /\ call[m].job = i
    BY <1>1 DEF NoLostWakeup, At
  <2>1. jobs'[i] = jobs[i]
    OBVIOUS
  <2>2. CASE ctl[i].pc = "blocked"
    BY <2>1, <2>2 DEF NoLostWakeup, At
  <2>3. CASE ctl[i].pc # "blocked"
    BY <2>1, <2>3
  <2> QED BY <2>2, <2>3
<1> QED BY <1>1, <1>2, <1>3, <1>4

\* Broadcast wakes the controller of one job at most.
LEMMA BroadcastWakes ==
    ASSUME Types, NEW i \in Jobs, ctl' = Broadcast(ctl, i) \/ ctl' = ctl
    PROVE  /\ ctl' \in [Jobs -> ThreadRecord]
           /\ \A j \in Jobs : \/ ctl'[j] = ctl[j]
                              \/ ctl[j].pc = "blocked" /\ ctl'[j] = Woken(ctl[j])
           /\ \A j \in Jobs : /\ At(j, "none")' <=> At(j, "none")
                              /\ At(j, "publish")' <=> At(j, "publish")
                              /\ ctl'[j].frame = ctl[j].frame
           /\ ctl' = Broadcast(ctl, i) => ctl'[i].pc # "blocked"
<1>1. CASE ctl' = ctl /\ ctl' # Broadcast(ctl, i)
  BY <1>1 DEF Types, At
<1>2. CASE ctl' = Broadcast(ctl, i) /\ ctl[i].pc # "blocked"
  BY <1>2 DEF Types, At, Broadcast
<1>3. CASE ctl' = Broadcast(ctl, i) /\ ctl[i].pc = "blocked"
  <2>1. ctl' = [ctl EXCEPT ![i] = Woken(ctl[i])]
    BY <1>3 DEF Broadcast, Woken, Types
  <2>2. /\ Woken(ctl[i]) \in ThreadRecord
        /\ Woken(ctl[i]).pc = "check" /\ Woken(ctl[i]).frame = ctl[i].frame
    BY <1>3 DEF Types, Woken, CtlPCs
  <2> QED BY <1>3, <2>1, <2>2 DEF Types, At
<1> QED BY <1>1, <1>2, <1>3

\* A heap that was stored, with the holders it was computed for.
LEMMA Stored ==
    ASSUME NEW k, NEW jr, NEW fr, HeapOK(k, jr, fr), Store(k),
           JobHolders' = jr, FrameHolders' = fr
    PROVE  HeapOK(Heap, JobHolders, FrameHolders)'
<1>1. Heap' = k
  BY DEF HeapOK, Heap, Store
<1>2. HeapOK(Heap', JobHolders', FrameHolders')
  BY <1>1
<1> QED BY <1>2 DEF HeapOK, CurrentReply, Storing

\* What is kept when only reference counts change.
LEMMA KeptData ==
    ASSUME NEW h \in [jobs : [Jobs -> JobRecord], frames : [Frames -> FrameRecord]],
           NEW k, Store(k), Kept(h, k)
    PROVE  /\ \A j \in Jobs : jobs'[j].refs > 0 =>
                 /\ jobs'[j].done = h.jobs[j].done /\ jobs'[j].cancelled = h.jobs[j].cancelled
                 /\ jobs'[j].state = h.jobs[j].state /\ jobs'[j].processes = h.jobs[j].processes
                 /\ jobs'[j].requested = h.jobs[j].requested
                 /\ jobs'[j].frame = h.jobs[j].frame
           /\ \A f \in Frames : frames'[f].refs > 0 =>
                 /\ frames'[f].processes = h.frames[f].processes
                 /\ frames'[f].started = h.frames[f].started
<1>1. /\ \A j \in Jobs : h.jobs[j] \in JobRecord
      /\ \A f \in Frames : h.frames[f] \in FrameRecord
  OBVIOUS
<1>2. /\ \A j \in Jobs : jobs'[j].refs > 0 => jobs'[j] = [h.jobs[j] EXCEPT !.refs = jobs'[j].refs]
      /\ \A f \in Frames : frames'[f].refs > 0 =>
             frames'[f] = [h.frames[f] EXCEPT !.refs = frames'[f].refs]
  BY DEF Kept, Store
<1>3. ASSUME NEW j \in Jobs, NEW n, jobs'[j] = [h.jobs[j] EXCEPT !.refs = n]
      PROVE  /\ jobs'[j].done = h.jobs[j].done /\ jobs'[j].cancelled = h.jobs[j].cancelled
             /\ jobs'[j].state = h.jobs[j].state /\ jobs'[j].processes = h.jobs[j].processes
             /\ jobs'[j].requested = h.jobs[j].requested
             /\ jobs'[j].frame = h.jobs[j].frame
  BY <1>1, <1>3 DEF JobRecord
<1>4. ASSUME NEW f \in Frames, NEW n, frames'[f] = [h.frames[f] EXCEPT !.refs = n]
      PROVE  frames'[f].processes = h.frames[f].processes /\ frames'[f].started = h.frames[f].started
  BY <1>1, <1>4 DEF FrameRecord
<1> QED BY <1>2, <1>3, <1>4

-----------------------------------------------------------------------------
(* The steps of the Lua thread.                                             *)

LEMMA OpenKeeps ==
    ASSUME IInv, UNCHANGED source, NEW s \in Sessions, Open(s)
    PROVE  IInv'
<1> USE DEF IInv
<1>1. PICK l \in Levels : MayStart(l)
  BY DEF Open
<1>2. /\ Levels' = Levels /\ Sessions' = Sessions /\ UNCHANGED <<jobs, frames, controllers, ctl, child, call>>
      /\ sessions[s] \in [closed : BOOLEAN, job : Jobs \cup {None}]
      /\ sessions' = [sessions EXCEPT ![s].closed = FALSE]
      /\ \A t \in Sessions : sessions'[t].job = sessions[t].job
  BY DEF Levels, Sessions, Depth, Open, Types
<1>3. Types'
  BY <1>2 DEF Types
<1>4. HeapOK(Heap, JobHolders, FrameHolders)'
  <2>1. \A j \in Jobs : HoldsJob(l, j)' <=> HoldsJob(l, j)
    BY <1>2 DEF HoldsJob
  <2>2. \A f \in Frames : HoldsFrame(l, f)' <=> HoldsFrame(l, f)
    BY <1>2 DEF HoldsFrame
  <2>3. JobHolders' = JobHolders /\ FrameHolders' = FrameHolders
    BY <1>2, <2>1, <2>2, LuaHolders DEF At, One
  <2>4. Store(Heap)
    BY <1>2 DEF Store, Heap
  <2> QED BY <2>3, <2>4, Stored
<1>5. CallOK(l)'
  BY <1>1, <1>2 DEF CallOK, MayStart, NoCall
<1>6. Owned'
  BY <1>2 DEF Owned
<1> QED BY <1>1, <1>2, <1>3, <1>4, <1>5, <1>6, LuaKeeps DEF Acting, MayStart

LEMMA QueryReuseKeeps ==
    ASSUME IInv, UNCHANGED source, NEW l \in Levels, NEW s \in Sessions, NEW p \in Policies,
           QueryReuse(l, s, p)
    PROVE  IInv'
<1> USE DEF IInv
<1>1. /\ Levels' = Levels /\ Sessions' = Sessions /\ Policies \subseteq Words
      /\ UNCHANGED <<sessions, jobs, frames, controllers, ctl, child>>
      /\ sessions[s].job \in Jobs
  BY FiniteSources DEF Levels, Sessions, Depth, QueryReuse, Types, NeedsJob
<1>2. /\ call' = [call EXCEPT ![l] = call'[l]]
      /\ call'[l] = [pc |-> "guard", session |-> s, job |-> sessions[s].job, frame |-> None,
                     processes |-> p]
      /\ call[l].pc = "none"
      /\ \A m \in Levels \ {l} : call'[m] = call[m]
  BY DEF QueryReuse, Begin, NoCall, Types, MayStart
<1>3. Types'
  BY <1>1, <1>2 DEF Types, CallPCs
<1>4. HeapOK(Heap, JobHolders, FrameHolders)'
  <2>1. \A j \in Jobs : HoldsJob(l, j)' <=> HoldsJob(l, j)
    BY <1>2 DEF HoldsJob
  <2>2. \A f \in Frames : HoldsFrame(l, f)' <=> HoldsFrame(l, f)
    BY <1>2 DEF HoldsFrame
  <2>3. JobHolders' = JobHolders /\ FrameHolders' = FrameHolders
    BY <1>1, <1>2, <2>1, <2>2, LuaHolders DEF At, One
  <2>4. Store(Heap)
    BY <1>1 DEF Store, Heap
  <2> QED BY <2>3, <2>4, Stored
<1>5. CallOK(l)'
  BY <1>1, <1>2 DEF CallOK
<1>6. Owned'
  BY <1>1 DEF Owned
<1>7. Acting(l)
  BY DEF QueryReuse, Acting
<1> QED BY <1>1, <1>2, <1>3, <1>4, <1>5, <1>6, <1>7, LuaKeeps DEF Types

LEMMA CloseSignalKeeps ==
    ASSUME IInv, UNCHANGED source, NEW l \in Levels, CloseSignal(l)
    PROVE  IInv'
<1> USE DEF IInv
<1>1. /\ Levels' = Levels /\ Sessions' = Sessions
      /\ UNCHANGED <<sessions, jobs, frames, controllers, child>>
      /\ call[l].pc = "signal" /\ call[l].session \in Sessions /\ call[l].job \in Jobs
      /\ ctl' = Broadcast(ctl, call[l].job)
  BY DEF Levels, Sessions, Depth, CloseSignal, Running, CallOK
<1>2. /\ \A m \in Levels \ {l} : call'[m] = call[m]
      /\ call'[l] = [call[l] EXCEPT !.pc = "closing"]
      /\ call[l] \in CallRecord
      /\ call' = [call EXCEPT ![l] = call'[l]]
  BY DEF CloseSignal, Goto, Types
<1>3. Types'
  BY <1>1, <1>2, BroadcastWakes DEF Types, CallPCs
<1>4. HeapOK(Heap, JobHolders, FrameHolders)'
  <2>1. \A j \in Jobs : HoldsJob(l, j)' <=> HoldsJob(l, j)
    BY <1>1, <1>2 DEF HoldsJob
  <2>2. \A f \in Frames : HoldsFrame(l, f)' <=> HoldsFrame(l, f)
    BY <1>1, <1>2 DEF HoldsFrame
  <2>3. JobHolders' = JobHolders /\ FrameHolders' = FrameHolders
    BY <1>1, <1>2, <2>1, <2>2, LuaHolders, BroadcastWakes DEF One
  <2>4. Store(Heap)
    BY <1>1 DEF Store, Heap
  <2> QED BY <2>3, <2>4, Stored
<1>5. CallOK(l)'
  BY <1>1, <1>2 DEF CallOK
<1>6. Owned'
  BY <1>1 DEF Owned
<1>7. Acting(l)
  BY DEF CloseSignal, Acting, CallPCs
<1> QED BY <1>1, <1>2, <1>3, <1>4, <1>5, <1>6, <1>7, LuaKeeps, BroadcastWakes

\* A session gives up its job: a call that ends a close, or one that found an
\* expired job.
LEMMA SessionReleases ==
    ASSUME IInv, UNCHANGED <<source, controllers, ctl, child>>, NEW l \in Levels, NEW s \in Sessions,
           Acting(l), call' = call \/ call' = [call EXCEPT ![l] = NoCall],
           call[l].pc \in {"none", "closing"},
           sessions[s].job \in Jobs, sessions' = [sessions EXCEPT ![s].job = None],
           call'[l].pc = "none",
           Store(ReleaseJob(Heap, sessions[s].job))
    PROVE  IInv'
<1> USE DEF IInv
<1> DEFINE j == sessions[s].job
<1>1. /\ Levels' = Levels /\ Sessions' = Sessions
      /\ None \notin Jobs /\ NoCall \in CallRecord
  BY WorkerAssumption DEF Levels, Sessions, Depth, NoCall, CallPCs, Words
<1>2. /\ sessions'[s] = [sessions[s] EXCEPT !.job = None]
      /\ \A t \in Sessions \ {s} : sessions'[t] = sessions[t]
      /\ sessions' \in [Sessions -> [closed : BOOLEAN, job : Jobs \cup {None}]]
      /\ sessions'[s].job = None
  BY DEF Types
<1>3. /\ \A m \in Levels \ {l} : call'[m] = call[m]
      /\ call'[l] = NoCall
  BY DEF Types, CallOK
<1>4. Types'
  BY <1>1, <1>2 DEF Types
<1>5. /\ JobHolders' = [JobHolders EXCEPT ![j] = @ - 1] /\ JobHolders[j] > 0
      /\ FrameHolders' = FrameHolders
  <2>1. \A i \in Jobs : ~HoldsJob(l, i)' /\ ~HoldsJob(l, i)
    BY <1>3 DEF HoldsJob, NoCall
  <2>2. \A f \in Frames : ~HoldsFrame(l, f)' /\ ~HoldsFrame(l, f)
    BY <1>3 DEF HoldsFrame, NoCall
  <2> QED BY <1>1, <1>2, <1>3, <2>1, <2>2, LuaHolders DEF At, One
<1>6. HeapOK(ReleaseJob(Heap, j), [JobHolders EXCEPT ![j] = @ - 1], FrameHolders)
      /\ Kept(Heap, ReleaseJob(Heap, j))
  BY <1>5, JobReleased
<1>7. HeapOK(Heap, JobHolders, FrameHolders)'
  BY <1>5, <1>6, Stored
<1>8. CallOK(l)'
  BY <1>3 DEF CallOK, NoCall
<1>9. Owned'
  BY <1>1, <1>2 DEF Owned
<1>10. /\ \A i \in Jobs : jobs'[i].refs > 0 =>
             /\ jobs'[i].done = jobs[i].done /\ jobs'[i].cancelled = jobs[i].cancelled
             /\ jobs'[i].state = jobs[i].state /\ jobs'[i].processes = jobs[i].processes
             /\ jobs'[i].requested = jobs[i].requested
       /\ \A f \in Frames : frames'[f].refs > 0 =>
             /\ frames'[f].processes = frames[f].processes
             /\ frames'[f].started = frames[f].started
  BY <1>6, KeptData DEF HeapOK, Heap
<1> QED BY <1>3, <1>4, <1>7, <1>8, <1>9, <1>10, LuaKeeps

LEMMA StutterKeeps ==
    ASSUME IInv, UNCHANGED vars
    PROVE  IInv'
<1> USE DEF IInv, vars, moving
<1>1. Types' /\ Levels' = Levels /\ Sessions' = Sessions /\ Limit' = Limit
  BY DEF Types, Levels, Sessions, Depth, Limit
<1>2. HeapOK(Heap, JobHolders, FrameHolders)'
  <2>1. JobHolders' = JobHolders /\ FrameHolders' = FrameHolders
    BY <1>1 DEF JobHolders, FrameHolders, SessionsOf, CallsOn, Decoding, Publishing,
                HoldsJob, HoldsFrame, At
  <2>2. Store(Heap)
    BY DEF Store, Heap
  <2> QED BY <2>1, <2>2, Stored
<1>3. (\A l \in Levels : CallOK(l)') /\ Stack' /\ Owned'
  BY <1>1 DEF CallOK, Stack, Owned
<1>4. \A j \in Jobs : ThreadOK(j)'
  BY DEF ThreadOK
<1>5. CountersOK'
  BY <1>1 DEF CountersOK, Counted, At
<1>6. NoLostWakeup'
  BY <1>1 DEF NoLostWakeup, At
<1> QED BY <1>1, <1>2, <1>3, <1>4, <1>5, <1>6

LEMMA CloseFinishKeeps ==
    ASSUME IInv, UNCHANGED source, NEW l \in Levels, CloseFinish(l)
    PROVE  IInv'
<1>1. call[l].pc = "closing" /\ CallOK(l) /\ call \in [Levels -> CallRecord]
  BY DEF CloseFinish, Running, IInv, Types
<1>2. PICK s \in Sessions : s = call[l].session
  BY <1>1 DEF CallOK
<1>3. sessions[s].job = call[l].job /\ sessions[s].job \in Jobs
  BY <1>1, <1>2 DEF CallOK
<1>4. Acting(l)
  BY DEF CloseFinish, Acting, CallPCs
<1>5. call' = [call EXCEPT ![l] = NoCall] /\ call'[l].pc = "none"
  BY <1>1 DEF CloseFinish, Return, NoCall
<1> QED BY <1>1, <1>2, <1>3, <1>4, <1>5, SessionReleases DEF CloseFinish

LEMMA QueryRefusedKeeps ==
    ASSUME IInv, UNCHANGED source, NEW l \in Levels, NEW s \in Sessions, QueryRefused(l, s)
    PROVE  IInv'
<1>1. /\ MayStart(l) /\ call[l].pc = "none" /\ Store(AfterExpiry(s))
      /\ sessions' = [sessions EXCEPT ![s].job = None]
      /\ UNCHANGED <<controllers, ctl, child, call>>
      /\ sessions \in [Sessions -> [closed : BOOLEAN, job : Jobs \cup {None}]]
  BY DEF QueryRefused, MayStart, IInv, Types
<1>2. CASE sessions[s].job = None
  <2>1. sessions' = sessions
    BY <1>1, <1>2
  <2>2. jobs' = jobs /\ frames' = frames
    BY <1>1, <1>2 DEF AfterExpiry, Store, Heap
  <2> QED BY <1>1, <2>1, <2>2, StutterKeeps DEF vars, moving
<1>3. CASE sessions[s].job # None
  <2>1. sessions[s].job \in Jobs
    BY <1>1, <1>3
  <2>2. Store(ReleaseJob(Heap, sessions[s].job))
    BY <1>1, <1>3 DEF AfterExpiry
  <2> QED BY <1>1, <2>1, <2>2, SessionReleases DEF Acting
<1> QED BY <1>2, <1>3

LEMMA CloseMarkKeeps ==
    ASSUME IInv, UNCHANGED source, NEW l \in Levels, NEW s \in Sessions, CloseMark(l, s)
    PROVE  IInv'
<1> USE DEF IInv
<1>1. /\ Levels' = Levels /\ Sessions' = Sessions /\ None \notin Jobs
      /\ UNCHANGED <<frames, controllers, ctl, child>>
      /\ MayStart(l) /\ call[l].pc = "none"
      /\ sessions[s] \in [closed : BOOLEAN, job : Jobs \cup {None}]
      /\ sessions' = [sessions EXCEPT ![s].closed = TRUE]
      /\ \A t \in Sessions : sessions'[t].job = sessions[t].job
      /\ sessions'[s].closed
  BY WorkerAssumption DEF Levels, Sessions, Depth, CloseMark, Types, MayStart
<1>2. /\ sessions' \in [Sessions -> [closed : BOOLEAN, job : Jobs \cup {None}]]
      /\ Owned' /\ Acting(l)
  <2>1. sessions' \in [Sessions -> [closed : BOOLEAN, job : Jobs \cup {None}]]
    BY <1>1 DEF Types
  <2>2. Owned'
    BY <1>1 DEF Owned
  <2> QED BY <1>1, <2>1, <2>2 DEF Acting
<1>3. CASE sessions[s].job = None
  <2>1. UNCHANGED <<jobs, call>>
    BY <1>3 DEF CloseMark
  <2>2. Types'
    BY <1>1, <1>2, <2>1 DEF Types
  <2>3. CallOK(l)'
    BY <1>1, <2>1 DEF CallOK, NoCall
  <2>4. HeapOK(Heap, JobHolders, FrameHolders)'
    <3>1. \A j \in Jobs : HoldsJob(l, j)' <=> HoldsJob(l, j)
      BY <2>1 DEF HoldsJob
    <3>2. \A f \in Frames : HoldsFrame(l, f)' <=> HoldsFrame(l, f)
      BY <2>1 DEF HoldsFrame
    <3>3. JobHolders' = JobHolders /\ FrameHolders' = FrameHolders
      BY <1>1, <2>1, <3>1, <3>2, LuaHolders DEF At, One
    <3>4. Store(Heap)
      BY <1>1, <2>1 DEF Store, Heap
    <3> QED BY <3>3, <3>4, Stored
  <2> QED BY <1>1, <1>2, <2>1, <2>2, <2>3, <2>4, LuaKeeps
<1>4. CASE sessions[s].job # None
  <2>1. PICK j \in Jobs : j = sessions[s].job
    BY <1>1, <1>4
  <2> DEFINE x == [jobs[j] EXCEPT !.cancelled = TRUE]
  <2>2. /\ jobs' = [jobs EXCEPT ![j] = x] /\ jobs[j] \in JobRecord
        /\ Heap.jobs[j] = jobs[j] /\ jobs \in [Jobs -> JobRecord] /\ CurrentReply(Heap, j)
        /\ Heap.jobs = jobs /\ Heap.frames = frames
        /\ jobs[j].refs \in Nat
    BY <1>4, <2>1 DEF CloseMark, HeapOK, Heap, JobRecord
  <2>3. /\ call' = [call EXCEPT ![l] = call'[l]]
        /\ \A m \in Levels \ {l} : call'[m] = call[m]
        /\ call'[l] = [pc |-> "signal", session |-> s, job |-> j, frame |-> None,
                       processes |-> None]
    BY <1>4, <2>1 DEF CloseMark, NoCall, Types
  <2>4. Types'
    <3>1. call'[l] \in CallRecord
      BY <2>3 DEF CallPCs, Words
    <3>2. call' \in [Levels -> CallRecord]
      BY <2>3, <3>1 DEF Types
    <3> QED BY <1>1, <1>2, <3>2 DEF Types
  <2>5. CallOK(l)'
    BY <1>1, <2>1, <2>3 DEF CallOK
  <2>6. /\ JobHolders' = JobHolders /\ FrameHolders' = FrameHolders
        /\ JobHolders[j] > 0
    <3>1. \A i \in Jobs : ~HoldsJob(l, i)' /\ ~HoldsJob(l, i)
      BY <1>1, <2>3 DEF HoldsJob
    <3>2. \A f \in Frames : ~HoldsFrame(l, f)' /\ ~HoldsFrame(l, f)
      BY <1>1, <2>3 DEF HoldsFrame
    <3> QED BY <1>1, <2>1, <2>3, <3>1, <3>2, LuaHolders DEF At, One
  <2>7. /\ x \in JobRecord /\ x.refs = jobs[j].refs /\ x.refs > 0 /\ x.cancelled
        /\ x.state = jobs[j].state /\ x.frame = jobs[j].frame /\ x.done = jobs[j].done
        /\ x.processes = jobs[j].processes /\ x.requested = jobs[j].requested
    BY <2>2, <2>6 DEF JobRecord, HeapOK, Heap
  <2> HIDE DEF x
  <2>8. HeapOK(Heap, JobHolders, FrameHolders)'
    <3>1. CurrentReply(WithJob(Heap, j, x), j)
      BY <2>2, <2>7 DEF WithJob, CurrentReply
    <3>2. HeapOK(WithJob(Heap, j, x), [JobHolders EXCEPT ![j] = x.refs],
                 Passed(FrameHolders, jobs[j].frame, x.frame))
      BY <2>2, <2>7, <3>1, SetJob
    <3>3. Passed(FrameHolders, jobs[j].frame, x.frame) = FrameHolders
      BY <2>7, PassedType DEF HeapOK
    <3>4. [JobHolders EXCEPT ![j] = x.refs] = JobHolders
      BY <2>2, <2>7 DEF HeapOK
    <3>5. Store(WithJob(Heap, j, x))
      BY <1>1, <2>2 DEF WithJob, Store, Heap
    <3> QED BY <2>6, <3>2, <3>3, <3>4, <3>5, Stored
  <2>9. /\ \A i \in Jobs \ {j} : jobs'[i] = jobs[i]
        /\ jobs'[j] = x
    BY <2>2
  <2> QED BY <1>1, <1>2, <2>3, <2>4, <2>5, <2>7, <2>8, <2>9, LuaKeeps
<1> QED BY <1>3, <1>4

LEMMA RunningFacts ==
    ASSUME IInv, NEW l \in Levels, NEW pc \in CallPCs \ {"none"}, Running(l, pc)
    PROVE  /\ Acting(l) /\ call[l].pc = pc
           /\ call[l].session \in Sessions /\ call[l].job \in Jobs /\ call[l].processes \in Words
           /\ pc = "decode" => call[l].frame \in Frames
           /\ pc # "decode" => call[l].frame = None
           /\ None \notin Jobs /\ None \notin Frames
<1>1. call[l] \in CallRecord
  BY DEF IInv, Types
<1>2. call[l].pc = pc /\ CallOK(l)
  BY DEF Running, IInv
<1> QED BY <1>1, <1>2, WorkerAssumption DEF Acting, CallOK

\* What a call that returns gives up.
LEMMA Returned ==
    ASSUME IInv, UNCHANGED <<source, sessions, child>>, NEW l \in Levels,
           NEW pc \in {"look", "decode"}, Running(l, pc), Return(l),
           NEW j \in Jobs, call[l].job = j, ctl' = Broadcast(ctl, j) \/ ctl' = ctl
    PROVE  /\ Types' /\ Owned' /\ CallOK(l)' /\ Acting(l)
           /\ call'[l].pc = "none" /\ \A m \in Levels \ {l} : call'[m] = call[m]
           /\ JobHolders' = [JobHolders EXCEPT ![j] = @ - 1] /\ JobHolders[j] > 0
           /\ pc = "look" => FrameHolders' = FrameHolders
           /\ pc = "decode" => /\ FrameHolders[call[l].frame] > 0
                               /\ FrameHolders' = [FrameHolders EXCEPT ![call[l].frame] = @ - 1]
           /\ \A i \in Jobs : \/ ctl'[i] = ctl[i]
                              \/ ctl[i].pc = "blocked" /\ ctl'[i] = Woken(ctl[i])
           /\ ctl' = Broadcast(ctl, j) => ctl'[j].pc # "blocked"
<1> USE DEF IInv
<1>1. /\ Levels' = Levels /\ Sessions' = Sessions /\ None \notin Jobs
      /\ NoCall \in CallRecord
  BY WorkerAssumption DEF Levels, Sessions, Depth, NoCall, CallPCs, Words
<1>2. /\ Acting(l) /\ call[l].pc = pc /\ call[l].session \in Sessions
      /\ pc = "decode" => call[l].frame \in Frames
      /\ pc # "decode" => call[l].frame = None
  BY RunningFacts DEF CallPCs
<1>3. /\ call' = [call EXCEPT ![l] = NoCall] /\ call'[l] = NoCall
      /\ \A m \in Levels \ {l} : call'[m] = call[m]
  BY DEF Return, Types
<1>4. Types'
  BY <1>1, <1>3, BroadcastWakes DEF Types
<1>5. Owned' /\ CallOK(l)' /\ call'[l].pc = "none"
  BY <1>1, <1>3 DEF Owned, CallOK, NoCall
<1>6. /\ JobHolders \in [Jobs -> Nat] /\ JobHolders' \in [Jobs -> Nat]
      /\ \A i \in Jobs :
           /\ JobHolders'[i] = JobHolders[i] + One(HoldsJob(l, i)') - One(HoldsJob(l, i))
           /\ HoldsJob(l, i) => JobHolders[i] > 0
      /\ FrameHolders \in [Frames -> Nat] /\ FrameHolders' \in [Frames -> Nat]
      /\ \A f \in Frames :
           /\ FrameHolders'[f] = FrameHolders[f]
                + One(HoldsFrame(l, f)') - One(HoldsFrame(l, f))
           /\ HoldsFrame(l, f) => FrameHolders[f] > 0
  BY <1>1, <1>2, <1>3, LuaHolders, BroadcastWakes DEF One
<1>7. \A i \in Jobs : ~HoldsJob(l, i)' /\ (HoldsJob(l, i) <=> i = j)
  BY <1>2, <1>3 DEF HoldsJob, NoCall
<1>8. \A f \in Frames : ~HoldsFrame(l, f)' /\ (HoldsFrame(l, f) <=> call[l].frame = f /\ pc = "decode")
  BY <1>2, <1>3 DEF HoldsFrame, NoCall
<1>9. JobHolders' = [JobHolders EXCEPT ![j] = @ - 1] /\ JobHolders[j] > 0
  BY <1>6, <1>7 DEF One
<1>10. /\ pc = "look" => FrameHolders' = FrameHolders
       /\ pc = "decode" => /\ FrameHolders[call[l].frame] > 0
                           /\ FrameHolders' = [FrameHolders EXCEPT ![call[l].frame] = @ - 1]
  BY <1>2, <1>6, <1>8 DEF One
<1> QED BY <1>2, <1>3, <1>4, <1>5, <1>9, <1>10, BroadcastWakes

LEMMA QueryNothingKeeps ==
    ASSUME IInv, UNCHANGED source, NEW l \in Levels, QueryNothing(l)
    PROVE  IInv'
<1>1. PICK j \in Jobs : j = call[l].job
  BY RunningFacts DEF QueryNothing, CallPCs
<1>2. /\ Running(l, "look") /\ Return(l) /\ Store(ReleaseJob(Heap, j))
      /\ UNCHANGED <<sessions, controllers, ctl, child>>
  BY <1>1 DEF QueryNothing
<1>3. /\ Types' /\ Owned' /\ CallOK(l)' /\ Acting(l)
      /\ call'[l].pc = "none" /\ \A m \in Levels \ {l} : call'[m] = call[m]
      /\ JobHolders' = [JobHolders EXCEPT ![j] = @ - 1] /\ JobHolders[j] > 0
      /\ FrameHolders' = FrameHolders
  BY <1>1, <1>2, Returned
<1>4. /\ HeapOK(ReleaseJob(Heap, j), JobHolders', FrameHolders')
      /\ Kept(Heap, ReleaseJob(Heap, j))
  BY <1>3, JobReleased DEF IInv
<1>5. HeapOK(Heap, JobHolders, FrameHolders)'
  BY <1>2, <1>4, Stored
<1>6. /\ \A i \in Jobs : jobs'[i].refs > 0 =>
             /\ jobs'[i].done = jobs[i].done /\ jobs'[i].cancelled = jobs[i].cancelled
             /\ jobs'[i].state = jobs[i].state /\ jobs'[i].processes = jobs[i].processes
             /\ jobs'[i].requested = jobs[i].requested
      /\ \A f \in Frames : frames'[f].refs > 0 =>
             /\ frames'[f].processes = frames[f].processes
             /\ frames'[f].started = frames[f].started
  BY <1>2, <1>4, KeptData DEF IInv, HeapOK, Heap
<1>7. call[l].pc = "look"
  BY <1>2 DEF Running
<1>8. \A i \in Jobs : ctl'[i] = ctl[i]
  BY <1>2
<1> QED BY <1>2, <1>3, <1>5, <1>6, <1>7, <1>8, LuaKeeps

\* A decoded frame's reference and the guard's reference to the job go.
LEMMA GuardDropped ==
    ASSUME NEW h, NEW jr, NEW fr, HeapOK(h, jr, fr), NEW l \in Levels,
           NEW j \in Jobs, NEW f \in Frames, call[l].job = j, call[l].frame = f,
           jr[j] > 0, fr[f] > 0
    PROVE  /\ HeapOK(DropGuard(h, l), [jr EXCEPT ![j] = @ - 1], [fr EXCEPT ![f] = @ - 1])
           /\ Kept(h, DropGuard(h, l))
<1>1. /\ HeapOK(ReleaseFrame(h, f), jr, [fr EXCEPT ![f] = @ - 1])
      /\ Kept(h, ReleaseFrame(h, f))
  BY FrameReleased
<1>2. /\ HeapOK(ReleaseJob(ReleaseFrame(h, f), j), [jr EXCEPT ![j] = @ - 1],
                [fr EXCEPT ![f] = @ - 1])
      /\ Kept(ReleaseFrame(h, f), ReleaseJob(ReleaseFrame(h, f), j))
  BY <1>1, JobReleased
<1>3. h \in [jobs : [Jobs -> JobRecord], frames : [Frames -> FrameRecord]]
  BY DEF HeapOK
<1> QED BY <1>1, <1>2, <1>3, KeptTwice DEF DropGuard

LEMMA QueryAbortKeeps ==
    ASSUME IInv, UNCHANGED source, NEW l \in Levels, QueryAbort(l)
    PROVE  IInv'
<1>1. PICK j \in Jobs, f \in Frames : j = call[l].job /\ f = call[l].frame
  BY RunningFacts DEF QueryAbort, CallPCs
<1>2. /\ Running(l, "decode") /\ Return(l) /\ Store(DropGuard(Heap, l))
      /\ UNCHANGED <<sessions, controllers, ctl, child>>
  BY DEF QueryAbort
<1>3. /\ Types' /\ Owned' /\ CallOK(l)' /\ Acting(l)
      /\ call'[l].pc = "none" /\ \A m \in Levels \ {l} : call'[m] = call[m]
      /\ JobHolders' = [JobHolders EXCEPT ![j] = @ - 1] /\ JobHolders[j] > 0
      /\ FrameHolders[f] > 0 /\ FrameHolders' = [FrameHolders EXCEPT ![f] = @ - 1]
  BY <1>1, <1>2, Returned
<1>4. HeapOK(DropGuard(Heap, l), JobHolders', FrameHolders') /\ Kept(Heap, DropGuard(Heap, l))
  BY <1>1, <1>3, GuardDropped DEF IInv
<1>5. HeapOK(Heap, JobHolders, FrameHolders)'
  BY <1>2, <1>4, Stored
<1>6. /\ \A i \in Jobs : jobs'[i].refs > 0 =>
             /\ jobs'[i].done = jobs[i].done /\ jobs'[i].cancelled = jobs[i].cancelled
             /\ jobs'[i].state = jobs[i].state /\ jobs'[i].processes = jobs[i].processes
             /\ jobs'[i].requested = jobs[i].requested
      /\ \A g \in Frames : frames'[g].refs > 0 =>
             /\ frames'[g].processes = frames[g].processes
             /\ frames'[g].started = frames[g].started
  BY <1>2, <1>4, KeptData DEF IInv, HeapOK, Heap
<1>7. call[l].pc = "decode"
  BY <1>2 DEF Running
<1>8. \A i \in Jobs : ctl'[i] = ctl[i]
  BY <1>2
<1> QED BY <1>2, <1>3, <1>5, <1>6, <1>7, <1>8, LuaKeeps

\* A call moves on from one place to another, with its reply or without.
LEMMA QueryTakeKeeps ==
    ASSUME IInv, UNCHANGED source, NEW l \in Levels, QueryTake(l)
    PROVE  IInv'
<1> USE DEF IInv
<1>1. PICK j \in Jobs : j = call[l].job
  BY RunningFacts DEF QueryTake, CallPCs
<1>2. /\ Levels' = Levels /\ Sessions' = Sessions
      /\ Running(l, "look") /\ Acting(l) /\ call[l].pc = "look"
      /\ UNCHANGED <<sessions, jobs, controllers, ctl, child>>
      /\ call[l].session \in Sessions /\ call[l].frame = None /\ None \notin Frames
  BY RunningFacts DEF Levels, Sessions, Depth, QueryTake, CallPCs
<1>3. PICK f \in Frames : f = jobs[j].frame
  <2>1. jobs[j].state = "READY" /\ jobs[j].frame \in Frames \cup {None}
    BY <1>1 DEF QueryTake, HeapOK, Heap, JobRecord
  <2>2. CurrentReply(Heap, j)
    BY DEF HeapOK
  <2> QED BY <2>1, <2>2 DEF CurrentReply, Heap
<1>4. /\ frames' = [frames EXCEPT ![f] = frames'[f]] /\ frames'[f] = [frames[f] EXCEPT !.refs = @ + 1]
      /\ frames[f] \in FrameRecord /\ frames \in [Frames -> FrameRecord]
      /\ Heap.frames = frames /\ Heap.jobs = jobs
  BY <1>1, <1>3 DEF QueryTake, HeapOK, Heap
<1>5. /\ call' = [call EXCEPT ![l] = call'[l]]
      /\ call'[l] = [call[l] EXCEPT !.pc = "decode", !.frame = f]
      /\ \A m \in Levels \ {l} : call'[m] = call[m]
      /\ call[l] \in CallRecord
  BY <1>1, <1>3 DEF QueryTake, Types
<1>6. Types'
  <2>1. call'[l] \in CallRecord
    BY <1>5 DEF CallPCs
  <2>2. call' \in [Levels -> CallRecord]
    BY <1>5, <2>1 DEF Types
  <2> QED BY <1>2, <2>2 DEF Types
<1>7. CallOK(l)' /\ Owned'
  BY <1>2, <1>1, <1>5 DEF CallOK, Owned
<1>8. /\ JobHolders' = JobHolders /\ FrameHolders' \in [Frames -> Nat]
      /\ FrameHolders'[f] = FrameHolders[f] + 1
      /\ \A g \in Frames : g # f => FrameHolders'[g] = FrameHolders[g]
  <2>1. \A i \in Jobs : HoldsJob(l, i)' <=> HoldsJob(l, i)
    BY <1>2, <1>5 DEF HoldsJob
  <2>2. \A g \in Frames : ~HoldsFrame(l, g) /\ (HoldsFrame(l, g)' <=> g = f)
    BY <1>2, <1>5 DEF HoldsFrame
  <2> QED BY <1>2, <1>5, <2>1, <2>2, LuaHolders DEF At, One
<1>9. HeapOK(Heap, JobHolders, FrameHolders)'
  <2> DEFINE x == [frames[f] EXCEPT !.refs = @ + 1]
             k == [Heap EXCEPT !.frames = [Heap.frames EXCEPT ![f] = x]]
  <2>1. /\ x \in FrameRecord /\ x.refs = frames[f].refs + 1
        /\ x.processes = frames[f].processes /\ x.started = frames[f].started
    BY <1>4 DEF FrameRecord
  <2>2. x.refs = Cardinality(Storing(Heap, f)) + FrameHolders'[f]
    BY <1>4, <1>8, <2>1, Held DEF HeapOK, FrameRecord
  <2>3. Store(k)
    BY <1>2, <1>4 DEF Store, Heap
  <2>4. HeapOK(k, JobHolders, FrameHolders')
    <3>1. x.processes = Heap.frames[f].processes /\ x.started = Heap.frames[f].started
      BY <1>4, <2>1
    <3>2. HeapOK(Heap, JobHolders, FrameHolders)
      OBVIOUS
    <3> HIDE DEF x, IInv
    <3> QED BY <1>8, <2>1, <2>2, <3>1, <3>2, SetFrame
  <2> HIDE DEF k
  <2> QED BY <1>8, <2>3, <2>4, Stored
<1>10. \A g \in Frames : /\ frames'[g].processes = frames[g].processes
                         /\ frames'[g].started = frames[g].started
  BY <1>4 DEF FrameRecord
<1>11. \A i \in Jobs : ctl'[i] = ctl[i] /\ jobs'[i] = jobs[i]
  BY <1>2
<1> QED BY <1>2, <1>5, <1>6, <1>7, <1>9, <1>10, <1>11, LuaKeeps

\* The job's record after the guard's reference, and after asking again.
LEMMA Asked ==
    ASSUME NEW job \in JobRecord, NEW p \in Words
    PROVE  LET x == Requested(job, p) IN
           /\ x \in JobRecord /\ x.refs = job.refs /\ x.state = "QUERY" /\ x.frame = None
           /\ x.done = job.done /\ x.cancelled = job.cancelled
BY DEF Requested, JobRecord

LEMMA QueryGuardKeeps ==
    ASSUME IInv, UNCHANGED source, NEW l \in Levels, QueryGuard(l)
    PROVE  IInv'
<1> USE DEF IInv
<1>1. PICK j \in Jobs : j = call[l].job
  BY RunningFacts DEF QueryGuard, CallPCs
<1>2. /\ Levels' = Levels /\ Sessions' = Sessions
      /\ Running(l, "guard") /\ Acting(l) /\ call[l].pc = "guard"
      /\ UNCHANGED <<sessions, frames, controllers, child>>
      /\ call[l].session \in Sessions /\ call[l].processes \in Words
      /\ call[l].frame = None /\ None \notin Jobs /\ None \notin Frames
      /\ CallOK(l) /\ sessions[call[l].session].job = j
  BY <1>1, RunningFacts DEF Levels, Sessions, Depth, QueryGuard, CallPCs, CallOK
<1> DEFINE held == [jobs[j] EXCEPT !.refs = @ + 1]
           x == IF jobs[j].state = "IDLE" THEN Requested(held, call[l].processes) ELSE held
<1>3. /\ jobs' = [jobs EXCEPT ![j] = x]
      /\ ctl' = Broadcast(ctl, j) \/ ctl' = ctl
      /\ jobs[j].state = "IDLE" => ctl' = Broadcast(ctl, j)
  BY <1>1 DEF QueryGuard
<1>4. /\ jobs[j] \in JobRecord /\ jobs \in [Jobs -> JobRecord] /\ CurrentReply(Heap, j)
      /\ Heap.jobs = jobs /\ Heap.frames = frames /\ jobs[j].refs = JobHolders[j]
      /\ jobs[j].refs \in Nat
  BY DEF HeapOK, Heap, JobRecord
<1>5. /\ held \in JobRecord /\ held.refs = jobs[j].refs + 1 /\ held.state = jobs[j].state
      /\ held.frame = jobs[j].frame /\ held.done = jobs[j].done
      /\ held.cancelled = jobs[j].cancelled /\ held.processes = jobs[j].processes
      /\ held.requested = jobs[j].requested
  BY <1>4 DEF JobRecord
<1> HIDE DEF held
<1>6. /\ x \in JobRecord /\ x.refs = jobs[j].refs + 1 /\ x.frame = jobs[j].frame
      /\ x.done = jobs[j].done /\ x.cancelled = jobs[j].cancelled
      /\ jobs[j].state = "IDLE" => x.state = "QUERY" /\ x.frame = None
      /\ jobs[j].state # "IDLE" => /\ x.state = jobs[j].state /\ x.processes = jobs[j].processes
                                   /\ x.requested = jobs[j].requested
  <2>1. jobs[j].state = "IDLE" => jobs[j].frame = None
    BY <1>4 DEF CurrentReply
  <2>2. CASE jobs[j].state = "IDLE"
    BY <1>2, <1>5, <2>1, <2>2, Asked
  <2>3. CASE jobs[j].state # "IDLE"
    BY <1>5, <2>3
  <2> QED BY <2>2, <2>3
<1> HIDE DEF x
<1>7. /\ call' = [call EXCEPT ![l] = call'[l]]
      /\ call'[l] = [call[l] EXCEPT !.pc = "look"]
      /\ \A m \in Levels \ {l} : call'[m] = call[m]
      /\ call[l] \in CallRecord
  BY DEF QueryGuard, Goto, Types
<1>8. Types'
  <2>1. call'[l] \in CallRecord
    BY <1>7 DEF CallPCs
  <2>2. call' \in [Levels -> CallRecord]
    BY <1>7, <2>1 DEF Types
  <2> QED BY <1>2, <1>3, <2>2, BroadcastWakes DEF Types
<1>9. CallOK(l)' /\ Owned'
  BY <1>1, <1>2, <1>7 DEF CallOK, Owned
<1>10. /\ JobHolders' = [JobHolders EXCEPT ![j] = x.refs] /\ FrameHolders' = FrameHolders
  <2>1. \A i \in Jobs : ~HoldsJob(l, i) /\ (HoldsJob(l, i)' <=> i = j)
    BY <1>1, <1>2, <1>7 DEF HoldsJob
  <2>2. \A g \in Frames : ~HoldsFrame(l, g)' /\ ~HoldsFrame(l, g)
    BY <1>2, <1>7 DEF HoldsFrame
  <2>3. /\ JobHolders \in [Jobs -> Nat] /\ JobHolders' \in [Jobs -> Nat]
        /\ \A i \in Jobs :
             JobHolders'[i] = JobHolders[i] + One(HoldsJob(l, i)') - One(HoldsJob(l, i))
        /\ FrameHolders \in [Frames -> Nat] /\ FrameHolders' \in [Frames -> Nat]
        /\ \A f \in Frames : FrameHolders'[f] = FrameHolders[f]
                + One(HoldsFrame(l, f)') - One(HoldsFrame(l, f))
    BY <1>2, <1>3, <1>7, LuaHolders, BroadcastWakes DEF One
  <2>4. \A i \in Jobs : JobHolders'[i] = IF i = j THEN JobHolders[i] + 1 ELSE JobHolders[i]
    BY <2>1, <2>3 DEF One
  <2> QED BY <1>4, <1>6, <2>2, <2>3, <2>4 DEF One
<1>11. HeapOK(Heap, JobHolders, FrameHolders)'
  <2>1. CurrentReply(WithJob(Heap, j, x), j)
    BY <1>4, <1>6 DEF WithJob, CurrentReply
  <2>2. HeapOK(WithJob(Heap, j, x), [JobHolders EXCEPT ![j] = x.refs],
               Passed(FrameHolders, jobs[j].frame, x.frame))
    BY <1>4, <1>6, <2>1, SetJob
  <2>3. Passed(FrameHolders, jobs[j].frame, x.frame) = FrameHolders
    BY <1>6, PassedType DEF HeapOK
  <2>4. Store(WithJob(Heap, j, x))
    BY <1>2, <1>3, <1>4 DEF WithJob, Store, Heap
  <2> QED BY <1>10, <2>2, <2>3, <2>4, Stored
<1>12. /\ \A i \in Jobs \ {j} : jobs'[i] = jobs[i]
       /\ jobs'[j] = x
  BY <1>3, <1>4
<1>13. \A i \in Jobs : \/ ctl'[i] = ctl[i]
                       \/ ctl[i].pc = "blocked" /\ ctl'[i] = Woken(ctl[i])
  BY <1>3, BroadcastWakes
<1>14. jobs[j].state = "IDLE" => ctl'[j].pc # "blocked"
  BY <1>3, BroadcastWakes
<1> QED BY <1>2, <1>6, <1>7, <1>8, <1>9, <1>11, <1>12, <1>13, <1>14, LuaKeeps

\* The job gives up the reply it stores, and asks again or stays idle.
LEMMA ReplyDropped ==
    ASSUME NEW h, NEW jr, NEW fr, HeapOK(h, jr, fr), NEW j \in Jobs,
           NEW f \in Frames, h.jobs[j].frame = f, None \notin Frames,
           NEW x \in JobRecord, x.refs = h.jobs[j].refs, x.refs > 0, x.frame = None,
           x.state \in {"IDLE", "QUERY"}
    PROVE  /\ HeapOK(ReleaseFrame(WithJob(h, j, x), f), jr, fr)
           /\ Kept(WithJob(h, j, x), ReleaseFrame(WithJob(h, j, x), f))
           /\ ReleaseFrame(WithJob(h, j, x), f).jobs = WithJob(h, j, x).jobs
<1> DEFINE k == WithJob(h, j, x)
           fr2 == Passed(fr, f, None)
<1>1. /\ h \in [jobs : [Jobs -> JobRecord], frames : [Frames -> FrameRecord]]
      /\ jr \in [Jobs -> Nat] /\ fr \in [Frames -> Nat] /\ h.jobs[j].refs = jr[j]
  BY DEF HeapOK
<1>2. CurrentReply(k, j)
  BY <1>1, WithJobEffect DEF CurrentReply
<1>3. HeapOK(k, [jr EXCEPT ![j] = x.refs], Passed(fr, h.jobs[j].frame, x.frame))
  BY <1>2, SetJob
<1>4. [jr EXCEPT ![j] = x.refs] = jr /\ fr2[f] > 0 /\ [fr2 EXCEPT ![f] = @ - 1] = fr
  BY <1>1 DEF Passed
<1>5. HeapOK(k, jr, fr2)
  BY <1>3, <1>4
<1> HIDE DEF k, fr2
<1>6. /\ HeapOK(ReleaseFrame(k, f), jr, [fr2 EXCEPT ![f] = @ - 1])
      /\ Kept(k, ReleaseFrame(k, f)) /\ ReleaseFrame(k, f).jobs = k.jobs
  BY <1>4, <1>5, FrameReleased
<1> QED BY <1>4, <1>6 DEF k

LEMMA QueryStaleKeeps ==
    ASSUME IInv, UNCHANGED source, NEW l \in Levels, QueryStale(l)
    PROVE  IInv'
<1>1. PICK j \in Jobs : j = call[l].job
  BY RunningFacts DEF QueryStale, CallPCs
<1>2. /\ Running(l, "look") /\ Return(l) /\ ctl' = Broadcast(ctl, j)
      /\ UNCHANGED <<sessions, controllers, child>>
      /\ call[l].pc = "look" /\ call[l].processes \in Words /\ None \notin Frames
      /\ jobs[j].state = "READY"
  BY <1>1, RunningFacts DEF QueryStale, CallPCs
<1>3. /\ jobs[j] \in JobRecord /\ jobs \in [Jobs -> JobRecord] /\ CurrentReply(Heap, j)
      /\ Heap.jobs = jobs /\ Heap.frames = frames /\ jobs[j].refs = JobHolders[j]
      /\ jobs[j].frame \in Frames \cup {None}
      /\ Heap \in [jobs : [Jobs -> JobRecord], frames : [Frames -> FrameRecord]]
  BY DEF IInv, HeapOK, Heap, JobRecord
<1>4. PICK f \in Frames : f = jobs[j].frame
  BY <1>2, <1>3 DEF CurrentReply
<1> DEFINE x == Requested(jobs[j], call[l].processes)
           h == ReleaseFrame(WithJob(Heap, j, x), f)
<1>5. Store(ReleaseJob(h, j))
  BY <1>1, <1>3, <1>4 DEF QueryStale, WithJob
<1>6. /\ Types' /\ Owned' /\ CallOK(l)' /\ Acting(l)
      /\ call'[l].pc = "none" /\ \A m \in Levels \ {l} : call'[m] = call[m]
      /\ JobHolders' = [JobHolders EXCEPT ![j] = @ - 1] /\ JobHolders[j] > 0
      /\ FrameHolders' = FrameHolders
      /\ \A i \in Jobs : \/ ctl'[i] = ctl[i]
                         \/ ctl[i].pc = "blocked" /\ ctl'[i] = Woken(ctl[i])
      /\ ctl'[j].pc # "blocked"
  BY <1>1, <1>2, Returned
<1>7. /\ x \in JobRecord /\ x.refs = jobs[j].refs /\ x.refs > 0 /\ x.frame = None
      /\ x.state = "QUERY" /\ x.done = jobs[j].done /\ x.cancelled = jobs[j].cancelled
  BY <1>2, <1>3, <1>6, Asked
<1> HIDE DEF x
<1>8. /\ HeapOK(h, JobHolders, FrameHolders)
      /\ Kept(WithJob(Heap, j, x), h)
  BY <1>2, <1>3, <1>4, <1>7, ReplyDropped DEF IInv
<1> HIDE DEF h
<1>9. /\ HeapOK(ReleaseJob(h, j), JobHolders', FrameHolders')
      /\ Kept(WithJob(Heap, j, x), ReleaseJob(h, j))
  <2>1. HeapOK(ReleaseJob(h, j), JobHolders', FrameHolders') /\ Kept(h, ReleaseJob(h, j))
    BY <1>6, <1>8, JobReleased
  <2>2. WithJob(Heap, j, x) \in [jobs : [Jobs -> JobRecord], frames : [Frames -> FrameRecord]]
    BY <1>3, <1>7, WithJobEffect
  <2> QED BY <1>8, <2>1, <2>2, KeptTwice
<1>10. HeapOK(Heap, JobHolders, FrameHolders)'
  BY <1>5, <1>9, Stored
<1>11. /\ WithJob(Heap, j, x) \in [jobs : [Jobs -> JobRecord], frames : [Frames -> FrameRecord]]
       /\ WithJob(Heap, j, x).frames = frames
       /\ WithJob(Heap, j, x).jobs[j] = x
       /\ \A i \in Jobs \ {j} : WithJob(Heap, j, x).jobs[i] = jobs[i]
  BY <1>3, <1>7, WithJobEffect
<1>12. /\ \A i \in Jobs : jobs'[i].refs > 0 =>
             /\ jobs'[i].done = jobs[i].done /\ jobs'[i].cancelled = jobs[i].cancelled
             /\ i # j => /\ jobs'[i].state = jobs[i].state /\ jobs'[i].processes = jobs[i].processes
                         /\ jobs'[i].requested = jobs[i].requested
       /\ \A g \in Frames : frames'[g].refs > 0 =>
             /\ frames'[g].processes = frames[g].processes
             /\ frames'[g].started = frames[g].started
  BY <1>5, <1>7, <1>9, <1>11, KeptData
<1> QED BY <1>2, <1>6, <1>10, <1>12, LuaKeeps

LEMMA QueryCommitKeeps ==
    ASSUME IInv, UNCHANGED source, NEW l \in Levels, QueryCommit(l)
    PROVE  IInv'
<1>1. PICK j \in Jobs, f \in Frames : j = call[l].job /\ f = call[l].frame
  BY RunningFacts DEF QueryCommit, CallPCs
<1>2. /\ Running(l, "decode") /\ Return(l) /\ (ctl' = Broadcast(ctl, j) \/ ctl' = ctl)
      /\ UNCHANGED <<sessions, controllers, child>>
      /\ call[l].pc = "decode" /\ call[l].processes \in Words /\ None \notin Frames
  BY <1>1, RunningFacts DEF QueryCommit, CallPCs
<1>3. /\ jobs[j] \in JobRecord /\ jobs \in [Jobs -> JobRecord] /\ CurrentReply(Heap, j)
      /\ Heap.jobs = jobs /\ Heap.frames = frames /\ jobs[j].refs = JobHolders[j]
      /\ Heap \in [jobs : [Jobs -> JobRecord], frames : [Frames -> FrameRecord]]
  BY DEF IInv, HeapOK, Heap, JobRecord
<1>4. /\ Types' /\ Owned' /\ CallOK(l)' /\ Acting(l)
      /\ call'[l].pc = "none" /\ \A m \in Levels \ {l} : call'[m] = call[m]
      /\ JobHolders' = [JobHolders EXCEPT ![j] = @ - 1] /\ JobHolders[j] > 0
      /\ FrameHolders[f] > 0 /\ FrameHolders' = [FrameHolders EXCEPT ![f] = @ - 1]
      /\ \A i \in Jobs : \/ ctl'[i] = ctl[i]
                         \/ ctl[i].pc = "blocked" /\ ctl'[i] = Woken(ctl[i])
      /\ ctl' = Broadcast(ctl, j) => ctl'[j].pc # "blocked"
  BY <1>1, <1>2, Returned
<1>5. CASE ~Consumes(l)
  <2>1. Store(DropGuard(Heap, l))
    BY <1>5 DEF QueryCommit
  <2>2. HeapOK(DropGuard(Heap, l), JobHolders', FrameHolders') /\ Kept(Heap, DropGuard(Heap, l))
    BY <1>1, <1>4, GuardDropped DEF IInv
  <2>3. HeapOK(Heap, JobHolders, FrameHolders)'
    BY <2>1, <2>2, Stored
  <2>4. /\ \A i \in Jobs : jobs'[i].refs > 0 =>
              /\ jobs'[i].done = jobs[i].done /\ jobs'[i].cancelled = jobs[i].cancelled
              /\ jobs'[i].state = jobs[i].state /\ jobs'[i].processes = jobs[i].processes
              /\ jobs'[i].requested = jobs[i].requested
        /\ \A g \in Frames : frames'[g].refs > 0 =>
              /\ frames'[g].processes = frames[g].processes
              /\ frames'[g].started = frames[g].started
    BY <1>3, <2>1, <2>2, KeptData
  <2> QED BY <1>2, <1>4, <2>3, <2>4, LuaKeeps
<1>6. CASE Consumes(l)
  <2> DEFINE r == Requested(jobs[j], call[l].processes)
             x == [r EXCEPT !.state = IF Gpu THEN "QUERY" ELSE "IDLE"]
             h == ReleaseFrame(WithJob(Heap, j, x), f)
  <2>1. jobs[j].frame = f
    BY <1>1, <1>6 DEF Consumes
  <2>2. Store(DropGuard(h, l)) /\ ctl' = Broadcast(ctl, j)
    BY <1>1, <1>3, <1>6, <2>1 DEF QueryCommit, WithJob
  <2>3. /\ r \in JobRecord /\ r.refs = jobs[j].refs /\ r.frame = None
        /\ r.done = jobs[j].done /\ r.cancelled = jobs[j].cancelled
    BY <1>2, <1>3, Asked
  <2> HIDE DEF r
  <2>4. /\ x \in JobRecord /\ x.refs = jobs[j].refs /\ x.refs > 0 /\ x.frame = None
        /\ x.state \in {"IDLE", "QUERY"} /\ x.done = jobs[j].done
        /\ x.cancelled = jobs[j].cancelled
    BY <1>3, <1>4, <2>3 DEF JobRecord
  <2> HIDE DEF x
  <2>5. /\ HeapOK(h, JobHolders, FrameHolders)
        /\ Kept(WithJob(Heap, j, x), h)
    BY <1>2, <1>3, <2>1, <2>4, ReplyDropped DEF IInv
  <2> HIDE DEF h
  <2>6. /\ WithJob(Heap, j, x) \in [jobs : [Jobs -> JobRecord], frames : [Frames -> FrameRecord]]
        /\ WithJob(Heap, j, x).frames = frames
        /\ WithJob(Heap, j, x).jobs[j] = x
        /\ \A i \in Jobs \ {j} : WithJob(Heap, j, x).jobs[i] = jobs[i]
    BY <1>3, <2>4, WithJobEffect
  <2>7. /\ HeapOK(DropGuard(h, l), JobHolders', FrameHolders')
        /\ Kept(WithJob(Heap, j, x), DropGuard(h, l))
    <3>1. HeapOK(DropGuard(h, l), JobHolders', FrameHolders') /\ Kept(h, DropGuard(h, l))
      BY <1>1, <1>4, <2>5, GuardDropped
    <3> QED BY <2>5, <2>6, <3>1, KeptTwice
  <2>8. HeapOK(Heap, JobHolders, FrameHolders)'
    BY <2>2, <2>7, Stored
  <2>9. jobs[j].state = "READY"
    BY <1>2, <1>3, <2>1 DEF CurrentReply
  <2>10. /\ \A i \in Jobs : jobs'[i].refs > 0 =>
               /\ jobs'[i].done = jobs[i].done /\ jobs'[i].cancelled = jobs[i].cancelled
               /\ i # j => /\ jobs'[i].state = jobs[i].state
                           /\ jobs'[i].processes = jobs[i].processes
                           /\ jobs'[i].requested = jobs[i].requested
         /\ \A g \in Frames : frames'[g].refs > 0 =>
               /\ frames'[g].processes = frames[g].processes
               /\ frames'[g].started = frames[g].started
    BY <2>2, <2>4, <2>6, <2>7, KeptData
  <2> QED BY <1>2, <1>4, <2>2, <2>8, <2>9, <2>10, LuaKeeps
<1> QED BY <1>5, <1>6

\* The heap and the references after the session dropped an expired job.
LEMMA ExpiryDropped ==
    ASSUME IInv, NEW s \in Sessions, NEW o \in Jobs \cup {None}, o = sessions[s].job
    PROVE  /\ HeapOK(AfterExpiry(s), [i \in Jobs |-> JobHolders[i] - One(i = o)], FrameHolders)
           /\ Kept(Heap, AfterExpiry(s))
<1> DEFINE jr == [i \in Jobs |-> JobHolders[i] - One(i = o)]
<1>1. /\ JobHolders \in [Jobs -> Nat] /\ None \notin Jobs
      /\ Heap \in [jobs : [Jobs -> JobRecord], frames : [Frames -> FrameRecord]]
      /\ HeapOK(Heap, JobHolders, FrameHolders) /\ Types
  BY WorkerAssumption DEF IInv, HeapOK
<1>2. CASE o = None
  <2>1. AfterExpiry(s) = Heap /\ jr = JobHolders
    BY <1>1, <1>2 DEF AfterExpiry, One
  <2>2. Kept(Heap, Heap)
    BY <1>1 DEF Kept, JobRecord, FrameRecord
  <2> QED BY <1>1, <2>1, <2>2
<1>3. CASE o # None
  <2>1. AfterExpiry(s) = ReleaseJob(Heap, o) /\ o \in Jobs
    BY <1>3 DEF AfterExpiry
  <2>2. IsFiniteSet(Sessions) /\ IsFiniteSet(Levels)
    BY <1>1, FiniteSources DEF Types
  <2>3. /\ SessionsOf(o) \subseteq Sessions /\ s \in SessionsOf(o)
        /\ CallsOn(o) \subseteq Levels
    BY DEF SessionsOf, CallsOn
  <2>4. /\ Cardinality(SessionsOf(o)) > 0 /\ Cardinality(SessionsOf(o)) \in Nat
        /\ Cardinality(CallsOn(o)) \in Nat
    BY <2>2, <2>3, OneChanged
  <2>5. JobHolders[o] > 0
    BY <2>1, <2>4 DEF JobHolders
  <2>6. jr = [JobHolders EXCEPT ![o] = @ - 1]
    <3>1. \A i \in Jobs : JobHolders[i] - One(i = o) = [JobHolders EXCEPT ![o] = @ - 1][i]
      BY <1>1, <2>1, <2>5 DEF One
    <3> QED BY <1>1, <2>1, <3>1
  <2> QED BY <1>1, <2>1, <2>5, <2>6, JobReleased
<1> QED BY <1>2, <1>3

\* A start that fails half-way leaves what a refused one leaves.
LEMMA FailsAsRefused ==
    ASSUME IInv, NEW l \in Levels, NEW s \in Sessions, NEW p \in Policies, QueryFails(l, s, p)
    PROVE  QueryRefused(l, s)
<1> DEFINE h == AfterExpiry(s)
<1>1. PICK j \in Jobs : /\ h.jobs[j].refs = 0
                        /\ Store(RolledBack(Begun(s, j, p), j).heap)
                        /\ controllers' = RolledBack(Begun(s, j, p), j).count
  BY DEF QueryFails
<1>2. PICK o \in Jobs \cup {None} : o = sessions[s].job
  BY DEF IInv, Types
<1>3. HeapOK(h, [i \in Jobs |-> JobHolders[i] - One(i = o)], FrameHolders)
  BY <1>2, ExpiryDropped
<1>4. /\ h \in [jobs : [Jobs -> JobRecord], frames : [Frames -> FrameRecord]]
      /\ h.jobs[j] = FreeJob
  BY <1>1, <1>3 DEF HeapOK
<1> DEFINE js == h.jobs
           fs == h.frames
           new == NewJob(p)
           one == [new EXCEPT !.refs = 1]
           js1 == [js EXCEPT ![j] = new]
           js2 == [js1 EXCEPT ![j].refs = 1]
           h2 == [jobs |-> js2, frames |-> fs]
<1>5. h = [jobs |-> js, frames |-> fs] /\ js \in [Jobs -> JobRecord] /\ js[j] = FreeJob
  <2> HIDE DEF h
  <2> QED BY <1>4
<1>a. controllers \in Nat
  <2>1. IsFiniteSet(Counted) /\ controllers = Cardinality(Counted)
    BY WorkerAssumption, FS_Subset DEF IInv, CountersOK, Counted
  <2> QED BY <2>1, FS_CardinalityType
<1>6. RolledBack(Begun(s, j, p), j) = [heap |-> ReleaseJob(h2, j), count |-> controllers]
  <2>1. [h EXCEPT !.jobs[j] = new] = [jobs |-> js1, frames |-> fs]
    <3> HIDE DEF h, new, js, fs
    <3> QED BY <1>5
  <2> DEFINE g == [jobs |-> js1, frames |-> fs]
             b == Begun(s, j, p)
  <2>2. b.heap = g /\ b.count = controllers + 1
    <3> HIDE DEF js1, js, fs
    <3> QED BY <2>1 DEF Begun
  <2>3. [g EXCEPT !.jobs[j].refs = 1] = h2
    <3> HIDE DEF js1, fs, new
    <3> QED OBVIOUS
  <2> HIDE DEF h2, g, b
  <2> DEFINE x == [b.heap EXCEPT !.jobs[j].refs = 1]
  <2>4. x = h2
    BY <2>2, <2>3
  <2>5. RolledBack(b, j) = [heap |-> ReleaseJob(x, j), count |-> b.count - 1]
    BY DEF RolledBack
  <2> HIDE DEF x
  <2>6. b.count - 1 = controllers
    BY <1>a, <2>2
  <2>7. RolledBack(b, j) = [heap |-> ReleaseJob(h2, j), count |-> controllers]
    BY <2>4, <2>5, <2>6
  <2> QED BY <2>7 DEF b
<1>7. ReleaseJob(h2, j) = h
  <2>1. js2[j] = one /\ one.refs = 1 /\ one.frame = None
    <3>1. js1[j] = new
      <4> HIDE DEF h, js, new
      <4> QED BY <1>5
    <3>2. js2[j] = one
      <4> HIDE DEF js, new
      <4> QED BY <1>5, <3>1
    <3> QED BY <3>2 DEF NewJob, FreeJob
  <2>2. h2.jobs[j].refs = 1 /\ h2.jobs[j].frame = None
    BY <2>1
  <2>3. ReleaseJob(h2, j) = [h2 EXCEPT !.jobs[j] = FreeJob]
    <3> HIDE DEF h2
    <3> QED BY <2>2 DEF ReleaseJob, ReleaseFrame
  <2>4. [h2 EXCEPT !.jobs[j] = FreeJob] = [jobs |-> [js2 EXCEPT ![j] = FreeJob], frames |-> fs]
    <3> HIDE DEF js2, fs
    <3> QED OBVIOUS
  <2>5. [js2 EXCEPT ![j] = FreeJob] = js
    <3> HIDE DEF js, new
    <3> QED BY <1>5
  <2> HIDE DEF h2, js2, js, fs, h
  <2> QED BY <1>5, <2>3, <2>4, <2>5
<1> HIDE DEF h2
<1>8. Store(h) /\ controllers' = controllers
  BY <1>1, <1>6, <1>7
<1> QED BY <1>8 DEF QueryFails, QueryRefused, h

LEMMA QueryCreateKeeps ==
    ASSUME IInv, UNCHANGED source, NEW l \in Levels, NEW s \in Sessions, NEW p \in Policies,
           QueryCreate(l, s, p)
    PROVE  IInv'
<1>1. /\ Types /\ Stack /\ Owned /\ CountersOK /\ NoLostWakeup
      /\ \A m \in Levels : CallOK(m)
      /\ \A i \in Jobs : ThreadOK(i)
      /\ HeapOK(Heap, JobHolders, FrameHolders)
      /\ Heap \in [jobs : [Jobs -> JobRecord], frames : [Frames -> FrameRecord]]
      /\ None \notin Jobs
  BY WorkerAssumption DEF IInv, HeapOK
<1>2. /\ Levels' = Levels /\ Sessions' = Sessions /\ Limit' = Limit
      /\ IsFiniteSet(Levels) /\ IsFiniteSet(Sessions) /\ Policies \subseteq Words
  BY <1>1, FiniteSources DEF Types, Levels, Sessions, Limit, Depth
<1> DEFINE h == AfterExpiry(s)
<1>3. PICK j \in Jobs : /\ h.jobs[j].refs = 0
                        /\ Store([h EXCEPT !.jobs[j] = NewJob(p)])
                        /\ sessions' = [sessions EXCEPT ![s].job = j]
                        /\ ctl' = [ctl EXCEPT ![j].pc = "spawn"]
                        /\ Begin(l, s, j, p)
  BY DEF QueryCreate
<1>4. /\ MayStart(l) /\ ~sessions[s].closed /\ controllers < Limit
      /\ controllers' = controllers + 1 /\ UNCHANGED child /\ call[l].pc = "none"
  BY DEF QueryCreate, RoomForController, MayStart
<1>5. PICK o \in Jobs \cup {None} : o = sessions[s].job
  BY <1>1 DEF Types
<1> DEFINE jr == [i \in Jobs |-> JobHolders[i] - One(i = o)]
<1>6. HeapOK(h, jr, FrameHolders) /\ Kept(Heap, h)
  BY <1>5, ExpiryDropped
<1> HIDE DEF h
<1>7. /\ sessions'[s].job = j /\ \A t \in Sessions \ {s} : sessions'[t] = sessions[t]
      /\ sessions'[s].closed = sessions[s].closed
      /\ sessions' \in [Sessions -> [closed : BOOLEAN, job : Jobs \cup {None}]]
  <2>1. /\ sessions' = [sessions EXCEPT ![s].job = j]
        /\ sessions \in [Sessions -> [closed : BOOLEAN, job : Jobs \cup {None}]]
    BY <1>1, <1>3 DEF Types
  <2> QED BY <2>1
<1>8. /\ call' = [call EXCEPT ![l] = call'[l]]
      /\ call'[l] = [pc |-> "guard", session |-> s, job |-> j, frame |-> None, processes |-> p]
      /\ \A m \in Levels \ {l} : call'[m] = call[m]
  BY <1>1, <1>3 DEF Begin, NoCall, Types
<1>9. /\ ctl[j] \in ThreadRecord
      /\ ctl'[j] = [ctl[j] EXCEPT !.pc = "spawn"]
      /\ \A i \in Jobs \ {j} : ctl'[i] = ctl[i]
      /\ ctl' \in [Jobs -> ThreadRecord]
  <2>1. /\ ctl' = [ctl EXCEPT ![j].pc = "spawn"]
        /\ ctl \in [Jobs -> ThreadRecord]
    BY <1>1, <1>3 DEF Types
  <2>2. [ctl[j] EXCEPT !.pc = "spawn"] \in ThreadRecord
    BY <2>1 DEF CtlPCs
  <2> QED BY <2>1, <2>2
\* The address was free: nobody holds it but the session that gives it up.
<1>10. ASSUME NEW i \in Jobs
       PROVE  /\ Cardinality(SessionsOf(i)) \in Nat /\ Cardinality(SessionsOf(i)') \in Nat
              /\ Cardinality(SessionsOf(i)') = Cardinality(SessionsOf(i)) + One(j = i) - One(o = i)
              /\ o = i => Cardinality(SessionsOf(i)) > 0
              /\ Cardinality(CallsOn(i)) \in Nat
              /\ Cardinality(CallsOn(i)') = Cardinality(CallsOn(i))
  <2>1. ~HoldsJob(l, i)' /\ ~HoldsJob(l, i)
    BY <1>4, <1>8 DEF HoldsJob
  <2>2. \A t \in Sessions \ {s} : sessions'[t].job = sessions[t].job
    BY <1>7
  <2>3. /\ Cardinality(SessionsOf(i)) \in Nat /\ Cardinality(SessionsOf(i)') \in Nat
        /\ Cardinality(SessionsOf(i)') = Cardinality(SessionsOf(i))
              + One(sessions'[s].job = i) - One(sessions[s].job = i)
        /\ sessions[s].job = i => Cardinality(SessionsOf(i)) > 0
    BY <1>1, <2>2, SessionsChange
  <2>4. /\ Cardinality(CallsOn(i)) \in Nat /\ Cardinality(CallsOn(i)') \in Nat
        /\ Cardinality(CallsOn(i)') = Cardinality(CallsOn(i))
              + One(HoldsJob(l, i)') - One(HoldsJob(l, i))
    BY <1>1, <1>8, CallsChange
  <2> QED BY <1>5, <1>7, <2>1, <2>3, <2>4 DEF One
<1>11. /\ ctl[j].pc = "none" /\ Cardinality(SessionsOf(j)) = One(o = j)
       /\ Cardinality(CallsOn(j)) = 0
  <2>1. jr[j] = 0
    BY <1>3, <1>6 DEF HeapOK
  <2>2. JobHolders[j] = Cardinality(SessionsOf(j)) + Cardinality(CallsOn(j))
                          + (IF At(j, "none") THEN 0 ELSE 1)
    BY DEF JobHolders
  <2>3. Cardinality(SessionsOf(j)) >= One(o = j)
    BY <1>10 DEF One
  <2>4. One(j = o) = One(o = j) /\ One(o = j) \in Nat
    BY DEF One
  <2> QED BY <1>10, <2>1, <2>2, <2>3, <2>4 DEF At
<1>12. JobHolders' = [jr EXCEPT ![j] = 2] /\ FrameHolders' = FrameHolders
  <2>1. ASSUME NEW i \in Jobs PROVE JobHolders'[i] = IF i = j THEN 2 ELSE jr[i]
    <3>1. /\ JobHolders[i] = Cardinality(SessionsOf(i)) + Cardinality(CallsOn(i))
                             + (IF At(i, "none") THEN 0 ELSE 1)
          /\ JobHolders'[i] = Cardinality(SessionsOf(i)') + Cardinality(CallsOn(i)')
                             + (IF At(i, "none")' THEN 0 ELSE 1)
      BY DEF JobHolders
    <3>2. CASE i = j
      <4>1. ~At(i, "none")'
        BY <1>9, <3>2 DEF At
      <4> QED BY <1>10, <1>11, <3>1, <3>2, <4>1 DEF One
    <3>3. CASE i # j
      <4>1. At(i, "none")' <=> At(i, "none")
        BY <1>9, <3>3 DEF At
      <4> QED BY <1>10, <3>1, <3>3, <4>1 DEF One
    <3> QED BY <3>2, <3>3
  <2>2. JobHolders' = [i \in Jobs |-> JobHolders'[i]]
    BY DEF JobHolders
  <2>3. ASSUME NEW f \in Frames PROVE Publishing(f)' = Publishing(f) /\ Decoding(f)' = Decoding(f)
    <3>1. Publishing(f)' = Publishing(f)
      BY <1>9, <1>11 DEF Publishing, At
    <3>2. Decoding(f)' = Decoding(f)
      BY <1>2, <1>4, <1>8 DEF Decoding, HoldsFrame
    <3> QED BY <3>1, <3>2
  <2>4. FrameHolders' = FrameHolders
    BY <2>3 DEF FrameHolders
  <2> QED BY <2>1, <2>2, <2>4
<1>13. HeapOK(Heap, JobHolders, FrameHolders)'
  <2> DEFINE x == NewJob(p)
  <2>1. /\ x \in JobRecord /\ x.refs = 2 /\ x.frame = None /\ x.state = "QUERY"
    BY <1>2 DEF NewJob, FreeJob, JobRecord, Words
  <2> HIDE DEF x
  <2>2. h.jobs[j] = FreeJob /\ None \notin Frames
        /\ h \in [jobs : [Jobs -> JobRecord], frames : [Frames -> FrameRecord]]
    BY <1>3, <1>6, WorkerAssumption DEF HeapOK
  <2>3. CurrentReply(WithJob(h, j, x), j)
    BY <2>1, <2>2, WithJobEffect DEF CurrentReply
  <2>4. HeapOK(WithJob(h, j, x), [jr EXCEPT ![j] = 2], Passed(FrameHolders, h.jobs[j].frame, x.frame))
    BY <1>6, <2>1, <2>2, <2>3, SetJob
  <2>5. Passed(FrameHolders, h.jobs[j].frame, x.frame) = FrameHolders
    BY <1>6, <2>1, <2>2, PassedType DEF HeapOK, FreeJob
  <2>6. Store(WithJob(h, j, x))
    BY <1>3, <2>2 DEF WithJob, x
  <2> QED BY <1>12, <2>4, <2>5, <2>6, Stored
<1>14. /\ jobs'[j] = NewJob(p) /\ \A i \in Jobs \ {j} : jobs'[i] = h.jobs[i]
       /\ frames' = h.frames
  BY <1>3, <1>6 DEF Store, HeapOK
<1>15. /\ \A i \in Jobs \ {j} : jobs'[i].refs > 0 =>
             /\ jobs'[i].done = jobs[i].done /\ jobs'[i].cancelled = jobs[i].cancelled
             /\ jobs'[i].state = jobs[i].state /\ jobs'[i].processes = jobs[i].processes
             /\ jobs'[i].requested = jobs[i].requested
       /\ \A f \in Frames : frames'[f].refs > 0 =>
             /\ frames'[f].processes = frames[f].processes
             /\ frames'[f].started = frames[f].started
  <2>1. ASSUME NEW i \in Jobs \ {j}, jobs'[i].refs > 0
        PROVE  /\ jobs'[i].done = jobs[i].done /\ jobs'[i].cancelled = jobs[i].cancelled
               /\ jobs'[i].state = jobs[i].state /\ jobs'[i].processes = jobs[i].processes
               /\ jobs'[i].requested = jobs[i].requested
    <3>1. h.jobs[i].refs > 0 /\ jobs'[i] = h.jobs[i]
      BY <1>14, <2>1
    <3>2. jobs'[i] = [jobs[i] EXCEPT !.refs = h.jobs[i].refs] /\ jobs[i] \in JobRecord
      BY <1>1, <1>6, <3>1 DEF Kept, Heap
    <3> QED BY <3>2 DEF JobRecord
  <2>2. ASSUME NEW f \in Frames, frames'[f].refs > 0
        PROVE  frames'[f].processes = frames[f].processes /\ frames'[f].started = frames[f].started
    <3>1. frames'[f] = [frames[f] EXCEPT !.refs = h.frames[f].refs] /\ frames[f] \in FrameRecord
      BY <1>1, <1>6, <1>14, <2>2 DEF Kept, Heap
    <3> QED BY <3>1 DEF FrameRecord
  <2> QED BY <2>1, <2>2
<1>16. Types'
  <2>1. call'[l] \in CallRecord
    BY <1>2, <1>8 DEF CallPCs
  <2>2. call' \in [Levels -> CallRecord]
    BY <1>1, <1>8, <2>1 DEF Types
  <2> QED BY <1>1, <1>2, <1>4, <1>7, <1>9, <2>2 DEF Types
<1>17. Stack' /\ \A m \in Levels : CallOK(m)'
  <2>1. CallOK(l)'
    BY <1>2, <1>7, <1>8 DEF CallOK
  <2> QED BY <1>1, <1>4, <1>8, <2>1, CallsKept DEF Acting
<1>18. Owned'
  <2> SUFFICES ASSUME NEW t \in Sessions, t # s PROVE sessions[t].job # j
    BY <1>1, <1>2, <1>7 DEF Owned
  <2>1. SUFFICES ASSUME sessions[t].job = j PROVE FALSE
    OBVIOUS
  <2>2. o # j
    BY <1>1, <1>5, <2>1 DEF Owned
  <2>3. SessionsOf(j) \subseteq Sessions /\ t \in SessionsOf(j)
    BY <2>1 DEF SessionsOf
  <2>4. Cardinality(SessionsOf(j)) > 0
    BY <1>2, <2>3, OneChanged
  <2> QED BY <1>11, <2>2, <2>4 DEF One
<1>19. ASSUME NEW i \in Jobs PROVE ThreadOK(i)'
  <2>1. CASE i = j
    <3>1. /\ ctl'[j].pc = "spawn" /\ ctl'[j].frame = ctl[j].frame /\ child'[j] = child[j]
          /\ jobs'[j].state = "QUERY" /\ ~jobs'[j].done
      BY <1>4, <1>9, <1>14 DEF NewJob, FreeJob
    <3>2. ctl[j].frame = None /\ child[j] = "none"
      BY <1>1, <1>11 DEF ThreadOK
    <3> QED BY <2>1, <3>1, <3>2 DEF ThreadOK
  <2>2. CASE i # j
    <3>1. ThreadOK(i) /\ child'[i] = child[i] /\ ctl'[i] = ctl[i]
      BY <1>1, <1>4, <1>9, <2>2
    <3> QED BY <1>1, <1>13, <1>15, <1>16, <2>2, <3>1, ThreadKept
  <2> QED BY <2>1, <2>2
<1>20. CountersOK'
  <2>1. /\ Cardinality(Counted) \in Nat
        /\ Cardinality(Counted') = Cardinality(Counted)
             + One(ctl'[j].pc \notin {"none", "drop"}) - One(ctl[j].pc \notin {"none", "drop"})
    BY <1>9, ThreadsChange
  <2>2. ctl'[j].pc = "spawn"
    BY <1>9
  <2>3. Limit \in Nat
    BY <1>1, FiniteSources DEF Types
  <2> QED BY <1>1, <1>2, <1>4, <1>11, <2>1, <2>2, <2>3 DEF CountersOK, One
<1>21. NoLostWakeup'
  <2> SUFFICES ASSUME NEW i \in Jobs, ctl'[i].pc = "blocked"
               PROVE  /\ jobs'[i].state # "QUERY"
                      /\ jobs'[i].cancelled => \E m \in Levels : call'[m].pc = "signal" /\ call'[m].job = i
    BY <1>2 DEF NoLostWakeup, At
  <2>1. i # j /\ ctl[i].pc = "blocked"
    BY <1>9
  <2>2. /\ jobs[i].state # "QUERY"
        /\ jobs[i].cancelled => \E m \in Levels : call[m].pc = "signal" /\ call[m].job = i
    BY <1>1, <2>1 DEF NoLostWakeup, At
  <2>3. jobs'[i].refs \in Nat /\ (jobs'[i].refs = 0 => jobs'[i] = FreeJob)
    BY <1>13 DEF HeapOK, Heap, JobRecord
  <2>4. CASE jobs'[i].refs = 0
    BY <2>3, <2>4 DEF FreeJob
  <2>5. CASE jobs'[i].refs # 0
    <3>1. jobs'[i].state = jobs[i].state /\ jobs'[i].cancelled = jobs[i].cancelled
      BY <1>15, <2>1, <2>3, <2>5
    <3> QED BY <1>4, <1>8, <2>2, <3>1
  <2> QED BY <2>4, <2>5
<1> QED BY <1>2, <1>13, <1>16, <1>17, <1>18, <1>19, <1>20, <1>21 DEF IInv

-----------------------------------------------------------------------------
(* The steps of a controller.                                               *)

\* A place where a controller holds its job and no reply, and is counted.
Working == CtlPCs \ {"none", "publish", "drop"}

\* A step that changes nothing but the thread and its reader.
LEMMA ThreadMoves ==
    ASSUME IInv, UNCHANGED <<source, sessions, jobs, frames, controllers, call>>,
           NEW j \in Jobs, NEW t \in ThreadRecord,
           ctl' = [ctl EXCEPT ![j] = t], t.frame = ctl[j].frame,
           t.pc = ctl[j].pc \/ (t.pc \in Working /\ ctl[j].pc \in Working),
           child' \in [Jobs -> {"none", "running", "zombie"}],
           \A i \in Jobs \ {j} : child'[i] = child[i],
           ThreadOK(j)',
           t.pc = "blocked" => \/ ctl[j].pc = "blocked"
                               \/ jobs[j].state # "QUERY" /\ ~jobs[j].cancelled
    PROVE  IInv'
<1>1. /\ Types /\ CountersOK /\ ctl \in [Jobs -> ThreadRecord]
      /\ Limit' = Limit /\ Sessions' = Sessions /\ Levels' = Levels
  BY DEF IInv, Types, Limit, Sessions, Levels, Depth
<1>2. /\ ctl'[j] = t /\ \A i \in Jobs \ {j} : ctl'[i] = ctl[i]
      /\ ctl' \in [Jobs -> ThreadRecord]
  BY <1>1
<1>3. Types'
  BY <1>1, <1>2 DEF Types
<1>4. JobHolders' = JobHolders /\ FrameHolders' = FrameHolders
  <2>1. /\ At(j, "none")' <=> At(j, "none")
        /\ \A f \in Frames : (At(j, "publish")' /\ ctl'[j].frame = f)
                               <=> (At(j, "publish") /\ ctl[j].frame = f)
    BY <1>2 DEF At, Working
  <2> QED BY <1>1, <1>2, <2>1, ControllerHolders DEF One
<1>5. HeapOK(Heap, JobHolders, FrameHolders)'
  <2>1. Store(Heap)
    BY DEF Store, Heap
  <2> QED BY <1>4, <2>1, Stored DEF IInv
<1>6. CountersOK'
  <2>1. Counted' = Counted
    BY <1>2 DEF Counted, At, Working
  <2> QED BY <1>1, <2>1 DEF CountersOK
<1> QED BY <1>2, <1>3, <1>5, <1>6, ControllerKeeps

LEMMA SpawnKeeps ==
    ASSUME IInv, UNCHANGED source, NEW j \in Jobs, Spawn(j)
    PROVE  IInv'
<1> DEFINE t == [ctl[j] EXCEPT !.pc = IF Gpu THEN "check" ELSE "configure"]
<1>1. /\ ctl[j] \in ThreadRecord /\ ctl \in [Jobs -> ThreadRecord] /\ ThreadOK(j)
      /\ child \in [Jobs -> {"none", "running", "zombie"}]
      /\ ctl[j].pc = "spawn" /\ child' = [child EXCEPT ![j] = "running"]
      /\ ctl' = [ctl EXCEPT ![j] = t]
      /\ UNCHANGED <<sessions, jobs, frames, controllers, call>>
  BY DEF IInv, Types, Spawn, At, Step
<1>2. /\ t \in ThreadRecord /\ t.frame = ctl[j].frame /\ t.processes = ctl[j].processes
      /\ t.pc \in {"check", "configure"}
  BY <1>1 DEF CtlPCs
<1> HIDE DEF t
<1>3. ThreadOK(j)'
  BY <1>1, <1>2 DEF ThreadOK
<1>4. /\ child' \in [Jobs -> {"none", "running", "zombie"}]
      /\ \A i \in Jobs \ {j} : child'[i] = child[i]
  BY <1>1
<1>5. t.pc \in Working /\ ctl[j].pc \in Working /\ t.pc # "blocked"
  BY <1>1, <1>2 DEF Working, CtlPCs
<1> QED BY <1>1, <1>2, <1>3, <1>4, <1>5, ThreadMoves

LEMMA ConfigureKeeps ==
    ASSUME IInv, UNCHANGED source, NEW j \in Jobs, Configure(j)
    PROVE  IInv'
<1> DEFINE t == [ctl[j] EXCEPT !.pc = "check"]
<1>1. /\ ctl[j] \in ThreadRecord /\ ctl \in [Jobs -> ThreadRecord] /\ ThreadOK(j)
      /\ child \in [Jobs -> {"none", "running", "zombie"}]
      /\ ctl[j].pc = "configure" /\ child[j] = "running"
      /\ ctl' = [ctl EXCEPT ![j] = t]
      /\ UNCHANGED <<sessions, jobs, frames, controllers, child, call>>
  BY DEF IInv, Types, Configure, At, Step
<1>2. /\ t \in ThreadRecord /\ t.frame = ctl[j].frame /\ t.processes = ctl[j].processes
      /\ t.pc = "check"
  BY <1>1 DEF CtlPCs
<1> HIDE DEF t
<1>3. ThreadOK(j)'
  BY <1>1, <1>2 DEF ThreadOK
<1>4. t.pc \in Working /\ ctl[j].pc \in Working /\ t.pc # "blocked"
  BY <1>1, <1>2 DEF Working, CtlPCs
<1> QED BY <1>1, <1>2, <1>3, <1>4, ThreadMoves

LEMMA CheckKeeps ==
    ASSUME IInv, UNCHANGED source, NEW j \in Jobs, Check(j)
    PROVE  IInv'
<1> DEFINE t == IF jobs[j].cancelled THEN [ctl[j] EXCEPT !.pc = "quit"]
                ELSE IF jobs[j].state = "QUERY"
                     THEN [ctl[j] EXCEPT !.pc = "exchange", !.processes = jobs[j].processes]
                     ELSE [ctl[j] EXCEPT !.pc = "blocked"]
<1>1. /\ ctl[j] \in ThreadRecord /\ ctl \in [Jobs -> ThreadRecord] /\ ThreadOK(j)
      /\ child \in [Jobs -> {"none", "running", "zombie"}]
      /\ ctl[j].pc = "check"
      /\ ctl' = [ctl EXCEPT ![j] = t]
      /\ UNCHANGED <<sessions, jobs, frames, controllers, child, call>>
      /\ jobs[j].processes \in Words
  BY DEF IInv, Types, Check, At, HeapOK, Heap, JobRecord
<1>2. /\ t \in ThreadRecord /\ t.frame = ctl[j].frame
      /\ t.pc = IF jobs[j].cancelled THEN "quit"
                ELSE IF jobs[j].state = "QUERY" THEN "exchange" ELSE "blocked"
      /\ t.pc = "exchange" => t.processes = jobs[j].processes
  BY <1>1 DEF CtlPCs
<1> HIDE DEF t
<1>3. ThreadOK(j)'
  BY <1>1, <1>2 DEF ThreadOK
<1>4. /\ t.pc \in Working /\ ctl[j].pc \in Working
      /\ t.pc = "blocked" => jobs[j].state # "QUERY" /\ ~jobs[j].cancelled
  BY <1>1, <1>2 DEF Working, CtlPCs
<1> QED BY <1>1, <1>2, <1>3, <1>4, ThreadMoves

LEMMA QuitKeeps ==
    ASSUME IInv, UNCHANGED source, NEW j \in Jobs, Quit(j)
    PROVE  IInv'
<1> DEFINE t == [ctl[j] EXCEPT !.pc = IF child[j] = "none" THEN "finish" ELSE "reap", !.grace = 0]
<1>1. /\ ctl[j] \in ThreadRecord /\ ctl \in [Jobs -> ThreadRecord] /\ ThreadOK(j)
      /\ child \in [Jobs -> {"none", "running", "zombie"}]
      /\ ctl[j].pc = "quit"
      /\ ctl' = [ctl EXCEPT ![j] = t]
      /\ UNCHANGED <<sessions, jobs, frames, controllers, child, call>>
  BY DEF IInv, Types, Quit, At
<1>2. /\ t \in ThreadRecord /\ t.frame = ctl[j].frame
      /\ t.pc = IF child[j] = "none" THEN "finish" ELSE "reap"
  BY <1>1 DEF CtlPCs
<1> HIDE DEF t
<1>3. ThreadOK(j)'
  BY <1>1, <1>2 DEF ThreadOK
<1>4. t.pc \in Working /\ ctl[j].pc \in Working /\ t.pc # "blocked"
  BY <1>1, <1>2 DEF Working, CtlPCs
<1> QED BY <1>1, <1>2, <1>3, <1>4, ThreadMoves

LEMMA KillKeeps ==
    ASSUME IInv, UNCHANGED source, NEW j \in Jobs, Kill(j)
    PROVE  IInv'
<1> DEFINE t == [ctl[j] EXCEPT !.killed = TRUE]
<1>1. /\ ctl[j] \in ThreadRecord /\ ctl \in [Jobs -> ThreadRecord] /\ ThreadOK(j)
      /\ child \in [Jobs -> {"none", "running", "zombie"}]
      /\ ctl[j].pc = "reap"
      /\ ctl' = [ctl EXCEPT ![j] = t]
      /\ UNCHANGED <<sessions, jobs, frames, controllers, child, call>>
  BY DEF IInv, Types, Kill, At
<1>2. t \in ThreadRecord /\ t.frame = ctl[j].frame /\ t.pc = ctl[j].pc
  BY <1>1
<1> HIDE DEF t
<1>3. ThreadOK(j)'
  BY <1>1, <1>2 DEF ThreadOK
<1> QED BY <1>1, <1>2, <1>3, ThreadMoves

LEMMA ReapKeeps ==
    ASSUME IInv, UNCHANGED source, NEW j \in Jobs, Reap(j)
    PROVE  IInv'
<1> DEFINE t == [ctl[j] EXCEPT !.pc = "finish"]
<1>1. /\ ctl[j] \in ThreadRecord /\ ctl \in [Jobs -> ThreadRecord] /\ ThreadOK(j)
      /\ child \in [Jobs -> {"none", "running", "zombie"}]
      /\ ctl[j].pc = "reap" /\ child' = [child EXCEPT ![j] = "none"]
      /\ ctl' = [ctl EXCEPT ![j] = t]
      /\ UNCHANGED <<sessions, jobs, frames, controllers, call>>
  BY DEF IInv, Types, Reap, At, Step
<1>2. t \in ThreadRecord /\ t.frame = ctl[j].frame /\ t.pc = "finish"
  BY <1>1 DEF CtlPCs
<1> HIDE DEF t
<1>3. ThreadOK(j)'
  BY <1>1, <1>2 DEF ThreadOK
<1>4. /\ child' \in [Jobs -> {"none", "running", "zombie"}]
      /\ \A i \in Jobs \ {j} : child'[i] = child[i]
  BY <1>1
<1>5. t.pc \in Working /\ ctl[j].pc \in Working /\ t.pc # "blocked"
  BY <1>1, <1>2 DEF Working, CtlPCs
<1> QED BY <1>1, <1>2, <1>3, <1>4, <1>5, ThreadMoves

LEMMA ChildExitKeeps ==
    ASSUME IInv, UNCHANGED source, NEW j \in Jobs, ChildExit(j)
    PROVE  IInv'
<1>1. /\ ctl[j] \in ThreadRecord /\ ctl \in [Jobs -> ThreadRecord] /\ ThreadOK(j)
      /\ child \in [Jobs -> {"none", "running", "zombie"}]
      /\ child[j] = "running" /\ child' = [child EXCEPT ![j] = "zombie"]
      /\ UNCHANGED <<sessions, jobs, frames, controllers, ctl, call>>
  BY DEF IInv, Types, ChildExit
<1>2. ctl' = [ctl EXCEPT ![j] = ctl[j]]
  BY <1>1
<1>3. ThreadOK(j)'
  BY <1>1 DEF ThreadOK
<1>4. /\ child' \in [Jobs -> {"none", "running", "zombie"}]
      /\ \A i \in Jobs \ {j} : child'[i] = child[i]
  BY <1>1
<1> QED BY <1>1, <1>2, <1>3, <1>4, ThreadMoves

\* A step under the job's mutex that leaves its reply alone.
LEMMA JobMoves ==
    ASSUME IInv, UNCHANGED <<source, sessions, frames, controllers, child, call>>,
           NEW j \in Jobs, NEW t \in ThreadRecord, NEW x \in JobRecord,
           ctl' = [ctl EXCEPT ![j] = t], t.frame = ctl[j].frame,
           t.pc \in Working \ {"blocked"}, ctl[j].pc \in Working,
           jobs' = [jobs EXCEPT ![j] = x], x.refs = jobs[j].refs, x.frame = jobs[j].frame,
           x.processes = jobs[j].processes, x.requested = jobs[j].requested,
           x.state = jobs[j].state \/ (jobs[j].frame = None /\ x.state # "READY"),
           ThreadOK(j)'
    PROVE  IInv'
<1>1. /\ Types /\ CountersOK /\ ctl \in [Jobs -> ThreadRecord]
      /\ Limit' = Limit /\ Sessions' = Sessions /\ Levels' = Levels
      /\ HeapOK(Heap, JobHolders, FrameHolders)
  BY DEF IInv, Types, Limit, Sessions, Levels, Depth
<1>2. /\ ctl'[j] = t /\ \A i \in Jobs \ {j} : ctl'[i] = ctl[i]
      /\ ctl' \in [Jobs -> ThreadRecord]
  BY <1>1
<1>3. Types'
  BY <1>1, <1>2 DEF Types
<1>4. JobHolders' = JobHolders /\ FrameHolders' = FrameHolders /\ JobHolders[j] > 0
  <2>1. /\ ~At(j, "none")' /\ ~At(j, "none")
        /\ ~At(j, "publish")' /\ ~At(j, "publish")
    BY <1>2 DEF At, Working
  <2> QED BY <1>1, <1>2, <2>1, ControllerHolders DEF One
<1>5. /\ jobs \in [Jobs -> JobRecord] /\ jobs[j].refs = JobHolders[j]
      /\ CurrentReply(Heap, j) /\ Heap.jobs = jobs /\ Heap.frames = frames
      /\ JobHolders \in [Jobs -> Nat] /\ FrameHolders \in [Frames -> Nat]
      /\ Heap \in [jobs : [Jobs -> JobRecord], frames : [Frames -> FrameRecord]]
  BY <1>1 DEF HeapOK, Heap
<1>6. HeapOK(Heap, JobHolders, FrameHolders)'
  <2>1. CurrentReply(WithJob(Heap, j, x), j)
    BY <1>5, WithJobEffect DEF CurrentReply
  <2>2. HeapOK(WithJob(Heap, j, x), [JobHolders EXCEPT ![j] = x.refs],
               Passed(FrameHolders, jobs[j].frame, x.frame))
    BY <1>1, <1>4, <1>5, <2>1, SetJob
  <2>3. /\ Passed(FrameHolders, jobs[j].frame, x.frame) = FrameHolders
        /\ [JobHolders EXCEPT ![j] = x.refs] = JobHolders
    BY <1>5, PassedType
  <2>4. Store(WithJob(Heap, j, x))
    BY <1>5 DEF WithJob, Store
  <2> QED BY <1>4, <2>2, <2>3, <2>4, Stored
<1>7. CountersOK'
  <2>1. Counted' = Counted
    BY <1>2 DEF Counted, At, Working
  <2> QED BY <1>1, <2>1 DEF CountersOK
<1>8. \A i \in Jobs \ {j} : jobs'[i] = jobs[i]
  BY <1>5
<1> QED BY <1>2, <1>3, <1>6, <1>7, <1>8, ControllerKeeps

\* job_error while a request is being served: no reply is stored then.
LEMMA JobErrorKeeps ==
    ASSUME IInv, UNCHANGED <<source, sessions, frames, controllers, child, call>>,
           NEW j \in Jobs, ctl[j].pc \in {"spawn", "configure", "exchange"}, JobError(j)
    PROVE  IInv'
<1> DEFINE x == [jobs[j] EXCEPT !.state = "ERROR", !.failed = 0]
           t == [ctl[j] EXCEPT !.pc = "quit"]
<1>1. /\ ctl[j] \in ThreadRecord /\ ctl \in [Jobs -> ThreadRecord] /\ ThreadOK(j)
      /\ ctl' = [ctl EXCEPT ![j] = t]
      /\ jobs[j] \in JobRecord /\ jobs \in [Jobs -> JobRecord] /\ CurrentReply(Heap, j)
      /\ Heap.jobs = jobs
  BY DEF IInv, Types, JobError, HeapOK, Heap
<1>2. jobs' = [jobs EXCEPT ![j] = x]
  BY <1>1 DEF JobError
<1>3. t \in ThreadRecord /\ t.frame = ctl[j].frame /\ t.pc = "quit"
  BY <1>1 DEF CtlPCs
<1>4. /\ x \in JobRecord /\ x.refs = jobs[j].refs /\ x.frame = jobs[j].frame
      /\ x.processes = jobs[j].processes /\ x.requested = jobs[j].requested
      /\ x.state = "ERROR" /\ x.done = jobs[j].done
  BY <1>1 DEF JobRecord
<1> HIDE DEF x, t
<1>5. jobs[j].frame = None
  BY <1>1 DEF ThreadOK, CurrentReply
<1>6. ThreadOK(j)'
  BY <1>1, <1>2, <1>3, <1>4 DEF ThreadOK
<1>7. t.pc \in Working \ {"blocked"} /\ ctl[j].pc \in Working
  BY <1>3 DEF Working, CtlPCs
<1> QED BY <1>1, <1>2, <1>3, <1>4, <1>5, <1>6, <1>7, JobMoves

LEMMA FinishKeeps ==
    ASSUME IInv, UNCHANGED source, NEW j \in Jobs, Finish(j)
    PROVE  IInv'
<1> DEFINE x == [jobs[j] EXCEPT !.done = TRUE]
           t == [ctl[j] EXCEPT !.pc = "uncount"]
<1>1. /\ ctl[j] \in ThreadRecord /\ ctl \in [Jobs -> ThreadRecord] /\ ThreadOK(j)
      /\ ctl' = [ctl EXCEPT ![j] = t] /\ ctl[j].pc = "finish"
      /\ jobs[j] \in JobRecord /\ jobs \in [Jobs -> JobRecord]
      /\ UNCHANGED <<sessions, frames, controllers, child, call>>
  BY DEF IInv, Types, Finish, Step, At, HeapOK, Heap
<1>2. jobs' = [jobs EXCEPT ![j] = x]
  BY <1>1 DEF Finish
<1>3. t \in ThreadRecord /\ t.frame = ctl[j].frame /\ t.pc = "uncount"
  BY <1>1 DEF CtlPCs
<1>4. /\ x \in JobRecord /\ x.refs = jobs[j].refs /\ x.frame = jobs[j].frame
      /\ x.processes = jobs[j].processes /\ x.requested = jobs[j].requested
      /\ x.state = jobs[j].state
  BY <1>1 DEF JobRecord
<1> HIDE DEF x, t
<1>6. ThreadOK(j)'
  BY <1>1, <1>2, <1>3 DEF ThreadOK
<1>7. t.pc \in Working \ {"blocked"} /\ ctl[j].pc \in Working
  BY <1>1, <1>3 DEF Working, CtlPCs
<1> QED BY <1>1, <1>2, <1>3, <1>4, <1>6, <1>7, JobMoves

LEMMA UncountKeeps ==
    ASSUME IInv, UNCHANGED source, NEW j \in Jobs, Uncount(j)
    PROVE  IInv'
<1> DEFINE t == [ctl[j] EXCEPT !.pc = "drop"]
<1>1. /\ Types /\ CountersOK /\ ctl \in [Jobs -> ThreadRecord] /\ ctl[j] \in ThreadRecord
      /\ ctl' = [ctl EXCEPT ![j] = t] /\ ctl[j].pc = "uncount"
      /\ controllers' = controllers - 1
      /\ UNCHANGED <<sessions, jobs, frames, child, call>> /\ ThreadOK(j)
      /\ Limit' = Limit /\ Sessions' = Sessions /\ Levels' = Levels /\ Limit \in Nat
  BY FiniteSources DEF IInv, Types, Uncount, Step, At, Limit, Sessions, Levels, Depth
<1>2. t \in ThreadRecord /\ t.frame = ctl[j].frame /\ t.pc = "drop"
  BY <1>1 DEF CtlPCs
<1> HIDE DEF t
<1>3. /\ ctl'[j] = t /\ \A i \in Jobs \ {j} : ctl'[i] = ctl[i]
      /\ ctl' \in [Jobs -> ThreadRecord]
  BY <1>1, <1>2
<1>4. CountersOK'
  <2>1. /\ Cardinality(Counted) \in Nat
        /\ Cardinality(Counted') = Cardinality(Counted)
             + One(ctl'[j].pc \notin {"none", "drop"}) - One(ctl[j].pc \notin {"none", "drop"})
    BY <1>3, ThreadsChange
  <2> QED BY <1>1, <1>2, <1>3, <2>1 DEF CountersOK, One
<1>5. Types'
  BY <1>1, <1>3 DEF Types
<1>6. HeapOK(Heap, JobHolders, FrameHolders)'
  <2>1. /\ ~At(j, "none")' /\ ~At(j, "none")
        /\ ~At(j, "publish")' /\ ~At(j, "publish")
    BY <1>1, <1>2, <1>3 DEF At
  <2>2. JobHolders' = JobHolders /\ FrameHolders' = FrameHolders
    BY <1>1, <1>3, <2>1, ControllerHolders DEF One
  <2>3. Store(Heap)
    BY <1>1 DEF Store, Heap
  <2> QED BY <2>2, <2>3, Stored DEF IInv
<1>7. ThreadOK(j)'
  BY <1>1, <1>2, <1>3 DEF ThreadOK
<1> QED BY <1>1, <1>2, <1>3, <1>4, <1>5, <1>6, <1>7, ControllerKeeps

LEMMA DropKeeps ==
    ASSUME IInv, UNCHANGED source, NEW j \in Jobs, Drop(j)
    PROVE  IInv'
<1>1. /\ Types /\ CountersOK /\ ctl \in [Jobs -> ThreadRecord]
      /\ ctl' = [ctl EXCEPT ![j] = NoThread] /\ ctl[j].pc = "drop"
      /\ Store(ReleaseJob(Heap, j))
      /\ UNCHANGED <<sessions, controllers, child, call>> /\ ThreadOK(j)
      /\ Limit' = Limit /\ Sessions' = Sessions /\ Levels' = Levels
      /\ HeapOK(Heap, JobHolders, FrameHolders)
  BY DEF IInv, Types, Drop, At, Limit, Sessions, Levels, Depth
<1>2. NoThread \in ThreadRecord /\ NoThread.frame = None /\ NoThread.pc = "none"
  BY DEF CtlPCs, NoThread, Words
<1>3. /\ ctl'[j] = NoThread /\ \A i \in Jobs \ {j} : ctl'[i] = ctl[i]
      /\ ctl' \in [Jobs -> ThreadRecord]
  BY <1>1, <1>2
<1>4. CountersOK'
  <2>1. Counted' = Counted
    BY <1>1, <1>2, <1>3 DEF Counted, At
  <2> QED BY <1>1, <2>1 DEF CountersOK
<1>5. Types'
  BY <1>1, <1>3 DEF Types
<1>6. /\ JobHolders' = [JobHolders EXCEPT ![j] = @ - 1] /\ JobHolders[j] > 0
      /\ FrameHolders' = FrameHolders
  <2>1. /\ At(j, "none")' /\ ~At(j, "none")
        /\ ~At(j, "publish")' /\ ~At(j, "publish")
    BY <1>1, <1>2, <1>3 DEF At
  <2> QED BY <1>1, <1>3, <2>1, ControllerHolders DEF One
<1>7. /\ HeapOK(ReleaseJob(Heap, j), JobHolders', FrameHolders')
      /\ Kept(Heap, ReleaseJob(Heap, j))
  BY <1>1, <1>6, JobReleased
<1>8. HeapOK(Heap, JobHolders, FrameHolders)'
  BY <1>1, <1>7, Stored
<1>9. /\ \A i \in Jobs \ {j} : jobs'[i].refs > 0 =>
            jobs'[i] = [jobs[i] EXCEPT !.refs = jobs'[i].refs]
      /\ \A f \in Frames : frames'[f].refs > 0 =>
             /\ frames'[f].processes = frames[f].processes
             /\ frames'[f].started = frames[f].started
  <2>1. Heap \in [jobs : [Jobs -> JobRecord], frames : [Frames -> FrameRecord]]
    BY <1>1 DEF HeapOK
  <2>2. \A f \in Frames : frames'[f].refs > 0 =>
             /\ frames'[f].processes = Heap.frames[f].processes
             /\ frames'[f].started = Heap.frames[f].started
    BY <1>1, <1>7, <2>1, KeptData
  <2>3. \A i \in Jobs \ {j} : jobs'[i].refs > 0 =>
            jobs'[i] = [Heap.jobs[i] EXCEPT !.refs = jobs'[i].refs]
    BY <1>1, <1>7 DEF Kept, Store
  <2> QED BY <2>2, <2>3 DEF Heap
\* Only this job's count changes.
<1>10. \A i \in Jobs \ {j} : jobs'[i] = jobs[i]
  <2> SUFFICES ASSUME NEW i \in Jobs \ {j} PROVE jobs'[i] = jobs[i]
    OBVIOUS
  <2>1. /\ jobs'[i].refs = JobHolders'[i] /\ jobs[i].refs = JobHolders[i]
        /\ JobHolders'[i] = JobHolders[i] /\ JobHolders[i] \in Nat
        /\ jobs'[i].refs = 0 => jobs'[i] = FreeJob
        /\ jobs[i].refs = 0 => jobs[i] = FreeJob
        /\ jobs[i] \in JobRecord
    BY <1>1, <1>6, <1>8 DEF HeapOK, Heap
  <2>2. CASE jobs[i].refs = 0
    BY <2>1, <2>2
  <2>3. CASE jobs[i].refs # 0
    BY <1>9, <2>1, <2>3 DEF JobRecord
  <2> QED BY <2>2, <2>3
<1>11. ThreadOK(j)'
  <2>1. /\ ctl'[j].pc = "none" /\ ctl'[j].frame = None
        /\ child'[j] = "none"
    BY <1>1, <1>2, <1>3 DEF ThreadOK
  <2> QED BY <2>1 DEF ThreadOK
<1> QED BY <1>1, <1>2, <1>3, <1>4, <1>5, <1>8, <1>9, <1>10, <1>11, ControllerKeeps

LEMMA PublishKeeps ==
    ASSUME IInv, UNCHANGED source, NEW j \in Jobs, Publish(j)
    PROVE  IInv'
<1> DEFINE t == [ctl[j] EXCEPT !.pc = "check", !.frame = None]
<1>1. /\ Types /\ CountersOK /\ ctl \in [Jobs -> ThreadRecord] /\ ctl[j] \in ThreadRecord
      /\ ctl' = [ctl EXCEPT ![j] = t] /\ ctl[j].pc = "publish"
      /\ UNCHANGED <<sessions, frames, controllers, child, call>> /\ ThreadOK(j)
      /\ Limit' = Limit /\ Sessions' = Sessions /\ Levels' = Levels
      /\ HeapOK(Heap, JobHolders, FrameHolders)
  BY DEF IInv, Types, Publish, At, Limit, Sessions, Levels, Depth
<1>2. /\ t \in ThreadRecord /\ t.frame = None /\ t.pc = "check" /\ None \notin Frames
  BY <1>1, WorkerAssumption DEF CtlPCs
<1> HIDE DEF t
<1>3. PICK f \in Frames : f = ctl[j].frame
  BY <1>1 DEF ThreadOK
<1> DEFINE x == [jobs[j] EXCEPT !.frame = f, !.state = "READY"]
<1>4. /\ ctl'[j] = t /\ \A i \in Jobs \ {j} : ctl'[i] = ctl[i]
      /\ ctl' \in [Jobs -> ThreadRecord]
  BY <1>1, <1>2
<1>5. Types'
  BY <1>1, <1>4 DEF Types
<1>6. CountersOK'
  <2>1. Counted' = Counted
    BY <1>1, <1>2, <1>4 DEF Counted, At
  <2> QED BY <1>1, <2>1 DEF CountersOK
<1>7. /\ jobs \in [Jobs -> JobRecord] /\ jobs[j] \in JobRecord /\ jobs[j].refs = JobHolders[j]
      /\ CurrentReply(Heap, j) /\ Heap.jobs = jobs /\ Heap.frames = frames
      /\ JobHolders \in [Jobs -> Nat] /\ FrameHolders \in [Frames -> Nat]
      /\ Heap \in [jobs : [Jobs -> JobRecord], frames : [Frames -> FrameRecord]]
  BY <1>1 DEF HeapOK, Heap
<1>8. /\ jobs[j].frame = None /\ jobs[j].state = "QUERY" /\ ~jobs[j].done
  BY <1>1, <1>7 DEF ThreadOK, CurrentReply
<1>9. jobs' = [jobs EXCEPT ![j] = x]
  BY <1>3, <1>7 DEF Publish
<1>10. /\ x \in JobRecord /\ x.refs = jobs[j].refs /\ x.frame = f /\ x.state = "READY"
       /\ x.processes = jobs[j].processes /\ x.requested = jobs[j].requested
       /\ x.done = jobs[j].done
  BY <1>7 DEF JobRecord
<1> HIDE DEF x
<1>11. /\ JobHolders' = JobHolders /\ JobHolders[j] > 0 /\ FrameHolders[f] > 0
       /\ FrameHolders' = Passed(FrameHolders, None, f)
  <2>1. /\ ~At(j, "none")' /\ ~At(j, "none") /\ ~At(j, "publish")' /\ At(j, "publish")
    BY <1>1, <1>2, <1>4 DEF At
  <2>2. /\ JobHolders \in [Jobs -> Nat] /\ JobHolders' \in [Jobs -> Nat]
        /\ \A i \in Jobs \ {j} : JobHolders'[i] = JobHolders[i]
        /\ JobHolders'[j] = JobHolders[j] + One(~At(j, "none")') - One(~At(j, "none"))
        /\ ~At(j, "none") => JobHolders[j] > 0
        /\ FrameHolders \in [Frames -> Nat] /\ FrameHolders' \in [Frames -> Nat]
        /\ \A g \in Frames :
             /\ FrameHolders'[g] = FrameHolders[g]
                  + One(At(j, "publish")' /\ ctl'[j].frame = g)
                  - One(At(j, "publish") /\ ctl[j].frame = g)
             /\ At(j, "publish") /\ ctl[j].frame = g => FrameHolders[g] > 0
    BY <1>1, <1>4, ControllerHolders
  <2>3. \A g \in Frames : FrameHolders'[g] = Passed(FrameHolders, None, f)[g]
    BY <1>2, <1>3, <2>1, <2>2 DEF One, Passed
  <2>4. Passed(FrameHolders, None, f) \in [Frames -> Nat]
    BY <1>3, <2>1, <2>2, PassedType
  <2> QED BY <1>3, <2>1, <2>2, <2>3, <2>4 DEF One
<1>12. HeapOK(Heap, JobHolders, FrameHolders)'
  <2>1. CurrentReply(WithJob(Heap, j, x), j)
    <3>1. WithJob(Heap, j, x).frames = frames /\ WithJob(Heap, j, x).jobs[j] = x
      BY <1>7, <1>10, WithJobEffect
    <3>2. frames[f].processes = jobs[j].processes /\ frames[f].started <= jobs[j].requested
      BY <1>1, <1>3 DEF ThreadOK
    <3> QED BY <1>2, <1>10, <3>1, <3>2 DEF CurrentReply
  <2>2. HeapOK(WithJob(Heap, j, x), [JobHolders EXCEPT ![j] = x.refs],
               Passed(FrameHolders, jobs[j].frame, x.frame))
    BY <1>1, <1>7, <1>10, <1>11, <2>1, SetJob
  <2>3. [JobHolders EXCEPT ![j] = x.refs] = JobHolders
    BY <1>7, <1>10
  <2>4. Store(WithJob(Heap, j, x))
    BY <1>1, <1>7, <1>9 DEF WithJob, Store
  <2> QED BY <1>8, <1>10, <1>11, <2>2, <2>3, <2>4, Stored
<1>13. \A i \in Jobs \ {j} : jobs'[i] = jobs[i]
  BY <1>7, <1>9
<1>14. ThreadOK(j)'
  <2>1. jobs'[j] = x
    BY <1>7, <1>9
  <2> QED BY <1>1, <1>2, <1>4, <1>8, <1>10, <2>1 DEF ThreadOK
<1> QED BY <1>1, <1>2, <1>4, <1>5, <1>6, <1>12, <1>13, <1>14, ControllerKeeps

LEMMA ReplyKeeps ==
    ASSUME IInv, UNCHANGED source, NEW j \in Jobs, Reply(j)
    PROVE  IInv'
<1>1. PICK f \in Frames, age \in SampledSince(j) :
         /\ frames[f].refs = 0
         /\ frames' = [frames EXCEPT ![f] = [refs |-> 1, processes |-> ctl[j].processes,
                                             started |-> age]]
         /\ ctl' = [ctl EXCEPT ![j].pc = "publish", ![j].frame = f]
  BY DEF Reply
<1> DEFINE t == [ctl[j] EXCEPT !.pc = "publish", !.frame = f]
           x == [refs |-> 1, processes |-> ctl[j].processes, started |-> age]
           k == [Heap EXCEPT !.frames = [Heap.frames EXCEPT ![f] = x]]
<1>2. /\ Types /\ CountersOK /\ ctl \in [Jobs -> ThreadRecord] /\ ctl[j] \in ThreadRecord
      /\ ctl[j].pc = "exchange" /\ child[j] = "running"
      /\ UNCHANGED <<sessions, jobs, controllers, child, call>> /\ ThreadOK(j)
      /\ Limit' = Limit /\ Sessions' = Sessions /\ Levels' = Levels
      /\ HeapOK(Heap, JobHolders, FrameHolders) /\ None \notin Frames
  BY WorkerAssumption DEF IInv, Types, Reply, At, Limit, Sessions, Levels, Depth
<1>3. ctl' = [ctl EXCEPT ![j] = t]
  BY <1>1, <1>2
<1>4. /\ t \in ThreadRecord /\ t.frame = f /\ t.pc = "publish" /\ t.processes = ctl[j].processes
  BY <1>2 DEF CtlPCs
<1> HIDE DEF t
<1>5. /\ jobs[j].requested \in Nat /\ jobs[j].state = "QUERY" /\ ~jobs[j].done
      /\ ctl[j].processes = jobs[j].processes
      /\ Heap.jobs = jobs /\ Heap.frames = frames /\ frames \in [Frames -> FrameRecord]
  BY <1>2 DEF HeapOK, Heap, JobRecord, ThreadOK
<1>6. /\ x \in FrameRecord /\ x.refs = 1 /\ x.processes = jobs[j].processes
      /\ x.started = age /\ age <= jobs[j].requested
  BY <1>1, <1>2, <1>5 DEF SampledSince, FrameRecord
<1> HIDE DEF x
<1>7. /\ ctl'[j] = t /\ \A i \in Jobs \ {j} : ctl'[i] = ctl[i]
      /\ ctl' \in [Jobs -> ThreadRecord]
  BY <1>2, <1>3, <1>4
<1>8. Types'
  BY <1>2, <1>7 DEF Types
<1>9. CountersOK'
  <2>1. Counted' = Counted
    BY <1>2, <1>4, <1>7 DEF Counted, At
  <2> QED BY <1>2, <2>1 DEF CountersOK
\* The frame was free: nobody stores or holds it.
<1>10. Storing(Heap, f) = {} /\ FrameHolders[f] = 0
  BY <1>1, <1>2, <1>5, Held
<1>11. /\ JobHolders' = JobHolders /\ FrameHolders' \in [Frames -> Nat]
       /\ FrameHolders'[f] = 1
       /\ \A g \in Frames : g # f => FrameHolders'[g] = FrameHolders[g]
  <2>1. /\ ~At(j, "none")' /\ ~At(j, "none") /\ At(j, "publish")' /\ ~At(j, "publish")
        /\ ctl'[j].frame = f
    BY <1>2, <1>4, <1>7 DEF At
  <2>2. /\ JobHolders \in [Jobs -> Nat] /\ JobHolders' \in [Jobs -> Nat]
        /\ \A i \in Jobs \ {j} : JobHolders'[i] = JobHolders[i]
        /\ JobHolders'[j] = JobHolders[j] + One(~At(j, "none")') - One(~At(j, "none"))
        /\ FrameHolders \in [Frames -> Nat] /\ FrameHolders' \in [Frames -> Nat]
        /\ \A g \in Frames :
             FrameHolders'[g] = FrameHolders[g]
                  + One(At(j, "publish")' /\ ctl'[j].frame = g)
                  - One(At(j, "publish") /\ ctl[j].frame = g)
    BY <1>2, <1>7, ControllerHolders
  <2> QED BY <1>10, <2>1, <2>2 DEF One
<1>12. HeapOK(Heap, JobHolders, FrameHolders)'
  <2>1. Cardinality(Storing(Heap, f)) = 0
    BY <1>10, FS_EmptySet
  <2>2. HeapOK(k, JobHolders, FrameHolders')
    <3>1. x.refs = Cardinality(Storing(Heap, f)) + FrameHolders'[f] /\ x \in FrameRecord
      BY <1>6, <1>11, <2>1
    <3>2. HeapOK(Heap, JobHolders, FrameHolders)
      BY <1>2
    <3> QED BY <1>10, <1>11, <3>1, <3>2, SetFrame
  <2>3. Store(k)
    BY <1>1, <1>2, <1>5 DEF Store, Heap, x
  <2> HIDE DEF k
  <2> QED BY <1>11, <2>2, <2>3, Stored
<1>13. \A g \in Frames : frames[g].refs > 0 =>
           frames'[g].processes = frames[g].processes /\ frames'[g].started = frames[g].started
  BY <1>1, <1>5
<1>14. ThreadOK(j)'
  <2>1. frames'[f] = x
    BY <1>1, <1>5 DEF x
  <2> QED BY <1>2, <1>4, <1>5, <1>6, <1>7, <2>1 DEF ThreadOK
<1> QED BY <1>2, <1>4, <1>7, <1>8, <1>9, <1>12, <1>13, <1>14, ControllerKeeps

-----------------------------------------------------------------------------
(* Time passes.                                                             *)

LEMMA Ages ==
    /\ MaxAge \in Nat
    /\ \A a, cap \in Nat : Older(a, cap) \in Nat
    /\ \A a, b, cap \in Nat : a <= b => Older(a, cap) <= Older(b, cap)
BY WorkerAssumption DEF MaxAge, Older

LEMMA TickKeeps ==
    ASSUME IInv, UNCHANGED source, Tick
    PROVE  IInv'
<1>1. /\ Types /\ CountersOK /\ Stack /\ Owned /\ NoLostWakeup
      /\ \A m \in Levels : CallOK(m)
      /\ \A i \in Jobs : ThreadOK(i)
      /\ Limit' = Limit /\ Sessions' = Sessions /\ Levels' = Levels
      /\ HeapOK(Heap, JobHolders, FrameHolders)
      /\ UNCHANGED <<sessions, controllers, child, call>>
      /\ None \notin Frames /\ GraceNs \in Nat /\ RetryNs \in Nat
      /\ ctl \in [Jobs -> ThreadRecord]
      /\ jobs \in [Jobs -> JobRecord] /\ frames \in [Frames -> FrameRecord]
  BY WorkerAssumption DEF IInv, Tick, Types, Limit, Sessions, Levels, Depth, HeapOK, Heap
<1>2. ASSUME NEW j \in Jobs
      PROVE  /\ ctl'[j] \in ThreadRecord /\ ctl'[j].pc = ctl[j].pc
             /\ ctl'[j].frame = ctl[j].frame /\ ctl'[j].processes = ctl[j].processes
  <2>1. ctl[j] \in ThreadRecord
    BY <1>1
  <2>2. Older(ctl[j].grace, GraceNs) \in Nat
    BY <1>1, <2>1, Ages
  <2>3. ctl'[j] = IF At(j, "reap") THEN [ctl[j] EXCEPT !.grace = Older(ctl[j].grace, GraceNs)]
                  ELSE ctl[j]
    BY <2>1 DEF Tick
  <2> QED BY <2>1, <2>2, <2>3
<1>3. ASSUME NEW j \in Jobs
      PROVE  /\ jobs'[j] \in JobRecord /\ jobs'[j].refs = jobs[j].refs
             /\ jobs'[j].cancelled = jobs[j].cancelled /\ jobs'[j].state = jobs[j].state
             /\ jobs'[j].done = jobs[j].done /\ jobs'[j].processes = jobs[j].processes
             /\ jobs'[j].frame = jobs[j].frame
             /\ jobs[j].refs = 0 => jobs'[j] = jobs[j]
             /\ jobs[j].refs > 0 => jobs'[j].requested = Older(jobs[j].requested, MaxAge)
  <2>1. jobs[j] \in JobRecord /\ jobs[j].refs \in Nat
    BY <1>1 DEF JobRecord
  <2>2. PICK a, b \in Nat : a = Older(jobs[j].requested, MaxAge)
                            /\ b = IF jobs[j].state = "ERROR" THEN Older(jobs[j].failed, RetryNs)
                                   ELSE jobs[j].failed
    BY <1>1, <2>1, Ages DEF JobRecord
  <2>3. jobs'[j] = IF ~(jobs[j].refs > 0) THEN jobs[j]
                   ELSE [jobs[j] EXCEPT !.requested = a, !.failed = b]
    BY <2>1, <2>2 DEF Tick, Allocated
  <2>4. CASE jobs[j].refs = 0
    BY <2>1, <2>3, <2>4
  <2>5. CASE jobs[j].refs # 0
    <3>1. jobs'[j] = [jobs[j] EXCEPT !.requested = a, !.failed = b] /\ a \in Nat /\ b \in Nat
      BY <2>1, <2>2, <2>3, <2>5
    <3>2. a = Older(jobs[j].requested, MaxAge)
      BY <2>2
    <3> QED BY <2>1, <2>5, <3>1, <3>2 DEF JobRecord
  <2> QED BY <2>4, <2>5
<1>4. ASSUME NEW f \in Frames
      PROVE  /\ frames'[f] \in FrameRecord /\ frames'[f].refs = frames[f].refs
             /\ frames'[f].processes = frames[f].processes
             /\ frames[f].refs > 0 => frames'[f].started = Older(frames[f].started, MaxAge)
  <2>1. frames[f] \in FrameRecord /\ frames[f].refs \in Nat
    BY <1>1 DEF FrameRecord
  <2>2. PICK a \in Nat : a = Older(frames[f].started, MaxAge)
    BY <2>1, Ages DEF FrameRecord
  <2>3. frames'[f] = IF frames[f].refs = 0 THEN frames[f] ELSE [frames[f] EXCEPT !.started = a]
    BY <2>1, <2>2 DEF Tick
  <2> QED BY <2>1, <2>2, <2>3 DEF FrameRecord
<1>5. Types'
  <2>1. ctl' \in [Jobs -> ThreadRecord]
    BY <1>2 DEF Tick
  <2> QED BY <1>1, <2>1 DEF Types
<1>6. JobHolders' = JobHolders /\ FrameHolders' = FrameHolders
  <2>1. \A j \in Jobs : At(j, "none")' <=> At(j, "none")
    BY <1>2 DEF At
  <2>2. ASSUME NEW f \in Frames PROVE Publishing(f)' = Publishing(f) /\ Decoding(f)' = Decoding(f)
    BY <1>1, <1>2 DEF Publishing, Decoding, HoldsFrame, At
  <2>3. ASSUME NEW j \in Jobs PROVE SessionsOf(j)' = SessionsOf(j) /\ CallsOn(j)' = CallsOn(j)
    BY <1>1 DEF SessionsOf, CallsOn, HoldsJob
  <2> QED BY <2>1, <2>2, <2>3 DEF JobHolders, FrameHolders
\* A reply and the request it answers age together.
<1>7. ASSUME NEW j \in Jobs, NEW f \in Frames, frames[f].refs > 0, jobs[j].refs > 0,
             frames[f].started <= jobs[j].requested
      PROVE  frames'[f].started <= jobs'[j].requested
  BY <1>1, <1>3, <1>4, <1>7, Ages DEF JobRecord, FrameRecord
<1>8. HeapOK(Heap, JobHolders, FrameHolders)'
  <2>1. /\ JobHolders \in [Jobs -> Nat] /\ FrameHolders \in [Frames -> Nat]
        /\ \A j \in Jobs : jobs[j].refs = JobHolders[j]
        /\ \A f \in Frames : frames[f].refs = Cardinality(Storing(Heap, f)) + FrameHolders[f]
        /\ \A j \in Jobs : jobs[j].refs = 0 => jobs[j] = FreeJob
        /\ \A j \in Jobs : CurrentReply(Heap, j)
    BY <1>1 DEF HeapOK, Heap
  <2>2. jobs' \in [Jobs -> JobRecord] /\ frames' \in [Frames -> FrameRecord]
    BY <1>3, <1>4 DEF Tick
  <2>3. \A f \in Frames : Storing(Heap, f)' = Storing(Heap, f)
    BY <1>3 DEF Storing, Heap
  <2>4. ASSUME NEW j \in Jobs PROVE CurrentReply(Heap, j)'
    <3>1. CurrentReply(Heap, j) /\ jobs[j].frame \in Frames \cup {None} /\ jobs[j].refs \in Nat
      BY <1>1, <2>1 DEF JobRecord
    <3>2. CASE jobs[j].frame = None
      BY <1>3, <3>1, <3>2 DEF CurrentReply, Heap
    <3>3. CASE jobs[j].frame # None
      <4>1. jobs[j].frame \in Frames /\ frames[jobs[j].frame].refs > 0
        BY <1>1, <3>1, <3>3, Held DEF Heap
      <4>2. jobs[j].refs > 0
        BY <2>1, <3>1, <3>3 DEF FreeJob
      <4> QED BY <1>3, <1>4, <1>7, <3>1, <4>1, <4>2 DEF CurrentReply, Heap
    <3> QED BY <3>2, <3>3
  <2> QED BY <1>3, <1>4, <1>6, <2>1, <2>2, <2>3, <2>4 DEF HeapOK, Heap
<1>9. Stack' /\ (\A m \in Levels : CallOK(m)') /\ Owned'
  BY <1>1 DEF Stack, CallOK, Owned, NoCall
<1>10. ASSUME NEW j \in Jobs PROVE ThreadOK(j)'
  <2>1. ThreadOK(j) /\ ctl[j].frame \in Frames \cup {None} /\ jobs[j].refs \in Nat
    BY <1>1 DEF JobRecord
  <2>2. ctl[j].pc = "publish" =>
            /\ ctl[j].frame \in Frames
            /\ frames'[ctl[j].frame].processes = ctl[j].processes
            /\ frames'[ctl[j].frame].started <= jobs'[j].requested
    <3> SUFFICES ASSUME ctl[j].pc = "publish"
                 PROVE  /\ ctl[j].frame \in Frames
                        /\ frames'[ctl[j].frame].processes = ctl[j].processes
                        /\ frames'[ctl[j].frame].started <= jobs'[j].requested
      OBVIOUS
    <3>1. PICK f \in Frames : f = ctl[j].frame
      BY <2>1 DEF ThreadOK
    <3>2. FrameHolders[f] > 0 /\ jobs[j].refs > 0
      <4>2. IsFiniteSet(Levels) /\ Decoding(f) \subseteq Levels /\ IsFiniteSet(Jobs)
            /\ Publishing(f) \subseteq Jobs /\ j \in Publishing(f)
        BY <1>1, <3>1, FiniteSources DEF Types, Decoding, Publishing, At
      <4>3. /\ Cardinality(Decoding(f)) \in Nat
            /\ Cardinality(Publishing(f)) \in Nat /\ Cardinality(Publishing(f)) > 0
        BY <4>2, OneChanged
      <4>4. jobs[j].refs # 0
        BY <1>1, <2>1 DEF HeapOK, Heap, FreeJob, ThreadOK
      <4> QED BY <2>1, <4>3, <4>4 DEF FrameHolders
    <3>3. frames[f].refs > 0
      BY <1>1, <3>2, Held DEF Heap
    <3> QED BY <1>4, <1>7, <2>1, <3>1, <3>2, <3>3 DEF ThreadOK
  <2> QED BY <1>1, <1>2, <1>3, <2>1, <2>2 DEF ThreadOK
<1>11. CountersOK'
  <2>1. Counted' = Counted
    BY <1>2 DEF Counted, At
  <2> QED BY <1>1, <2>1 DEF CountersOK
<1>12. NoLostWakeup'
  BY <1>1, <1>2, <1>3 DEF NoLostWakeup, At
<1> QED BY <1>1, <1>5, <1>8, <1>9, <1>10, <1>11, <1>12 DEF IInv

-----------------------------------------------------------------------------
(* The invariant, and what follows from it.                                 *)

LEMMA Initially ==
    ASSUME Init
    PROVE  IInv
<1>1. /\ IsFiniteSet(Sessions) /\ IsFiniteSet(Levels) /\ Limit \in Nat \ {0}
      /\ None \notin Frames
  BY FiniteSources, WorkerAssumption DEF Init
<1>2. /\ FreeJob \in JobRecord /\ FreeFrame \in FrameRecord /\ NoThread \in ThreadRecord
      /\ NoCall \in CallRecord
  BY DEF FreeJob, FreeFrame, NoThread, NoCall, JobRecord, FrameRecord, CtlPCs, CallPCs, Words
<1>3. Types
  BY <1>2 DEF Init, Types
<1>4. /\ \A j \in Jobs : JobHolders[j] = 0
      /\ \A f \in Frames : FrameHolders[f] = 0 /\ Storing(Heap, f) = {}
      /\ Counted = {}
  <2>1. ASSUME NEW j \in Jobs PROVE SessionsOf(j) = {} /\ CallsOn(j) = {} /\ At(j, "none")
    BY WorkerAssumption DEF Init, SessionsOf, CallsOn, HoldsJob, NoCall, NoThread, At
  <2>2. ASSUME NEW f \in Frames PROVE Decoding(f) = {} /\ Publishing(f) = {} /\ Storing(Heap, f) = {}
    BY <1>1 DEF Init, Decoding, Publishing, Storing, Heap, HoldsFrame, NoCall, NoThread, At, FreeJob
  <2>3. Counted = {}
    BY <2>1 DEF Counted
  <2>4. Cardinality({}) = 0
    BY FS_EmptySet
  <2>5. ASSUME NEW j \in Jobs PROVE JobHolders[j] = 0
    <3>1. JobHolders[j] = Cardinality(SessionsOf(j)) + Cardinality(CallsOn(j))
                          + (IF At(j, "none") THEN 0 ELSE 1)
      BY DEF JobHolders
    <3> QED BY <2>1, <2>4, <3>1
  <2>6. ASSUME NEW f \in Frames PROVE FrameHolders[f] = 0
    <3>1. FrameHolders[f] = Cardinality(Decoding(f)) + Cardinality(Publishing(f))
      BY DEF FrameHolders
    <3> QED BY <2>2, <2>4, <3>1
  <2> QED BY <2>2, <2>3, <2>5, <2>6
<1>5. JobHolders \in [Jobs -> Nat] /\ FrameHolders \in [Frames -> Nat]
  BY <1>4 DEF JobHolders, FrameHolders
<1>6. Cardinality({}) = 0
  BY FS_EmptySet
<1>7. HeapOK(Heap, JobHolders, FrameHolders)
  <2>1. /\ Heap.jobs = [j \in Jobs |-> FreeJob] /\ Heap.frames = [f \in Frames |-> FreeFrame]
        /\ Heap \in [jobs : [Jobs -> JobRecord], frames : [Frames -> FrameRecord]]
    BY <1>2 DEF Init, Heap
  <2>2. /\ FreeJob.refs = 0 /\ FreeJob.state = "IDLE" /\ FreeJob.frame = None
        /\ FreeFrame.refs = 0
    BY DEF FreeJob, FreeFrame
  <2>3. \A j \in Jobs : Heap.jobs[j].refs = JobHolders[j] /\ Heap.jobs[j] = FreeJob
    BY <1>4, <2>1, <2>2
  <2>4. \A f \in Frames : Heap.frames[f].refs = Cardinality(Storing(Heap, f)) + FrameHolders[f]
    BY <1>4, <1>6, <2>1, <2>2
  <2>5. \A j \in Jobs : CurrentReply(Heap, j)
    BY <2>2, <2>3 DEF CurrentReply
  <2> QED BY <1>5, <2>1, <2>3, <2>4, <2>5 DEF HeapOK
<1>8. (\A l \in Levels : CallOK(l)) /\ Stack /\ Owned
  BY DEF Init, CallOK, Stack, Owned, NoCall
<1>9. \A j \in Jobs : ThreadOK(j)
  BY DEF Init, ThreadOK, NoThread, FreeJob
<1>10. CountersOK
  BY <1>1, <1>4, <1>6 DEF Init, CountersOK
<1>11. NoLostWakeup
  BY DEF Init, NoLostWakeup, At, NoThread
<1> QED BY <1>3, <1>7, <1>8, <1>9, <1>10, <1>11 DEF IInv

LEMMA ControllerStepKeeps ==
    ASSUME IInv, UNCHANGED source, NEW j \in Jobs,
           ControllerStep(j) \/ Reply(j) \/ ReplyRejected(j) \/ ChildExit(j)
    PROVE  IInv'
<1>1. CASE Spawn(j)           BY <1>1, SpawnKeeps
<1>2. CASE SpawnFails(j)      BY <1>2, JobErrorKeeps DEF SpawnFails, At
<1>3. CASE Configure(j)       BY <1>3, ConfigureKeeps
<1>4. CASE Check(j)           BY <1>4, CheckKeeps
<1>5. CASE TransferError(j)   BY <1>5, JobErrorKeeps DEF TransferError, At
<1>6. CASE Publish(j)         BY <1>6, PublishKeeps
<1>7. CASE Quit(j)            BY <1>7, QuitKeeps
<1>8. CASE Kill(j)            BY <1>8, KillKeeps
<1>9. CASE Reap(j)            BY <1>9, ReapKeeps
<1>10. CASE Finish(j)         BY <1>10, FinishKeeps
<1>11. CASE Uncount(j)        BY <1>11, UncountKeeps
<1>12. CASE Drop(j)           BY <1>12, DropKeeps
<1>13. CASE Reply(j)          BY <1>13, ReplyKeeps
<1>14. CASE ReplyRejected(j)  BY <1>14, JobErrorKeeps DEF ReplyRejected, At
<1>15. CASE ChildExit(j)      BY <1>15, ChildExitKeeps
<1> QED BY <1>1, <1>2, <1>3, <1>4, <1>5, <1>6, <1>7, <1>8, <1>9, <1>10, <1>11, <1>12, <1>13,
           <1>14, <1>15 DEF ControllerStep

LEMMA LuaStepKeeps ==
    ASSUME IInv, UNCHANGED source, NEW l \in Levels, LuaCall(l) \/ LuaStep(l)
    PROVE  IInv'
<1>1. CASE \E s \in Sessions : QueryRefused(l, s)
  BY <1>1, QueryRefusedKeeps
<1>2. CASE \E s \in Sessions : CloseMark(l, s)
  BY <1>2, CloseMarkKeeps
<1>3. CASE \E s \in Sessions, p \in Policies : QueryReuse(l, s, p)
  BY <1>3, QueryReuseKeeps
<1>4. CASE \E s \in Sessions, p \in Policies : QueryCreate(l, s, p)
  BY <1>4, QueryCreateKeeps
<1>13. CASE \E s \in Sessions, p \in Policies : QueryFails(l, s, p)
  BY <1>13, FailsAsRefused, QueryRefusedKeeps
<1>5. CASE QueryGuard(l)    BY <1>5, QueryGuardKeeps
<1>6. CASE QueryNothing(l)  BY <1>6, QueryNothingKeeps
<1>7. CASE QueryStale(l)    BY <1>7, QueryStaleKeeps
<1>8. CASE QueryTake(l)     BY <1>8, QueryTakeKeeps
<1>9. CASE QueryCommit(l)   BY <1>9, QueryCommitKeeps
<1>10. CASE QueryAbort(l)   BY <1>10, QueryAbortKeeps
<1>11. CASE CloseSignal(l)  BY <1>11, CloseSignalKeeps
<1>12. CASE CloseFinish(l)  BY <1>12, CloseFinishKeeps
<1> QED BY <1>1, <1>2, <1>3, <1>4, <1>5, <1>6, <1>7, <1>8, <1>9, <1>10, <1>11, <1>12, <1>13
        DEF LuaCall, LuaStep

LEMMA Inductive ==
    ASSUME IInv, [Next]_vars
    PROVE  IInv'
<1>1. CASE UNCHANGED vars
  BY <1>1, StutterKeeps
<1>2. CASE Next
  <2>1. UNCHANGED source
    BY <1>2 DEF Next
  <2>2. CASE \E s \in Sessions : Open(s)
    BY <2>1, <2>2, OpenKeeps
  <2>3. CASE \E l \in Levels : LuaCall(l) \/ LuaStep(l)
    BY <2>1, <2>3, LuaStepKeeps
  <2>4. CASE \E j \in Jobs : ControllerStep(j) \/ Reply(j) \/ ReplyRejected(j) \/ ChildExit(j)
    BY <2>1, <2>4, ControllerStepKeeps
  <2>5. CASE Tick
    BY <2>1, <2>5, TickKeeps
  <2> QED BY <1>2, <2>2, <2>3, <2>4, <2>5 DEF Next
<1> QED BY <1>1, <1>2

\* In every reachable state the heap is what its holders make it, calls nest
\* in one another's decoding only, a controller's request is its own while it
\* serves it, and the counter counts the controllers.
THEOREM Invariance == Spec => []IInv
<1>1. Init => IInv
  BY Initially
<1>2. IInv /\ [Next]_vars => IInv'
  BY Inductive
<1> QED BY <1>1, <1>2, PTL DEF Spec

\* Every job and every frame is allocated exactly while somebody holds it, and
\* its counter says how many do (job_release, frame_release, the guard, and
\* the controller's own reference): no leak, no use after free, no second free.
THEOREM RefsAreExact == Spec => []RefsExact
<1>1. IInv => RefsExact
  <2> SUFFICES ASSUME IInv PROVE RefsExact
    OBVIOUS
  <2>1. HeapOK(Heap, JobHolders, FrameHolders) /\ None \notin Frames
    BY WorkerAssumption DEF IInv
  <2>2. ASSUME NEW j \in Jobs PROVE jobs[j].refs = JobRefs(j)
    BY <2>1 DEF HeapOK, Heap, JobHolders, JobRefs, SessionsOf, CallsOn
  <2>3. ASSUME NEW f \in Frames PROVE frames[f].refs = FrameRefs(f)
    <3>1. ASSUME NEW j \in Jobs, jobs[j].frame = f PROVE Allocated(j)
      <4>1. jobs[j].refs \in Nat /\ (jobs[j].refs = 0 => jobs[j] = FreeJob)
        BY <2>1 DEF HeapOK, Heap, JobRecord
      <4>2. jobs[j].refs # 0
        BY <2>1, <3>1, <4>1 DEF FreeJob
      <4> QED BY <4>1, <4>2 DEF Allocated
    <3>2. Storing(Heap, f) = {j \in Jobs : Allocated(j) /\ jobs[j].frame = f}
      BY <3>1 DEF Storing, Heap
    <3>3. frames[f].refs = Cardinality(Storing(Heap, f)) + FrameHolders[f]
      BY <2>1 DEF HeapOK, Heap
    <3>4. FrameHolders[f] = Cardinality(Decoding(f)) + Cardinality(Publishing(f))
      BY DEF FrameHolders
    <3>5. IsFiniteSet(Jobs) /\ IsFiniteSet(Levels) /\ Storing(Heap, f) \subseteq Jobs
          /\ Decoding(f) \subseteq Levels /\ Publishing(f) \subseteq Jobs
      BY FiniteSources DEF IInv, Types, Storing, Decoding, Publishing
    <3>6. /\ Cardinality(Storing(Heap, f)) \in Nat /\ Cardinality(Decoding(f)) \in Nat
          /\ Cardinality(Publishing(f)) \in Nat
      BY <3>5, OneChanged
    <3> QED BY <3>2, <3>3, <3>4, <3>6 DEF FrameRefs, Decoding, Publishing
  <2> QED BY <2>2, <2>3 DEF RefsExact
<1> QED BY <1>1, Invariance, PTL

\* A reply is there exactly in state READY, and answers the current request:
\* what read_response accepted cannot go stale between its check of the time
\* stamp and policy and the controller's publication of the reply.
THEOREM RepliesAreCurrent == Spec => []ReplyIsCurrent
<1>1. IInv => ReplyIsCurrent
  BY DEF IInv, HeapOK, Heap, CurrentReply, ReplyIsCurrent
<1> QED BY <1>1, Invariance, PTL

\* The counter of controllers counts those that have not left, never exceeds
\* the limit, and a controller reaps its reader before it leaves: closing and
\* reopening sessions cannot accumulate processes.
THEOREM ReadersAreBounded == Spec => []ReadersBounded
<1>1. IInv => ReadersBounded
  <2> SUFFICES ASSUME IInv PROVE ReadersBounded
    OBVIOUS
  <2>1. CountersOK /\ \A j \in Jobs : ThreadOK(j)
    BY DEF IInv
  <2> QED BY <2>1 DEF CountersOK, Counted, ThreadOK, ReadersBounded
<1> QED BY <1>1, Invariance, PTL

\* A controller asleep on the condition has no request to serve, and if its
\* job is cancelled the broadcast of the close is still to come.
THEOREM NoWakeupIsLost == Spec => []NoLostWakeup
<1>1. IInv => NoLostWakeup
  BY DEF IInv
<1> QED BY <1>1, Invariance, PTL

-----------------------------------------------------------------------------
(* What a step may do to a reply that nobody has read yet.                  *)

\* The heap h with the jobs js.
HasJobs(h, js) == js \in [Jobs -> JobRecord] /\ h = [jobs |-> js, frames |-> h.frames]

LEMMA ReleasesKeepReplies ==
    ASSUME NEW h, NEW js, HasJobs(h, js), NEW f, NEW j \in Jobs
    PROVE  /\ HasJobs(ReleaseFrame(h, f), js)
           /\ \A i \in Jobs : ReleaseJob(h, j).jobs[i].refs > 0 =>
                  /\ ReleaseJob(h, j).jobs[i].frame = js[i].frame
                  /\ ReleaseJob(h, j).jobs[i].state = js[i].state
<1>1. h.jobs = js /\ js \in [Jobs -> JobRecord] /\ h = [jobs |-> js, frames |-> h.frames]
  BY DEF HasJobs
<1>2. ASSUME NEW k, NEW g, k = [jobs |-> k.jobs, frames |-> k.frames]
      PROVE  /\ ReleaseFrame(k, g).jobs = k.jobs
             /\ ReleaseFrame(k, g) = [jobs |-> k.jobs, frames |-> ReleaseFrame(k, g).frames]
  <2>1. CASE g = None
    BY <1>2, <2>1 DEF ReleaseFrame
  <2>2. CASE g # None
    <3> DEFINE fs == [k.frames EXCEPT ![g] = IF @.refs = 1 THEN FreeFrame ELSE OneLess(@)]
    <3>1. ReleaseFrame(k, g) = [k EXCEPT !.frames = fs]
      BY <2>2 DEF ReleaseFrame
    <3> HIDE DEF fs
    <3> QED BY <1>2, <3>1
  <2> QED BY <2>1, <2>2
<1>3. HasJobs(ReleaseFrame(h, f), js)
  BY <1>1, <1>2 DEF HasJobs
<1>4. CASE js[j].refs = 1
  <2> DEFINE js2 == [js EXCEPT ![j] = FreeJob]
             k   == [jobs |-> js2, frames |-> h.frames]
  <2>1. ReleaseJob(h, j) = ReleaseFrame(k, js[j].frame)
    BY <1>1, <1>4 DEF ReleaseJob
  <2>2. ReleaseJob(h, j).jobs = js2
    <3> HIDE DEF js2
    <3> QED BY <1>2, <2>1
  <2> QED BY <1>1, <1>3, <2>2 DEF FreeJob
<1>5. CASE js[j].refs # 1
  <2>1. ReleaseJob(h, j) = [h EXCEPT !.jobs = [js EXCEPT ![j] = OneLess(js[j])]]
    BY <1>1, <1>5 DEF ReleaseJob
  <2>2. ReleaseJob(h, j).jobs = [js EXCEPT ![j] = OneLess(js[j])]
    BY <1>1, <2>1
  <2>3. js[j] \in JobRecord
    BY <1>1
  <2>4. OneLess(js[j]).frame = js[j].frame /\ OneLess(js[j]).state = js[j].state
    BY <2>3 DEF OneLess, JobRecord
  <2> QED BY <1>1, <1>3, <2>2, <2>4
<1> QED BY <1>4, <1>5

\* The calls that only release what they hold lose no reply and change no
\* request.
LEMMA ReleaseStepKeeps ==
    ASSUME IInv, NEW j \in Jobs, NEW i \in Jobs, jobs'[i].refs > 0,
           \/ Store(ReleaseJob(Heap, j))
           \/ \E f : Store(ReleaseJob(ReleaseFrame(Heap, f), j))
    PROVE  jobs'[i].frame = jobs[i].frame /\ jobs'[i].state = jobs[i].state
<1>1. HasJobs(Heap, jobs)
  BY DEF IInv, HeapOK, Heap, HasJobs
<1>2. CASE Store(ReleaseJob(Heap, j))
  BY <1>1, <1>2, ReleasesKeepReplies DEF Store
<1>3. CASE \E f : Store(ReleaseJob(ReleaseFrame(Heap, f), j))
  <2>1. PICK f : Store(ReleaseJob(ReleaseFrame(Heap, f), j))
    BY <1>3
  <2>2. HasJobs(ReleaseFrame(Heap, f), jobs)
    BY <1>1, ReleasesKeepReplies
  <2>3. ReleaseJob(ReleaseFrame(Heap, f), j).jobs[i].refs > 0 =>
            /\ ReleaseJob(ReleaseFrame(Heap, f), j).jobs[i].frame = jobs[i].frame
            /\ ReleaseJob(ReleaseFrame(Heap, f), j).jobs[i].state = jobs[i].state
    BY <2>2, ReleasesKeepReplies
  <2> QED BY <2>1, <2>3 DEF Store
<1> QED BY <1>2, <1>3

\* Level l finished decoding the job's reply, or found that it cannot be used.
ReadOrUnusable(i) ==
    \E l \in Levels :
        /\ call[l].job = i
        /\ \/ HoldsFrame(l, jobs[i].frame)
           \/ call[l].pc = "look" /\ ~Usable(jobs[i].frame, call[l].processes)

LEMMA LuaKeepsReplies ==
    ASSUME IInv, NEW l \in Levels, LuaCall(l) \/ LuaStep(l),
           NEW i \in Jobs, jobs[i].frame # None, jobs'[i].frame # jobs[i].frame,
           jobs'[i].refs > 0
    PROVE  ReadOrUnusable(i)
<1>0. /\ jobs \in [Jobs -> JobRecord] /\ jobs[i] \in JobRecord /\ CurrentReply(Heap, i)
      /\ jobs[i].state = "READY" /\ HasJobs(Heap, jobs)
      /\ jobs[i].refs = 0 => jobs[i] = FreeJob
      /\ jobs[i].refs > 0
      /\ sessions \in [Sessions -> [closed : BOOLEAN, job : Jobs \cup {None}]]
  BY DEF IInv, HeapOK, Heap, HasJobs, CurrentReply, FreeJob, JobRecord, Types
<1>1. CASE \E s \in Sessions : QueryRefused(l, s)
  <2>1. PICK s \in Sessions : QueryRefused(l, s)
    BY <1>1
  <2>2. CASE sessions[s].job = None
    BY <2>1, <2>2 DEF QueryRefused, AfterExpiry, Store, Heap
  <2>3. CASE sessions[s].job # None
    BY <1>0, <2>1, <2>3, ReleaseStepKeeps DEF QueryRefused, AfterExpiry
  <2> QED BY <2>2, <2>3
<1>2. CASE \E s \in Sessions : CloseMark(l, s)
  <2>1. PICK s \in Sessions : CloseMark(l, s)
    BY <1>2
  <2>2. jobs' = jobs \/ (sessions[s].job \in Jobs
                         /\ jobs' = [jobs EXCEPT ![sessions[s].job].cancelled = TRUE])
    BY <1>0, <2>1 DEF CloseMark
  <2> QED BY <1>0, <2>2 DEF JobRecord
<1>3. CASE \E s \in Sessions, p \in Policies : QueryReuse(l, s, p)
  BY <1>3 DEF QueryReuse
\* An address that is allocated anew was free, or its job had failed.
<1>4. CASE \E s \in Sessions, p \in Policies : QueryCreate(l, s, p)
  <2>1. PICK s \in Sessions, p \in Policies : QueryCreate(l, s, p)
    BY <1>4
  <2> DEFINE h == AfterExpiry(s)
  <2>2. PICK j \in Jobs : h.jobs[j].refs = 0 /\ Store([h EXCEPT !.jobs[j] = NewJob(p)])
    BY <2>1 DEF QueryCreate
  <2>3. PICK o \in Jobs \cup {None} : o = sessions[s].job
    BY <1>0
  <2>4. o # i
    BY <1>0, <2>1, <2>3, WorkerAssumption DEF QueryCreate, NeedsJob, Expired
  <2>5. HeapOK(h, [k \in Jobs |-> JobHolders[k] - One(k = o)], FrameHolders) /\ Kept(Heap, h)
    BY <2>3, ExpiryDropped
  <2>6. h \in [jobs : [Jobs -> JobRecord], frames : [Frames -> FrameRecord]]
        /\ h.jobs[i].refs = jobs[i].refs
    <3>1. HeapOK(Heap, JobHolders, FrameHolders)
      BY DEF IInv
    <3>2. jobs[i].refs = JobHolders[i] /\ JobHolders[i] \in Nat
      BY <3>1 DEF HeapOK, Heap
    <3> QED BY <2>4, <2>5, <3>2 DEF HeapOK, One
  <2> HIDE DEF h
  <2>7. i # j
    BY <1>0, <2>2, <2>6
  <2>8. jobs'[i] = h.jobs[i]
    BY <2>2, <2>6, <2>7 DEF Store
  <2>9. h.jobs[i] = [jobs[i] EXCEPT !.refs = h.jobs[i].refs]
    BY <1>0, <2>5, <2>6 DEF Kept, Heap
  <2> QED BY <1>0, <2>8, <2>9 DEF JobRecord
<1>5. CASE QueryGuard(l)
  <2>1. PICK j \in Jobs : j = call[l].job
    BY <1>5, RunningFacts DEF QueryGuard, CallPCs
  <2>2. jobs' = [jobs EXCEPT ![j] = IF jobs[j].state = "IDLE"
                    THEN Requested([jobs[j] EXCEPT !.refs = @ + 1], call[l].processes)
                    ELSE [jobs[j] EXCEPT !.refs = @ + 1]]
    BY <1>5, <2>1 DEF QueryGuard
  <2>3. i = j => jobs'[i] = [jobs[i] EXCEPT !.refs = @ + 1]
    BY <1>0, <2>2
  <2>4. i # j => jobs'[i] = jobs[i]
    BY <1>0, <2>2
  <2> QED BY <1>0, <2>3, <2>4 DEF JobRecord
<1>6. CASE QueryNothing(l)
  <2>1. PICK j \in Jobs : j = call[l].job
    BY <1>6, RunningFacts DEF QueryNothing, CallPCs
  <2> QED BY <1>6, <2>1, ReleaseStepKeeps DEF QueryNothing
<1>7. CASE QueryStale(l)
  <2>1. PICK j \in Jobs : j = call[l].job
    BY <1>7, RunningFacts DEF QueryStale, CallPCs
  <2>2. CASE i = j
    BY <1>7, <2>1, <2>2 DEF QueryStale, Running, ReadOrUnusable
  <2>3. CASE i # j
    <3> DEFINE js == [jobs EXCEPT ![j] = Requested(jobs[j], call[l].processes)]
               h  == [jobs |-> js, frames |-> frames]
    <3>1. Store(ReleaseJob(ReleaseFrame(h, jobs[j].frame), j))
      BY <1>7, <2>1 DEF QueryStale, Heap
    <3>2. Requested(jobs[j], call[l].processes) \in JobRecord
      BY <1>0, <1>7, Asked, RunningFacts DEF QueryStale, CallPCs
    <3>3. HasJobs(h, js)
      BY <1>0, <3>2 DEF HasJobs
    <3>4. js[i] = jobs[i]
      BY <1>0, <2>3
    <3> HIDE DEF js, h
    <3>5. HasJobs(ReleaseFrame(h, jobs[j].frame), js)
      BY <3>3, ReleasesKeepReplies
    <3>6. jobs'[i].frame = js[i].frame
      BY <3>1, <3>5, ReleasesKeepReplies DEF Store
    <3> QED BY <3>4, <3>6
  <2> QED BY <2>2, <2>3
<1>8. CASE QueryTake(l)
  BY <1>8 DEF QueryTake
<1>9. CASE QueryCommit(l)
  <2>1. PICK j \in Jobs : j = call[l].job
    BY <1>9, RunningFacts DEF QueryCommit, CallPCs
  <2>2. CASE ~Consumes(l)
    <3>1. Store(ReleaseJob(ReleaseFrame(Heap, call[l].frame), j))
      BY <1>9, <2>1, <2>2 DEF QueryCommit, DropGuard
    <3> QED BY <3>1, ReleaseStepKeeps
  <2>3. CASE Consumes(l) /\ i = j
    <3>1. call[l].pc = "decode" /\ call[l].frame = jobs[i].frame
      BY <1>9, <2>1, <2>3 DEF QueryCommit, Consumes, Running
    <3> QED BY <2>1, <2>3, <3>1 DEF ReadOrUnusable, HoldsFrame
  <2>4. CASE Consumes(l) /\ i # j
    <3> DEFINE x  == [Requested(jobs[j], call[l].processes)
                        EXCEPT !.state = IF Gpu THEN "QUERY" ELSE "IDLE"]
               js == [jobs EXCEPT ![j] = x]
               h  == [jobs |-> js, frames |-> frames]
               k  == ReleaseFrame(h, jobs[j].frame)
    <3>1. Store(ReleaseJob(ReleaseFrame(k, call[l].frame), j))
      BY <1>9, <2>1, <2>4 DEF QueryCommit, Heap, DropGuard
    <3>2. x \in JobRecord
      <4>1. Requested(jobs[j], call[l].processes) \in JobRecord
        BY <1>0, <1>9, Asked, RunningFacts DEF QueryCommit, CallPCs
      <4> QED BY <4>1 DEF JobRecord
    <3> HIDE DEF x
    <3>3. HasJobs(h, js)
      BY <1>0, <3>2 DEF HasJobs
    <3>4. js[i] = jobs[i]
      BY <1>0, <2>4
    <3> HIDE DEF js, h
    <3>5. HasJobs(k, js)
      BY <3>3, ReleasesKeepReplies
    <3> HIDE DEF k
    <3>6. HasJobs(ReleaseFrame(k, call[l].frame), js)
      BY <3>5, ReleasesKeepReplies
    <3>7. jobs'[i].frame = js[i].frame
      BY <3>1, <3>6, ReleasesKeepReplies DEF Store
    <3> QED BY <3>4, <3>7
  <2> QED BY <2>2, <2>3, <2>4
<1>10. CASE QueryAbort(l)
  <2>1. PICK j \in Jobs : j = call[l].job
    BY <1>10, RunningFacts DEF QueryAbort, CallPCs
  <2>2. Store(ReleaseJob(ReleaseFrame(Heap, call[l].frame), j))
    BY <1>10, <2>1 DEF QueryAbort, DropGuard
  <2> QED BY <2>2, ReleaseStepKeeps
<1>11. CASE CloseSignal(l)
  BY <1>11 DEF CloseSignal
<1>12. CASE CloseFinish(l)
  <2>1. PICK j \in Jobs : j = call[l].job
    BY <1>12, RunningFacts DEF CloseFinish, CallPCs
  <2> QED BY <1>12, <2>1, ReleaseStepKeeps DEF CloseFinish
<1>13. CASE \E s \in Sessions, p \in Policies : QueryFails(l, s, p)
  BY <1>1, <1>13, FailsAsRefused
<1> QED BY <1>1, <1>2, <1>3, <1>4, <1>5, <1>6, <1>7, <1>8, <1>9, <1>10, <1>11, <1>12, <1>13
        DEF LuaCall, LuaStep

LEMMA ControllerKeepsReplies ==
    ASSUME IInv, NEW j \in Jobs, ControllerStep(j) \/ Reply(j) \/ ReplyRejected(j) \/ ChildExit(j),
           NEW i \in Jobs, jobs[i].frame # None, jobs'[i].refs > 0
    PROVE  jobs'[i].frame = jobs[i].frame
<1>0. /\ jobs \in [Jobs -> JobRecord] /\ jobs[i] \in JobRecord /\ CurrentReply(Heap, i)
      /\ jobs[i].state = "READY" /\ ThreadOK(j)
  BY DEF IInv, HeapOK, Heap, CurrentReply
<1>1. CASE UNCHANGED jobs
  BY <1>1
<1>2. CASE JobError(j)
  BY <1>0, <1>2 DEF JobError, JobRecord
<1>3. CASE Finish(j)
  BY <1>0, <1>3 DEF Finish, JobRecord
<1>4. CASE Drop(j)
  BY <1>4, ReleaseStepKeeps DEF Drop
<1>5. CASE Publish(j)
  <2>1. i # j
    BY <1>0, <1>5 DEF Publish, At, ThreadOK
  <2> QED BY <1>0, <1>5, <2>1 DEF Publish
<1>6. UNCHANGED jobs \/ JobError(j) \/ Finish(j) \/ Drop(j) \/ Publish(j)
  BY DEF ControllerStep, Spawn, SpawnFails, Configure, Check, TransferError, Quit, Kill, Reap,
         Uncount, Reply, ReplyRejected, ChildExit
<1> QED BY <1>1, <1>2, <1>3, <1>4, <1>5, <1>6

\* A reply leaves its live job only when it was decoded or cannot be used:
\* neither a nested call, nor a close, nor the controller loses it.
THEOREM UnreadRepliesKept == Spec => UnreadReplyKept
<1>1. IInv /\ [Next]_vars => [UnreadReplyKeptStep]_vars
  <2> SUFFICES ASSUME IInv, Next, NEW i \in Jobs, jobs[i].frame # None,
                      jobs'[i].frame # jobs[i].frame, jobs'[i].refs > 0
               PROVE  ReadOrUnusable(i)
    BY DEF UnreadReplyKeptStep, ReadOrUnusable
  <2>1. CASE \E s \in Sessions : Open(s)
    BY <2>1 DEF Open
  <2>2. CASE \E l \in Levels : LuaCall(l) \/ LuaStep(l)
    BY <2>2, LuaKeepsReplies
  <2>3. CASE \E j \in Jobs : ControllerStep(j) \/ Reply(j) \/ ReplyRejected(j) \/ ChildExit(j)
    BY <2>3, ControllerKeepsReplies
  <2>4. CASE Tick
    <3>1. jobs[i] \in JobRecord
      BY DEF IInv, HeapOK, Heap
    <3> DEFINE a == Older(jobs[i].requested, MaxAge)
               b == IF jobs[i].state = "ERROR" THEN Older(jobs[i].failed, RetryNs) ELSE jobs[i].failed
    <3>2. jobs'[i] = IF ~Allocated(i) THEN jobs[i]
                     ELSE [jobs[i] EXCEPT !.requested = a, !.failed = b]
      BY <2>4 DEF Tick
    <3> HIDE DEF a, b
    <3> QED BY <3>1, <3>2 DEF JobRecord
  <2> QED BY <2>1, <2>2, <2>3, <2>4 DEF Next
<1> QED BY <1>1, Invariance, PTL DEF Spec, UnreadReplyKept

-----------------------------------------------------------------------------
(* The client implements the safety of ReaderPool.                          *)

Slot   == [j \in Jobs |-> SlotOf(j)]
Wanted == {j \in Jobs : \E s \in Sessions : ~sessions[s].closed /\ sessions[s].job = j}

\* The instance counts with the same operator.
LEMMA PoolCounts == \A S : Pool!Cardinality(S) = Cardinality(S)
BY DEF Pool!Cardinality, Pool!IsFiniteSet, Cardinality, IsFiniteSet

\* A slot is taken while a controller is counted.
LEMMA TakenIsCounted ==
    ASSUME IInv
    PROVE  Pool!Taken = Counted
<1>1. \A j \in Jobs : SlotOf(j) = "free" <=> ctl[j].pc \in {"none", "drop"}
  BY DEF SlotOf
<1> QED BY <1>1 DEF Pool!Taken, Counted, At

\* The slots when a step changes the place of one controller at most.
LEMMA SlotMoves ==
    ASSUME NEW j \in Jobs, \A i \in Jobs \ {j} : ctl'[i].pc = ctl[i].pc /\ child'[i] = child[i]
    PROVE  Slot' = [Slot EXCEPT ![j] = SlotOf(j)']
<1>1. ASSUME NEW i \in Jobs \ {j} PROVE SlotOf(i)' = SlotOf(i)
  BY DEF SlotOf
<1> QED BY <1>1 DEF Slot

PoolStep == Pool!Next \/ UNCHANGED <<Limit, Slot, Wanted>>

\* A slot's life goes on, and the sessions keep what they hold.
LEMMA SlotLives ==
    ASSUME IInv, UNCHANGED <<source, sessions>>, NEW j \in Jobs,
           \A i \in Jobs \ {j} : ctl'[i].pc = ctl[i].pc /\ child'[i] = child[i],
           \/ SlotOf(j)' = SlotOf(j)
           \/ <<SlotOf(j), SlotOf(j)'>> \in {<<"starting", "running">>, <<"starting", "ending">>,
                                            <<"running", "ending">>, <<"ending", "free">>}
    PROVE  PoolStep
<1>1. Slot' = [Slot EXCEPT ![j] = SlotOf(j)']
  BY SlotMoves
<1>2. Wanted' = Wanted /\ Limit' = Limit /\ Slot[j] = SlotOf(j)
  BY DEF Wanted, Sessions, Limit, Slot
<1>3. CASE SlotOf(j)' = SlotOf(j)
  BY <1>1, <1>2, <1>3 DEF PoolStep, Slot
<1>4. CASE SlotOf(j)' # SlotOf(j)
  BY <1>1, <1>2, <1>4 DEF PoolStep, Pool!Next, Pool!Start, Pool!Fail, Pool!Stop, Pool!Free,
                          Pool!Becomes, Slot, Wanted
<1> QED BY <1>3, <1>4

\* The Lua thread starts no reader but by asking: it can only give up a slot.
LEMMA SlotsKept ==
    ASSUME IInv, UNCHANGED <<source, child>>,
           \A j \in Jobs : \/ ctl'[j] = ctl[j]
                           \/ ctl[j].pc = "blocked" /\ ctl'[j] = Woken(ctl[j])
    PROVE  Slot' = Slot
<1>1. ASSUME NEW j \in Jobs PROVE SlotOf(j)' = SlotOf(j)
  <2>1. CASE ctl'[j] = ctl[j]
    BY <2>1 DEF SlotOf
  <2>2. CASE ctl[j].pc = "blocked" /\ ctl'[j] = Woken(ctl[j])
    <3>1. ctl[j] \in ThreadRecord /\ ThreadOK(j)
      BY DEF IInv, Types
    <3>2. ctl'[j].pc = "check" /\ child[j] # "none" /\ child'[j] = child[j]
      BY <2>2, <3>1 DEF ThreadOK, Woken
    <3> QED BY <2>2, <3>2 DEF SlotOf
  <2> QED BY <2>1, <2>2
<1> QED BY <1>1 DEF Slot

LEMMA Forgets ==
    ASSUME Slot' = Slot, Limit' = Limit, NEW j \in Jobs, Wanted' = Wanted \ {j}
    PROVE  PoolStep
BY DEF PoolStep, Pool!Next, Pool!Forget, Slot, Wanted

LEMMA OpenMapped ==
    ASSUME IInv, UNCHANGED source, NEW s \in Sessions, Open(s)
    PROVE  PoolStep
<1>1. Slot' = Slot /\ Limit' = Limit
  BY DEF Open, Slot, SlotOf, Limit
<1>2. /\ sessions \in [Sessions -> [closed : BOOLEAN, job : Jobs \cup {None}]]
      /\ None \notin Jobs /\ Sessions' = Sessions
      /\ sessions[s].job = None /\ sessions' = [sessions EXCEPT ![s].closed = FALSE]
  BY WorkerAssumption DEF IInv, Types, Open, Sessions
<1>3. /\ \A t \in Sessions \ {s} : sessions'[t] = sessions[t]
      /\ sessions'[s].job = None
  BY <1>2
<1>4. Wanted' = Wanted
  BY <1>2, <1>3 DEF Wanted
<1> QED BY <1>1, <1>4 DEF PoolStep

LEMMA LuaMapped ==
    ASSUME IInv, UNCHANGED source, NEW l \in Levels, LuaCall(l) \/ LuaStep(l)
    PROVE  PoolStep
<1>0. /\ sessions \in [Sessions -> [closed : BOOLEAN, job : Jobs \cup {None}]]
      /\ None \notin Jobs /\ Sessions' = Sessions /\ Limit' = Limit /\ Owned /\ Types
  BY WorkerAssumption DEF IInv, Types, Sessions, Limit
<1>1. CASE \E s \in Sessions : QueryRefused(l, s) \/ CloseMark(l, s)
  <2>1. PICK s \in Sessions : QueryRefused(l, s) \/ CloseMark(l, s)
    BY <1>1
  <2>2. /\ UNCHANGED <<ctl, child>> /\ ~sessions[s].closed
        /\ \/ sessions' = [sessions EXCEPT ![s].job = None]
           \/ sessions' = [sessions EXCEPT ![s].closed = TRUE]
    BY <2>1 DEF QueryRefused, CloseMark
  <2>3. Slot' = Slot
    BY <2>2, SlotsKept
  <2>4. /\ \A t \in Sessions \ {s} : sessions'[t] = sessions[t]
        /\ sessions'[s].closed \/ sessions'[s].job = None
    BY <1>0, <2>2
  <2>5. CASE sessions[s].job = None
    <3>1. Wanted' = Wanted
      BY <1>0, <2>4, <2>5 DEF Wanted
    <3> QED BY <1>0, <2>3, <3>1 DEF PoolStep
  <2>6. CASE sessions[s].job # None
    <3>1. PICK o \in Jobs : o = sessions[s].job
      BY <1>0, <2>6
    <3>2. Wanted' = Wanted \ {o}
      BY <1>0, <2>4, <2>6, <3>1 DEF Wanted, Owned
    <3> QED BY <1>0, <2>3, <3>1, <3>2, Forgets
  <2> QED BY <2>5, <2>6
<1>2. CASE \E s \in Sessions, p \in Policies : QueryReuse(l, s, p)
  <2>1. UNCHANGED <<sessions, ctl, child>>
    BY <1>2 DEF QueryReuse
  <2>2. Slot' = Slot
    BY <2>1, SlotsKept
  <2>3. Wanted' = Wanted
    BY <1>0, <2>1 DEF Wanted
  <2> QED BY <1>0, <2>2, <2>3 DEF PoolStep
<1>3. CASE \E s \in Sessions, p \in Policies : QueryCreate(l, s, p)
  <2>1. PICK s \in Sessions, p \in Policies : QueryCreate(l, s, p)
    BY <1>3
  <2> DEFINE h == AfterExpiry(s)
  <2>2. PICK j \in Jobs : /\ h.jobs[j].refs = 0
                          /\ sessions' = [sessions EXCEPT ![s].job = j]
                          /\ ctl' = [ctl EXCEPT ![j].pc = "spawn"]
    BY <2>1 DEF QueryCreate
  <2>3. PICK o \in Jobs \cup {None} : o = sessions[s].job
    BY <1>0
  <2>4. /\ ~sessions[s].closed /\ controllers < Limit /\ UNCHANGED child
        /\ o \in Jobs => Expired(o)
    BY <2>1, <2>3, WorkerAssumption DEF QueryCreate, RoomForController, NeedsJob
  \* The chosen address has no controller: ExpiryDropped counts it.
  <2>5. ctl[j].pc = "none"
    <3>1. HeapOK(h, [i \in Jobs |-> JobHolders[i] - One(i = o)], FrameHolders)
      BY <2>3, ExpiryDropped
    <3>2. JobHolders[j] - One(j = o) = 0
      BY <2>2, <3>1 DEF HeapOK
    <3>3. IsFiniteSet(Sessions) /\ IsFiniteSet(Levels) /\ SessionsOf(j) \subseteq Sessions
          /\ CallsOn(j) \subseteq Levels /\ (j = o => s \in SessionsOf(j))
      BY <1>0, <2>3, FiniteSources DEF Types, SessionsOf, CallsOn
    <3>4. /\ Cardinality(SessionsOf(j)) \in Nat /\ Cardinality(CallsOn(j)) \in Nat
          /\ j = o => Cardinality(SessionsOf(j)) > 0
      BY <3>3, OneChanged
    <3>5. JobHolders[j] = Cardinality(SessionsOf(j)) + Cardinality(CallsOn(j))
                          + (IF At(j, "none") THEN 0 ELSE 1)
      BY DEF JobHolders
    <3> QED BY <3>2, <3>4, <3>5 DEF One, At
  <2>6. /\ ctl \in [Jobs -> ThreadRecord] /\ \A i \in Jobs : ThreadOK(i)
        /\ ctl'[j].pc = "spawn" /\ \A i \in Jobs \ {j} : ctl'[i] = ctl[i]
    BY <2>2 DEF IInv, Types
  <2>7. /\ Slot[j] = "free" /\ Slot' = [Slot EXCEPT ![j] = "starting"]
    <3>1. Slot' = [Slot EXCEPT ![j] = SlotOf(j)']
      BY <2>4, <2>6, SlotMoves
    <3>2. SlotOf(j)' = "starting"
      BY <2>6 DEF SlotOf
    <3>3. SlotOf(j) = "free"
      BY <2>5 DEF SlotOf
    <3> QED BY <3>1, <3>2, <3>3 DEF Slot
  <2>8. Pool!Cardinality(Pool!Taken) < Limit
    BY <2>4, TakenIsCounted, PoolCounts DEF IInv, CountersOK
  \* What is forgotten is the failed job, whose reader is gone.
  <2>9. o \in Jobs => o \in Wanted /\ SlotOf(o) \in {"free", "ending"}
    <3> SUFFICES ASSUME o \in Jobs PROVE o \in Wanted /\ SlotOf(o) \in {"free", "ending"}
      OBVIOUS
    <3>1. ctl[o].pc \in {"none", "uncount", "drop"}
      BY <2>4, <2>6 DEF Expired, ThreadOK
    <3>2. child[o] = "none"
      BY <2>6, <3>1 DEF ThreadOK
    <3>3. SlotOf(o) \in {"free", "ending"}
      BY <3>1, <3>2 DEF SlotOf
    <3> QED BY <2>3, <2>4, <3>3 DEF Wanted
  <2>10. Wanted' = (Wanted \ (Jobs \cap {o})) \cup {j}
    <3>1. /\ \A t \in Sessions \ {s} : sessions'[t] = sessions[t]
          /\ sessions'[s].job = j /\ ~sessions'[s].closed
      BY <1>0, <2>2, <2>4
    <3> QED BY <1>0, <2>3, <3>1 DEF Wanted, Owned
  <2>11. Pool!Ask(j)
    <3>1. Jobs \cap {o} \in SUBSET {w \in Wanted : Pool!Gone(w)}
      BY <2>9 DEF Pool!Gone, Wanted
    <3>2. \E forgotten \in SUBSET {w \in Wanted : Pool!Gone(w)} :
              Wanted' = (Wanted \ forgotten) \cup {j}
      BY <2>10, <3>1
    <3>3. /\ Slot = [i \in Jobs |-> SlotOf(i)]
          /\ Wanted = {i \in Jobs : \E t \in Sessions : ~sessions[t].closed /\ sessions[t].job = i}
      BY DEF Slot, Wanted
    <3>4. /\ Slot' = [i \in Jobs |-> SlotOf(i)']
          /\ Wanted' = {i \in Jobs : \E t \in Sessions' :
                            ~sessions'[t].closed /\ sessions'[t].job = i}
      BY DEF Slot, Wanted
    <3>5. Slot[j] = "free" /\ Slot' = [Slot EXCEPT ![j] = "starting"]
      BY <2>7
    <3> QED BY <2>8, <3>2, <3>5 DEF Pool!Ask, Slot, Wanted
  <2> QED BY <1>0, <2>11 DEF PoolStep, Pool!Next
<1>4. CASE LuaStep(l)
  <2>1. /\ UNCHANGED child
        /\ \A j \in Jobs : \/ ctl'[j] = ctl[j]
                           \/ ctl[j].pc = "blocked" /\ ctl'[j] = Woken(ctl[j])
    <3>1. UNCHANGED child /\ (ctl' = ctl \/ ctl' = Broadcast(ctl, call[l].job))
      BY <1>4 DEF LuaStep, QueryGuard, QueryNothing, QueryStale, QueryTake, QueryCommit,
                  QueryAbort, CloseSignal, CloseFinish
    <3>2. PICK j \in Jobs : j = call[l].job
      BY <1>4, RunningFacts DEF LuaStep, QueryGuard, QueryNothing, QueryStale, QueryTake,
                  QueryCommit, QueryAbort, CloseSignal, CloseFinish, CallPCs
    <3>3. ctl' = Broadcast(ctl, j) \/ ctl' = ctl
      BY <3>1, <3>2
    <3>4. \A i \in Jobs : \/ ctl'[i] = ctl[i]
                          \/ ctl[i].pc = "blocked" /\ ctl'[i] = Woken(ctl[i])
      BY <1>0, <3>3, BroadcastWakes
    <3> QED BY <3>1, <3>4
  <2>2. Slot' = Slot
    BY <2>1, SlotsKept
  <2>3. Wanted' = Wanted
    <3>1. CASE sessions' = sessions
      BY <1>0, <3>1 DEF Wanted
    <3>2. CASE CloseFinish(l)
      <4>1. CallOK(l) /\ call[l].pc = "closing"
        BY <3>2 DEF CloseFinish, Running, IInv
      <4>2. PICK s \in Sessions : s = call[l].session
        BY <4>1 DEF CallOK
      <4>3. /\ sessions[s].closed /\ sessions' = [sessions EXCEPT ![s].job = None]
        BY <3>2, <4>1, <4>2 DEF CloseFinish, CallOK
      <4>4. /\ \A t \in Sessions \ {s} : sessions'[t] = sessions[t]
            /\ sessions'[s].closed
        BY <1>0, <4>3
      <4> QED BY <1>0, <4>3, <4>4 DEF Wanted
    <3> QED BY <1>4, <3>1, <3>2 DEF LuaStep, QueryGuard, QueryNothing, QueryStale, QueryTake,
                  QueryCommit, QueryAbort, CloseSignal
  <2> QED BY <1>0, <2>2, <2>3 DEF PoolStep
<1>5. CASE \E s \in Sessions, p \in Policies : QueryFails(l, s, p)
  BY <1>1, <1>5, FailsAsRefused
<1> QED BY <1>1, <1>2, <1>3, <1>4, <1>5 DEF LuaCall

LEMMA ControllerMapped ==
    ASSUME IInv, UNCHANGED source, NEW j \in Jobs,
           ControllerStep(j) \/ Reply(j) \/ ReplyRejected(j) \/ ChildExit(j)
    PROVE  PoolStep
<1>1. /\ ctl \in [Jobs -> ThreadRecord] /\ child \in [Jobs -> {"none", "running", "zombie"}]
      /\ ThreadOK(j)
  BY DEF IInv, Types
<1>2. /\ UNCHANGED sessions
      /\ \A i \in Jobs \ {j} : ctl'[i] = ctl[i] /\ child'[i] = child[i]
  BY <1>1 DEF ControllerStep, Spawn, SpawnFails, Configure, Check, TransferError, Publish, Quit,
              Kill, Reap, Finish, Uncount, Drop, Reply, ReplyRejected, ChildExit, JobError, Step
<1>3. CASE Spawn(j) \/ SpawnFails(j)
  <2>1. SlotOf(j) = "starting"
    BY <1>3 DEF Spawn, SpawnFails, At, SlotOf
  <2>2. CASE Spawn(j)
    <3>1. child'[j] = "running" /\ ctl'[j].pc \in {"check", "configure"}
      BY <1>1, <2>2 DEF Spawn, Step
    <3>2. SlotOf(j)' = "running"
      BY <3>1 DEF SlotOf
    <3> QED BY <1>2, <2>1, <3>2, SlotLives
  <2>3. CASE SpawnFails(j)
    <3>1. child'[j] = "none" /\ ctl'[j].pc = "quit"
      BY <1>1, <2>3 DEF SpawnFails, JobError, At, ThreadOK
    <3>2. SlotOf(j)' = "ending"
      BY <3>1 DEF SlotOf
    <3> QED BY <1>2, <2>1, <3>2, SlotLives
  <2> QED BY <1>3, <2>2, <2>3
\* The reader runs, or is a zombie, and stays so.
<1>4. CASE \/ Configure(j) \/ Check(j) \/ TransferError(j) \/ ReplyRejected(j) \/ Reply(j)
           \/ Publish(j) \/ Kill(j) \/ ChildExit(j)
  <2>1. /\ ctl[j].pc \notin {"none", "drop", "spawn"} /\ child[j] # "none"
        /\ child'[j] = child[j] \/ child'[j] = "zombie"
    BY <1>1, <1>4 DEF Configure, Check, TransferError, ReplyRejected, Reply, Publish, Kill,
                      ChildExit, JobError, Step, At, ThreadOK
  <2>3. ctl'[j].pc \notin {"none", "drop", "spawn"}
    <3>1. CASE Configure(j) \/ TransferError(j) \/ ReplyRejected(j)
      BY <1>1, <3>1 DEF Configure, TransferError, ReplyRejected, JobError, Step
    <3>2. CASE Check(j)
      BY <1>1, <3>2 DEF Check
    <3>3. CASE Reply(j)
      <4>1. PICK f \in Frames : ctl' = [ctl EXCEPT ![j].pc = "publish", ![j].frame = f]
        BY <3>3 DEF Reply
      <4>2. ctl'[j].pc = "publish"
        BY <1>1, <4>1
      <4> QED BY <4>2
    <3>4. CASE Publish(j)
      BY <1>1, <3>4 DEF Publish
    <3>5. CASE Kill(j) \/ ChildExit(j)
      BY <1>1, <2>1, <3>5 DEF Kill, ChildExit
    <3> QED BY <1>4, <3>1, <3>2, <3>3, <3>4, <3>5
  <2>2. SlotOf(j) = "running" /\ SlotOf(j)' = "running"
    BY <2>1, <2>3 DEF SlotOf
  <2> QED BY <1>2, <2>2, SlotLives
<1>5. CASE Quit(j)
  <2>1. child'[j] = child[j] /\ ctl[j].pc = "quit" /\ ctl'[j].pc \in {"finish", "reap"}
    BY <1>1, <1>5 DEF Quit, At
  <2>2. SlotOf(j)' = SlotOf(j)
    BY <2>1 DEF SlotOf
  <2> QED BY <1>2, <2>2, SlotLives
<1>6. CASE Reap(j)
  <2>1. /\ child[j] = "zombie" /\ child'[j] = "none" /\ ctl[j].pc = "reap" /\ ctl'[j].pc = "finish"
    BY <1>1, <1>6 DEF Reap, At, Step
  <2>2. SlotOf(j) = "running" /\ SlotOf(j)' = "ending"
    BY <2>1 DEF SlotOf
  <2> QED BY <1>2, <2>2, SlotLives
<1>7. CASE Finish(j) \/ Uncount(j)
  <2>1. /\ child[j] = "none" /\ child'[j] = "none" /\ ctl[j].pc \in {"finish", "uncount"}
        /\ ctl'[j].pc \in {"uncount", "drop"}
    BY <1>1, <1>7 DEF Finish, Uncount, At, Step, ThreadOK
  <2>2. SlotOf(j) = "ending" /\ SlotOf(j)' \in {"ending", "free"}
    BY <2>1 DEF SlotOf
  <2> QED BY <1>2, <2>2, SlotLives
<1>8. CASE Drop(j)
  <2>1. ctl[j].pc = "drop" /\ ctl'[j].pc = "none"
    BY <1>1, <1>8 DEF Drop, At, NoThread
  <2>2. SlotOf(j)' = SlotOf(j)
    BY <2>1 DEF SlotOf
  <2> QED BY <1>2, <2>2, SlotLives
<1> QED BY <1>3, <1>4, <1>5, <1>6, <1>7, <1>8 DEF ControllerStep

\* The client keeps a bounded pool of readers: whatever sessions open, ask,
\* close, fail and ask again, a reader is started only while fewer than Limit
\* slots are taken, in a slot that was free, once per job, and a slot is free
\* again only when its reader is gone.
THEOREM ImplementsPoolSafely == Spec => Pool!SafeSpec
<1>1. Init => Pool!Init
  <2> SUFFICES ASSUME Init PROVE Pool!Init
    OBVIOUS
  <2>1. Limit \in Nat \ {0}
    BY FiniteSources DEF Init
  <2>2. \A j \in Jobs : SlotOf(j) = "free"
    BY DEF Init, SlotOf, NoThread
  <2>3. Wanted = {}
    BY WorkerAssumption DEF Init, Wanted
  <2> QED BY <2>1, <2>2, <2>3 DEF Pool!Init, Wanted
<1>2. IInv /\ [Next]_vars => PoolStep
  <2> SUFFICES ASSUME IInv, [Next]_vars PROVE PoolStep
    OBVIOUS
  <2>1. CASE UNCHANGED vars
    BY <2>1 DEF PoolStep, vars, moving, Slot, SlotOf, Wanted, Limit, Sessions
  <2>2. CASE Next
    <3>1. UNCHANGED source
      BY <2>2 DEF Next
    <3>2. CASE \E s \in Sessions : Open(s)
      BY <3>1, <3>2, OpenMapped
    <3>3. CASE \E l \in Levels : LuaCall(l) \/ LuaStep(l)
      BY <3>1, <3>3, LuaMapped
    <3>4. CASE \E j \in Jobs : ControllerStep(j) \/ Reply(j) \/ ReplyRejected(j) \/ ChildExit(j)
      BY <3>1, <3>4, ControllerMapped
    <3>5. CASE Tick
      <4>1. \A j \in Jobs : ctl'[j].pc = ctl[j].pc
        BY <3>5 DEF IInv, Types, Tick
      <4>2. UNCHANGED <<sessions, child>>
        BY <3>5 DEF Tick
      <4>3. Slot' = Slot
        BY <4>1, <4>2 DEF Slot, SlotOf
      <4> QED BY <3>1, <4>2, <4>3 DEF PoolStep, Wanted, Sessions, Limit
    <3> QED BY <2>2, <3>2, <3>3, <3>4, <3>5 DEF Next
  <2> QED BY <2>1, <2>2
<1>3. PoolStep => [Pool!Next]_<<Limit, [j \in Jobs |-> SlotOf(j)],
          {j \in Jobs : \E s \in Sessions : ~sessions[s].closed /\ sessions[s].job = j}>>
  BY DEF PoolStep, Slot, Wanted
<1> QED BY <1>1, <1>2, <1>3, Invariance, PTL DEF Spec, Pool!SafeSpec

-----------------------------------------------------------------------------
(* The client implements ReaderSession.                                     *)

OpenSessions == {s \in Sessions : ~sessions[s].closed}
Requests     == [s \in Sessions |-> RequestOf(s)]

SessionStep == Session!Next \/ UNCHANGED <<OpenSessions, Requests>>

JobStates == {"IDLE", "QUERY", "READY", "ERROR"}

\* How the state of a job may change while its session holds it.
StateMoves == {<<"IDLE", "QUERY">>, <<"READY", "QUERY">>, <<"READY", "IDLE">>,
               <<"QUERY", "READY">>, <<"QUERY", "ERROR">>}

\* The states of the jobs that are left after a step, job j's being `to'.
Moves(j, to) ==
    \A i \in Jobs : jobs'[i].refs > 0 => jobs'[i].state = IF i = j THEN to ELSE jobs[i].state

\* A session's job is allocated.
HoldsAllocated == \A s \in Sessions : sessions[s].job \in Jobs => jobs[sessions[s].job].refs > 0

LEMMA SessionsHold == IInv => HoldsAllocated
<1> SUFFICES ASSUME IInv, NEW s \in Sessions, sessions[s].job \in Jobs
             PROVE  jobs[sessions[s].job].refs > 0
  BY DEF HoldsAllocated
<1>1. PICK j \in Jobs : j = sessions[s].job
  OBVIOUS
<1>2. /\ IsFiniteSet(Sessions) /\ IsFiniteSet(Levels)
      /\ SessionsOf(j) \subseteq Sessions /\ CallsOn(j) \subseteq Levels /\ s \in SessionsOf(j)
  BY <1>1, FiniteSources DEF IInv, Types, SessionsOf, CallsOn
<1>3. /\ Cardinality(SessionsOf(j)) \in Nat /\ Cardinality(CallsOn(j)) \in Nat
      /\ Cardinality(SessionsOf(j)) > 0
  BY <1>2, OneChanged
<1>4. jobs[j].refs = JobHolders[j]
  BY DEF IInv, HeapOK, Heap
<1>5. JobHolders[j] = Cardinality(SessionsOf(j)) + Cardinality(CallsOn(j))
                      + (IF At(j, "none") THEN 0 ELSE 1)
  BY DEF JobHolders
<1> QED BY <1>1, <1>3, <1>4, <1>5

LEMMA StillHold == IInv' => HoldsAllocated'
BY SessionsHold, PTL

\* The state of one job changes: one session's request, at most, with it.
LEMMA RequestMoves ==
    ASSUME IInv, IInv', UNCHANGED <<source, sessions>>, NEW j \in Jobs, NEW to \in JobStates,
           Moves(j, to), to = jobs[j].state \/ <<jobs[j].state, to>> \in StateMoves
    PROVE  SessionStep
<1>1. /\ sessions \in [Sessions -> [closed : BOOLEAN, job : Jobs \cup {None}]]
      /\ Owned /\ None \notin Jobs /\ Sessions' = Sessions /\ jobs[j] \in JobRecord
      /\ sessions' = sessions /\ HoldsAllocated'
  BY StillHold, WorkerAssumption DEF IInv, Types, Sessions, HeapOK, Heap
<1>2. OpenSessions' = OpenSessions
  BY <1>1 DEF OpenSessions
<1>3. ASSUME NEW s \in Sessions
      PROVE  /\ sessions[s].closed \/ sessions[s].job # j => RequestOf(s)' = RequestOf(s)
             /\ ~sessions[s].closed /\ sessions[s].job = j =>
                  RequestOf(s)' = Phase[to] /\ RequestOf(s) = Phase[jobs[j].state]
  <2>1. CASE sessions[s].closed \/ sessions[s].job = None
    BY <1>1, <2>1 DEF RequestOf
  <2>2. CASE ~sessions[s].closed /\ sessions[s].job # None
    <3>1. PICK i \in Jobs : i = sessions[s].job
      BY <1>1, <2>2
    <3>2. jobs'[i].refs > 0
      BY <1>1, <3>1 DEF HoldsAllocated
    <3>3. jobs'[i].state = IF i = j THEN to ELSE jobs[i].state
      BY <3>2 DEF Moves
    <3> QED BY <1>1, <2>2, <3>1, <3>3 DEF RequestOf
  <2> QED BY <2>1, <2>2
<1>4. CASE ~\E s \in Sessions : ~sessions[s].closed /\ sessions[s].job = j
  <2>1. Requests' = Requests
    BY <1>1, <1>3, <1>4 DEF Requests
  <2> QED BY <1>2, <2>1 DEF SessionStep
<1>5. CASE \E s \in Sessions : ~sessions[s].closed /\ sessions[s].job = j
  <2>1. PICK s \in Sessions : ~sessions[s].closed /\ sessions[s].job = j
    BY <1>5
  <2>2. \A t \in Sessions \ {s} : RequestOf(t)' = RequestOf(t)
    BY <1>1, <1>3, <2>1 DEF Owned
  <2>3. RequestOf(s)' = Phase[to] /\ RequestOf(s) = Phase[jobs[j].state]
    BY <1>3, <2>1
  <2>4. Requests' = [Requests EXCEPT ![s] = Phase[to]]
    BY <1>1, <2>2, <2>3 DEF Requests
  <2>5. s \in OpenSessions /\ Requests[s] = Phase[jobs[j].state] /\ DOMAIN Requests = Sessions
    BY <2>1, <2>3 DEF OpenSessions, Requests
  <2>6. CASE to = jobs[j].state
    <3>1. Requests' = Requests
      BY <1>1, <2>2, <2>3, <2>6 DEF Requests
    <3> QED BY <1>2, <3>1 DEF SessionStep
  <2>7. CASE <<jobs[j].state, to>> \in StateMoves
    <3>1. \/ Requests[s] \in {"idle", "answered", "failed"} /\ Phase[to] = "asked"
          \/ Requests[s] \in {"answered"} /\ Phase[to] = "idle"
          \/ Requests[s] \in {"asked"} /\ Phase[to] = "answered"
          \/ Requests[s] \in {"asked"} /\ Phase[to] = "failed"
      BY <2>5, <2>7 DEF StateMoves, Phase
    <3>2. Session!Ask(s) \/ Session!Take(s) \/ Session!Answer(s) \/ Session!Fail(s)
      BY <1>2, <2>4, <2>5, <3>1
      DEF Session!Ask, Session!Take, Session!Answer, Session!Fail, Session!Becomes,
          Requests, OpenSessions
    <3>3. s \in Session!Sessions
      BY <2>5 DEF Session!Sessions, Requests
    <3> QED BY <3>2, <3>3 DEF SessionStep, Session!Next
  <2> QED BY <2>6, <2>7
<1> QED BY <1>4, <1>5

\* A step that changes one session, and no state of the others' jobs.
LEMMA OthersRequests ==
    ASSUME IInv, IInv', UNCHANGED source, NEW s \in Sessions,
           \A t \in Sessions \ {s} : sessions'[t] = sessions[t],
           \A t \in Sessions \ {s} : sessions[t].job \in Jobs /\ jobs'[sessions[t].job].refs > 0 =>
               jobs'[sessions[t].job].state = jobs[sessions[t].job].state
    PROVE  /\ Requests' = [Requests EXCEPT ![s] = RequestOf(s)']
           /\ DOMAIN Requests = Sessions /\ Requests[s] = RequestOf(s) /\ Requests'[s] = RequestOf(s)'
           /\ OpenSessions' = IF sessions'[s].closed THEN OpenSessions \ {s}
                              ELSE OpenSessions \cup {s}
<1>1. /\ sessions \in [Sessions -> [closed : BOOLEAN, job : Jobs \cup {None}]]
      /\ None \notin Jobs /\ Sessions' = Sessions /\ HoldsAllocated'
  BY StillHold, WorkerAssumption DEF IInv, Types, Sessions
<1>2. ASSUME NEW t \in Sessions \ {s} PROVE RequestOf(t)' = RequestOf(t)
  <2>1. sessions'[t] = sessions[t]
    OBVIOUS
  <2>2. CASE sessions[t].job = None
    BY <2>1, <2>2 DEF RequestOf
  <2>3. CASE sessions[t].job # None
    <3>1. PICK i \in Jobs : i = sessions[t].job
      BY <1>1, <2>3
    <3>2. jobs'[i].refs > 0
      BY <1>1, <2>1, <3>1 DEF HoldsAllocated
    <3>3. jobs'[i].state = jobs[i].state
      BY <3>1, <3>2
    <3> QED BY <2>1, <3>1, <3>3 DEF RequestOf
  <2> QED BY <2>2, <2>3
<1>3. Requests' = [t \in Sessions |-> RequestOf(t)']
  BY <1>1 DEF Requests
<1>4. OpenSessions' = IF sessions'[s].closed THEN OpenSessions \ {s} ELSE OpenSessions \cup {s}
  BY <1>1 DEF OpenSessions
<1> QED BY <1>2, <1>3, <1>4 DEF Requests

\* What is left after the record of job j was replaced and references dropped.
LEMMA StoredStates ==
    ASSUME IInv, NEW j \in Jobs, NEW x \in JobRecord, NEW f, NEW g,
           Store(ReleaseJob(ReleaseFrame(ReleaseFrame(
                     [jobs |-> [jobs EXCEPT ![j] = x], frames |-> frames], f), g), j))
    PROVE  Moves(j, x.state)
<1> DEFINE js == [jobs EXCEPT ![j] = x]
           h  == [jobs |-> js, frames |-> frames]
           k  == ReleaseFrame(h, f)
<1>1. jobs \in [Jobs -> JobRecord]
  BY DEF IInv, HeapOK, Heap
<1>2. HasJobs(h, js) /\ \A i \in Jobs : js[i].state = IF i = j THEN x.state ELSE jobs[i].state
  BY <1>1 DEF HasJobs
<1>3. jobs' = ReleaseJob(ReleaseFrame(k, g), j).jobs
  BY DEF Store
<1> HIDE DEF js, h
<1>4. HasJobs(k, js)
  BY <1>2, ReleasesKeepReplies
<1> HIDE DEF k
<1>5. HasJobs(ReleaseFrame(k, g), js)
  BY <1>4, ReleasesKeepReplies
<1>6. \A i \in Jobs : jobs'[i].refs > 0 => jobs'[i].state = js[i].state
  BY <1>3, <1>5, ReleasesKeepReplies
<1> QED BY <1>2, <1>6 DEF Moves

\* Dropping references changes no state.
LEMMA ReleasedStates ==
    ASSUME IInv, NEW j \in Jobs,
           \/ Store(ReleaseJob(Heap, j))
           \/ \E f : Store(ReleaseJob(ReleaseFrame(Heap, f), j))
    PROVE  \A to : to = jobs[j].state => Moves(j, to)
BY ReleaseStepKeeps DEF Moves

\* What a call does to the state of its job, sessions staying what they are.
LEMMA LuaMoves ==
    ASSUME IInv, NEW l \in Levels, LuaStep(l), ~CloseFinish(l)
    PROVE  /\ UNCHANGED sessions
           /\ \E j \in Jobs, to \in JobStates :
                 Moves(j, to) /\ (to = jobs[j].state \/ <<jobs[j].state, to>> \in StateMoves)
<1> DEFINE Moved == \E j \in Jobs, to \in JobStates :
                       Moves(j, to) /\ (to = jobs[j].state \/ <<jobs[j].state, to>> \in StateMoves)
<1>0. /\ jobs \in [Jobs -> JobRecord]
      /\ \A j \in Jobs : CurrentReply(Heap, j) /\ jobs[j].state \in JobStates
  BY DEF IInv, HeapOK, Heap, JobRecord, JobStates
<1>a. PICK j \in Jobs : j = call[l].job
  BY RunningFacts DEF LuaStep, QueryGuard, QueryNothing, QueryStale, QueryTake, QueryCommit,
                      QueryAbort, CloseSignal, CloseFinish, CallPCs
<1>1. CASE QueryTake(l) \/ CloseSignal(l)
  <2>1. UNCHANGED <<sessions, jobs>>
    BY <1>1 DEF QueryTake, CloseSignal
  <2>2. Moves(j, jobs[j].state)
    BY <2>1 DEF Moves
  <2> QED BY <1>0, <2>1, <2>2
<1>2. CASE QueryNothing(l) \/ QueryAbort(l)
  <2>1. /\ UNCHANGED sessions
        /\ \/ Store(ReleaseJob(Heap, j))
           \/ \E f : Store(ReleaseJob(ReleaseFrame(Heap, f), j))
    BY <1>a, <1>2 DEF QueryNothing, QueryAbort, DropGuard
  <2>2. Moves(j, jobs[j].state)
    BY <2>1, ReleasedStates
  <2> QED BY <1>0, <2>1, <2>2
<1>3. CASE QueryGuard(l)
  <2> DEFINE held == [jobs[j] EXCEPT !.refs = @ + 1]
             to   == IF jobs[j].state = "IDLE" THEN "QUERY" ELSE jobs[j].state
  <2>1. /\ UNCHANGED sessions
        /\ jobs' = [jobs EXCEPT ![j] = IF jobs[j].state = "IDLE"
                                       THEN Requested(held, call[l].processes) ELSE held]
    BY <1>a, <1>3 DEF QueryGuard
  <2>2. held.state = jobs[j].state /\ Requested(held, call[l].processes).state = "QUERY"
    BY <1>0 DEF JobRecord, Requested
  <2> HIDE DEF held
  <2>3. Moves(j, to)
    BY <1>0, <2>1, <2>2 DEF Moves
  <2>4. to \in JobStates /\ (to = jobs[j].state \/ <<jobs[j].state, to>> \in StateMoves)
    BY <1>0 DEF JobStates, StateMoves
  <2> QED BY <2>1, <2>3, <2>4
<1>4. CASE QueryStale(l)
  <2> DEFINE x == Requested(jobs[j], call[l].processes)
  <2>1. x \in JobRecord /\ x.state = "QUERY" /\ jobs[j].state = "READY" /\ UNCHANGED sessions
    <3>1. x \in JobRecord
      BY <1>0, <1>4, <1>a, Asked, RunningFacts DEF QueryStale, CallPCs
    <3>2. x.state = "QUERY"
      BY <1>0 DEF Requested, JobRecord
    <3> QED BY <1>4, <1>a, <3>1, <3>2 DEF QueryStale
  <2>2. Store(ReleaseJob(ReleaseFrame([jobs |-> [jobs EXCEPT ![j] = x], frames |-> frames],
                                      jobs[j].frame), j))
    BY <1>4, <1>a DEF QueryStale, Heap
  <2> HIDE DEF x
  <2>3. Store(ReleaseJob(ReleaseFrame(ReleaseFrame(
                 [jobs |-> [jobs EXCEPT ![j] = x], frames |-> frames], jobs[j].frame), None), j))
    BY <2>2 DEF ReleaseFrame
  <2>4. Moves(j, "QUERY")
    BY <2>1, <2>3, StoredStates
  <2> QED BY <2>1, <2>4 DEF JobStates, StateMoves
<1>5. CASE QueryCommit(l)
  <2>1. CASE ~Consumes(l)
    <3>1. Store(ReleaseJob(ReleaseFrame(Heap, call[l].frame), j)) /\ UNCHANGED sessions
      BY <1>5, <1>a, <2>1 DEF QueryCommit, DropGuard
    <3>2. Moves(j, jobs[j].state)
      BY <3>1, ReleasedStates
    <3> QED BY <1>0, <3>1, <3>2
  <2>2. CASE Consumes(l)
    <3> DEFINE y == IF Gpu THEN "QUERY" ELSE "IDLE"
               x == [Requested(jobs[j], call[l].processes) EXCEPT !.state = y]
    <3>1. /\ Store(ReleaseJob(ReleaseFrame(ReleaseFrame(
                 [jobs |-> [jobs EXCEPT ![j] = x], frames |-> frames], jobs[j].frame),
                 call[l].frame), j))
          /\ UNCHANGED sessions
      BY <1>5, <1>a, <2>2 DEF QueryCommit, Heap, DropGuard
    <3>2. Requested(jobs[j], call[l].processes) \in JobRecord
      BY <1>0, <1>5, <1>a, Asked, RunningFacts DEF QueryCommit, CallPCs
    <3>3. x \in JobRecord /\ x.state = y /\ y \in {"QUERY", "IDLE"}
      BY <3>2 DEF JobRecord
    <3>4. jobs[j].state = "READY"
      <4>1. call[l].frame # None /\ call[l].frame = jobs[j].frame
        BY <1>5, <1>a, <2>2 DEF QueryCommit, Running, IInv, CallOK, Consumes
      <4> QED BY <1>0, <4>1 DEF CurrentReply, Heap
    <3> HIDE DEF x, y
    <3>5. Moves(j, y)
      BY <3>1, <3>3, StoredStates
    <3> QED BY <3>1, <3>3, <3>4, <3>5 DEF JobStates, StateMoves
  <2> QED BY <2>1, <2>2
<1> QED BY <1>1, <1>2, <1>3, <1>4, <1>5 DEF LuaStep

\* What the controller and its reader do to the state of their job.
LEMMA ControllerMoves ==
    ASSUME IInv, NEW j \in Jobs,
           ControllerStep(j) \/ Reply(j) \/ ReplyRejected(j) \/ ChildExit(j)
    PROVE  /\ UNCHANGED sessions
           /\ \E to \in JobStates :
                 Moves(j, to) /\ (to = jobs[j].state \/ <<jobs[j].state, to>> \in StateMoves)
<1>0. /\ jobs \in [Jobs -> JobRecord] /\ jobs[j].state \in JobStates /\ ThreadOK(j)
  BY DEF IInv, HeapOK, Heap, JobRecord, JobStates
<1>a. UNCHANGED sessions
  BY DEF ControllerStep, Spawn, SpawnFails, Configure, Check, TransferError, Publish, Quit, Kill,
         Reap, Finish, Uncount, Drop, Reply, ReplyRejected, ChildExit
<1>1. CASE UNCHANGED jobs
  <2>1. Moves(j, jobs[j].state)
    BY <1>1 DEF Moves
  <2> QED BY <1>0, <1>a, <2>1
<1>2. CASE SpawnFails(j) \/ TransferError(j) \/ ReplyRejected(j)
  <2>1. jobs' = [jobs EXCEPT ![j].state = "ERROR", ![j].failed = 0] /\ jobs[j].state = "QUERY"
    BY <1>0, <1>2 DEF SpawnFails, TransferError, ReplyRejected, JobError, At, ThreadOK
  <2>2. Moves(j, "ERROR")
    BY <1>0, <2>1 DEF Moves, JobRecord
  <2> QED BY <1>a, <2>1, <2>2 DEF JobStates, StateMoves
<1>3. CASE Finish(j)
  <2>1. jobs' = [jobs EXCEPT ![j].done = TRUE]
    BY <1>3 DEF Finish
  <2>2. Moves(j, jobs[j].state)
    BY <1>0, <2>1 DEF Moves, JobRecord
  <2> QED BY <1>0, <1>a, <2>2
<1>4. CASE Drop(j)
  <2>1. Moves(j, jobs[j].state)
    BY <1>4, ReleasedStates DEF Drop
  <2> QED BY <1>0, <1>a, <2>1
<1>5. CASE Publish(j)
  <2>1. jobs' = [jobs EXCEPT ![j].frame = ctl[j].frame, ![j].state = "READY"]
        /\ jobs[j].state = "QUERY"
    BY <1>0, <1>5 DEF Publish, At, ThreadOK
  <2>2. Moves(j, "READY")
    BY <1>0, <2>1 DEF Moves, JobRecord
  <2> QED BY <1>a, <2>1, <2>2 DEF JobStates, StateMoves
<1>6. \/ UNCHANGED jobs \/ SpawnFails(j) \/ TransferError(j) \/ ReplyRejected(j)
      \/ Finish(j) \/ Drop(j) \/ Publish(j)
  BY DEF ControllerStep, Spawn, Configure, Check, Quit, Kill, Reap, Uncount, Reply, ChildExit
<1> QED BY <1>1, <1>2, <1>3, <1>4, <1>5, <1>6

\* A fresh session is idle, and no other changes.
LEMMA OpenSession ==
    ASSUME IInv, IInv', UNCHANGED source, NEW s \in Sessions, Open(s)
    PROVE  SessionStep
<1>1. /\ sessions[s].job = None /\ UNCHANGED jobs
      /\ sessions' = [sessions EXCEPT ![s].closed = FALSE]
      /\ sessions \in [Sessions -> [closed : BOOLEAN, job : Jobs \cup {None}]]
  BY DEF Open, IInv, Types
<1>2. /\ ~sessions'[s].closed /\ sessions'[s].job = None
      /\ \A t \in Sessions \ {s} : sessions'[t] = sessions[t]
  BY <1>1
<1>3. /\ Requests' = [Requests EXCEPT ![s] = RequestOf(s)']
      /\ DOMAIN Requests = Sessions /\ Requests[s] = RequestOf(s)
      /\ OpenSessions' = OpenSessions \cup {s}
  BY <1>1, <1>2, OthersRequests
<1>4. RequestOf(s) = "idle" /\ RequestOf(s)' = "idle"
  BY <1>1, <1>2 DEF RequestOf
<1>5. Requests' = Requests
  BY <1>3, <1>4 DEF Requests
<1>6. Session!Open(s)
  BY <1>3, <1>5 DEF Session!Open, Requests, OpenSessions
<1>7. s \in Session!Sessions
  BY <1>3 DEF Session!Sessions, Requests
<1> QED BY <1>6, <1>7 DEF SessionStep, Session!Next

\* A closed session is idle at once, whatever becomes of its job.
LEMMA CloseMarkSession ==
    ASSUME IInv, IInv', UNCHANGED source, NEW l \in Levels, NEW s \in Sessions, CloseMark(l, s)
    PROVE  SessionStep
<1>1. /\ sessions' = [sessions EXCEPT ![s].closed = TRUE]
      /\ sessions \in [Sessions -> [closed : BOOLEAN, job : Jobs \cup {None}]]
      /\ jobs \in [Jobs -> JobRecord]
      /\ jobs' = jobs \/ \E j \in Jobs : jobs' = [jobs EXCEPT ![j].cancelled = TRUE]
  BY DEF CloseMark, IInv, Types, HeapOK, Heap
<1>2. sessions'[s].closed /\ \A t \in Sessions \ {s} : sessions'[t] = sessions[t]
  BY <1>1
<1>3. \A i \in Jobs : jobs'[i].state = jobs[i].state
  BY <1>1 DEF JobRecord
<1>4. /\ Requests' = [Requests EXCEPT ![s] = RequestOf(s)']
      /\ DOMAIN Requests = Sessions
      /\ OpenSessions' = OpenSessions \ {s}
  BY <1>2, <1>3, OthersRequests
<1>5. RequestOf(s)' = "idle"
  BY <1>2 DEF RequestOf
<1>6. Requests' = [t \in Sessions |-> IF t \in {s} THEN "idle" ELSE Requests[t]]
  BY <1>4, <1>5 DEF Requests
<1>7. Session!Sessions = Sessions
  BY <1>4 DEF Session!Sessions, Requests
<1>8. Session!Close({s})
  BY <1>4, <1>6, <1>7 DEF Session!Close, Requests, OpenSessions
<1>9. {s} \in SUBSET Session!Sessions
  BY <1>7
<1> QED BY <1>8, <1>9 DEF SessionStep, Session!Next

\* A closed session gives its job up: it was idle and still is.
LEMMA CloseFinishSession ==
    ASSUME IInv, IInv', UNCHANGED source, NEW l \in Levels, CloseFinish(l)
    PROVE  SessionStep
<1>1. PICK s \in Sessions, j \in Jobs : s = call[l].session /\ j = call[l].job
  BY DEF CloseFinish, Running, IInv, CallOK
<1>2. /\ sessions[s].closed
      /\ sessions' = [sessions EXCEPT ![s].job = None]
      /\ Store(ReleaseJob(Heap, j))
      /\ sessions \in [Sessions -> [closed : BOOLEAN, job : Jobs \cup {None}]]
  BY <1>1 DEF CloseFinish, Running, IInv, CallOK, Types
<1>3. sessions'[s].closed /\ \A t \in Sessions \ {s} : sessions'[t] = sessions[t]
  BY <1>2
<1>4. \A i \in Jobs : jobs'[i].refs > 0 => jobs'[i].state = jobs[i].state
  BY <1>2, ReleaseStepKeeps
<1>5. /\ Requests' = [Requests EXCEPT ![s] = RequestOf(s)']
      /\ DOMAIN Requests = Sessions /\ Requests[s] = RequestOf(s)
      /\ OpenSessions' = OpenSessions \ {s}
  BY <1>3, <1>4, OthersRequests
<1>6. RequestOf(s)' = "idle" /\ RequestOf(s) = "idle" /\ s \notin OpenSessions
  BY <1>2, <1>3 DEF RequestOf, OpenSessions
<1>7. Requests' = Requests /\ OpenSessions' = OpenSessions
  BY <1>5, <1>6 DEF Requests
<1> QED BY <1>7 DEF SessionStep

\* A session that may be given a job is idle, or failed a while ago.
LEMMA IdleOrFailed ==
    ASSUME IInv, NEW s \in Sessions, ~sessions[s].closed, NeedsJob(s)
    PROVE  /\ sessions[s].job = None => RequestOf(s) = "idle"
           /\ sessions[s].job # None => RequestOf(s) = "failed"
BY DEF NeedsJob, Expired, RequestOf, Phase

\* The failed job is dropped and no other takes its place.
LEMMA QueryRefusedSession ==
    ASSUME IInv, IInv', UNCHANGED source, NEW l \in Levels, NEW s \in Sessions, QueryRefused(l, s)
    PROVE  SessionStep
<1>1. /\ ~sessions[s].closed /\ NeedsJob(s)
      /\ sessions' = [sessions EXCEPT ![s].job = None]
      /\ Store(AfterExpiry(s))
      /\ sessions \in [Sessions -> [closed : BOOLEAN, job : Jobs \cup {None}]]
  BY DEF QueryRefused, IInv, Types
<1>2. /\ ~sessions'[s].closed /\ sessions'[s].job = None
      /\ \A t \in Sessions \ {s} : sessions'[t] = sessions[t]
  BY <1>1
<1>3. \A i \in Jobs : jobs'[i].refs > 0 => jobs'[i].state = jobs[i].state
  <2>1. CASE sessions[s].job = None
    BY <1>1, <2>1 DEF AfterExpiry, Store, Heap
  <2>2. CASE sessions[s].job # None
    <3>1. PICK j \in Jobs : j = sessions[s].job
      BY <1>1, <2>2
    <3>2. Store(ReleaseJob(Heap, j))
      BY <1>1, <2>2, <3>1 DEF AfterExpiry
    <3> QED BY <3>2, ReleaseStepKeeps
  <2> QED BY <2>1, <2>2
<1>4. /\ Requests' = [Requests EXCEPT ![s] = RequestOf(s)']
      /\ DOMAIN Requests = Sessions /\ Requests[s] = RequestOf(s)
      /\ OpenSessions' = OpenSessions \cup {s}
  BY <1>2, <1>3, OthersRequests
<1>5. s \in OpenSessions /\ OpenSessions' = OpenSessions
  BY <1>1, <1>4 DEF OpenSessions
<1>6. RequestOf(s)' = "idle" /\ Requests[s] \in {"idle", "failed"}
  BY <1>1, <1>2, <1>4, IdleOrFailed DEF RequestOf
<1>7. CASE Requests[s] = "idle"
  <2>1. Requests' = Requests
    BY <1>4, <1>6, <1>7 DEF Requests
  <2> QED BY <1>5, <2>1 DEF SessionStep
<1>8. CASE Requests[s] = "failed"
  <2>1. Session!Forget(s)
    BY <1>4, <1>5, <1>6, <1>8 DEF Session!Forget, Session!Becomes, Requests, OpenSessions
  <2>2. s \in Session!Sessions
    BY <1>4 DEF Session!Sessions, Requests
  <2> QED BY <2>1, <2>2 DEF SessionStep, Session!Next
<1> QED BY <1>6, <1>7, <1>8

\* A new job is a new request.
LEMMA QueryCreateSession ==
    ASSUME IInv, IInv', UNCHANGED source, NEW l \in Levels, NEW s \in Sessions, NEW p \in Policies,
           QueryCreate(l, s, p)
    PROVE  SessionStep
<1> DEFINE h == AfterExpiry(s)
<1>1. /\ ~sessions[s].closed /\ NeedsJob(s)
      /\ sessions \in [Sessions -> [closed : BOOLEAN, job : Jobs \cup {None}]]
      /\ jobs \in [Jobs -> JobRecord] /\ None \notin Jobs /\ Owned'
  BY WorkerAssumption DEF QueryCreate, IInv, Types, HeapOK, Heap
<1>2. PICK j \in Jobs : /\ Store([h EXCEPT !.jobs[j] = NewJob(p)])
                        /\ sessions' = [sessions EXCEPT ![s].job = j]
  BY DEF QueryCreate
<1>3. PICK o \in Jobs \cup {None} : o = sessions[s].job
  BY <1>1
<1>4. h \in [jobs : [Jobs -> JobRecord], frames : [Frames -> FrameRecord]] /\ Kept(Heap, h)
  BY <1>3, ExpiryDropped DEF HeapOK
<1> HIDE DEF h
<1>5. jobs'[j] = NewJob(p) /\ \A i \in Jobs \ {j} : jobs'[i] = h.jobs[i]
  BY <1>2, <1>4 DEF Store
<1>6. /\ ~sessions'[s].closed /\ sessions'[s].job = j
      /\ \A t \in Sessions \ {s} : sessions'[t] = sessions[t]
  BY <1>1, <1>2
<1>7. ASSUME NEW i \in Jobs \ {j}, jobs'[i].refs > 0 PROVE jobs'[i].state = jobs[i].state
  <2>1. h.jobs[i].refs > 0 /\ jobs'[i] = h.jobs[i]
    BY <1>5, <1>7
  <2>2. jobs'[i] = [jobs[i] EXCEPT !.refs = h.jobs[i].refs] /\ jobs[i] \in JobRecord
    BY <1>1, <1>4, <2>1 DEF Kept, Heap
  <2> QED BY <2>2 DEF JobRecord
<1>8. \A t \in Sessions \ {s} : sessions[t].job # j
  <2>1. Sessions' = Sessions
    BY DEF Sessions
  <2> QED BY <1>1, <1>6, <2>1 DEF Owned
<1>9. /\ Requests' = [Requests EXCEPT ![s] = RequestOf(s)']
      /\ DOMAIN Requests = Sessions /\ Requests[s] = RequestOf(s)
      /\ OpenSessions' = OpenSessions \cup {s}
  BY <1>6, <1>7, <1>8, OthersRequests
<1>10. s \in OpenSessions /\ OpenSessions' = OpenSessions
  BY <1>1, <1>9 DEF OpenSessions
<1>11. RequestOf(s)' = "asked" /\ Requests[s] \in {"idle", "failed"}
  <2>1. NewJob(p).state = "QUERY"
    BY DEF NewJob, FreeJob
  <2> QED BY <1>1, <1>5, <1>6, <1>9, <2>1, IdleOrFailed DEF RequestOf, Phase
<1>12. Session!Ask(s)
  BY <1>9, <1>10, <1>11 DEF Session!Ask, Session!Becomes, Requests, OpenSessions
<1>13. s \in Session!Sessions
  BY <1>9 DEF Session!Sessions, Requests
<1> QED BY <1>12, <1>13 DEF SessionStep, Session!Next

\* Every step of the client is a step of some session's contract, or none.
LEMMA SessionSteps ==
    ASSUME IInv, IInv', [Next]_vars
    PROVE  SessionStep
<1>1. CASE UNCHANGED vars
  BY <1>1 DEF SessionStep, OpenSessions, Requests, RequestOf, Sessions, vars, moving
<1>2. CASE Next
  <2>1. UNCHANGED source
    BY <1>2 DEF Next
  <2>2. CASE \E s \in Sessions : Open(s)
    BY <2>1, <2>2, OpenSession
  <2>3. CASE \E l \in Levels : LuaCall(l)
    <3>1. PICK l \in Levels : LuaCall(l)
      BY <2>3
    <3>2. CASE \E s \in Sessions : QueryRefused(l, s)
      BY <2>1, <3>2, QueryRefusedSession
    <3>3. CASE \E s \in Sessions : CloseMark(l, s)
      BY <2>1, <3>3, CloseMarkSession
    <3>4. CASE \E s \in Sessions, p \in Policies : QueryReuse(l, s, p)
      BY <2>1, <3>4 DEF QueryReuse, SessionStep, OpenSessions, Requests, RequestOf, Sessions
    <3>5. CASE \E s \in Sessions, p \in Policies : QueryCreate(l, s, p)
      BY <2>1, <3>5, QueryCreateSession
    <3>6. CASE \E s \in Sessions, p \in Policies : QueryFails(l, s, p)
      BY <2>1, <3>6, FailsAsRefused, QueryRefusedSession
    <3> QED BY <3>1, <3>2, <3>3, <3>4, <3>5, <3>6 DEF LuaCall
  <2>4. CASE \E l \in Levels : LuaStep(l)
    <3>1. PICK l \in Levels : LuaStep(l)
      BY <2>4
    <3>2. CASE CloseFinish(l)
      BY <2>1, <3>2, CloseFinishSession
    <3>3. CASE ~CloseFinish(l)
      <4>1. UNCHANGED sessions
        BY <3>1, <3>3, LuaMoves
      <4>2. PICK j \in Jobs, to \in JobStates :
                Moves(j, to) /\ (to = jobs[j].state \/ <<jobs[j].state, to>> \in StateMoves)
        BY <3>1, <3>3, LuaMoves
      <4> QED BY <2>1, <4>1, <4>2, RequestMoves
    <3> QED BY <3>2, <3>3
  <2>5. CASE \E j \in Jobs : ControllerStep(j) \/ Reply(j) \/ ReplyRejected(j) \/ ChildExit(j)
    <3>1. PICK j \in Jobs : ControllerStep(j) \/ Reply(j) \/ ReplyRejected(j) \/ ChildExit(j)
      BY <2>5
    <3>2. UNCHANGED sessions
      BY <3>1, ControllerMoves
    <3>3. PICK to \in JobStates :
              Moves(j, to) /\ (to = jobs[j].state \/ <<jobs[j].state, to>> \in StateMoves)
      BY <3>1, ControllerMoves
    <3> QED BY <2>1, <3>2, <3>3, RequestMoves
  <2>6. CASE Tick
    <3>1. UNCHANGED sessions
      BY <2>6 DEF Tick
    <3>2. ASSUME NEW j \in Jobs PROVE jobs'[j].state = jobs[j].state
      <4>1. jobs[j] \in JobRecord
        BY DEF IInv, HeapOK, Heap
      <4>2. jobs'[j] = jobs[j] \/ \E a, b : jobs'[j] = [jobs[j] EXCEPT !.requested = a, !.failed = b]
        BY <2>6, ZenonT(30) DEF Tick
      <4> QED BY <4>1, <4>2 DEF JobRecord
    <3>3. \A s \in Sessions : sessions[s].job \in Jobs \cup {None}
      BY DEF IInv, Types
    <3>4. \A s \in Sessions : RequestOf(s)' = RequestOf(s)
      BY <3>1, <3>2, <3>3 DEF RequestOf
    <3> QED BY <2>1, <3>1, <3>4 DEF SessionStep, OpenSessions, Requests, Sessions
  <2> QED BY <1>2, <2>2, <2>3, <2>4, <2>5, <2>6 DEF Next
<1> QED BY <1>1, <1>2

\* To the proxy that holds it, every session is one request at a time: it is
\* answered or failed at most once, only while it is asked for, and never after
\* the close, for any number of sessions, nesting levels and readers and in every
\* order of nested queries, expired jobs, closes and late replies
\* (query_session, close_session and controller).
THEOREM ImplementsSessionContract == Spec => ImplementsSession
<1>1. Init => Session!Init
  <2> SUFFICES ASSUME Init PROVE Session!Init
    OBVIOUS
  <2>1. \A s \in Sessions : RequestOf(s) = "idle"
    BY DEF Init, RequestOf
  <2>2. {s \in Sessions : ~sessions[s].closed} \subseteq Sessions
    OBVIOUS
  <2> QED BY <2>1, <2>2 DEF Session!Init, Session!Sessions
<1>2. IInv /\ IInv' /\ [Next]_vars => SessionStep
  BY SessionSteps
<1>3. SessionStep => [Session!Next]_(Session!session)
  BY DEF SessionStep, OpenSessions, Requests, Session!session
<1> QED BY <1>1, <1>2, <1>3, Invariance, PTL DEF Spec, ImplementsSession, Session!Spec
==============================================================================
