----------------------------- MODULE WorkerClient -----------------------------
(***************************************************************************)
(* The isolated-reader client, src/native/wtop_worker_client.c.            *)
(*                                                                         *)
(* A Lua session owns at most one job.  A job is a reference-counted heap  *)
(* object shared by the Lua thread and one detached controller thread,     *)
(* which spawns a reader process, exchanges one request and one reply at a *)
(* time with it, and reaps it.  The job's mutex protects state, frame and  *)
(* done; `cancelled' is an atomic flag written outside the mutex.  Every   *)
(* action below is one critical section or one step between two of them.   *)
(*                                                                         *)
(* The Lua thread runs one call at a time, but decoding a reply allocates, *)
(* and the garbage collector may re-enter the provider then (lines 516 and *)
(* 517): call[l] is the call at nesting level l, and level l+1 may run     *)
(* only while level l decodes.                                             *)
(*                                                                         *)
(* Abstractions.  A time stamp is kept as an age, which Tick increments up *)
(* to the first value that answers every comparison made with it.  The     *)
(* wait of a query or a close (at most 50 or 100 ms) may end at any moment. *)
(* Payload and error words are left out; `processes' is the request's      *)
(* policy word.  One source is modelled, so `controllers' is one counter.  *)
(***************************************************************************)
EXTENDS Integers, FiniteSets

CONSTANTS
    Sources,    \* the kinds of source, and how they are used, as records (below)
    Jobs,       \* addresses a job may be allocated at
    Frames,     \* addresses a reply frame may be allocated at
    None,       \* the null pointer
    QueryNs,    \* GPU_QUERY_NS: how long one exchange may take (2 s)
    FrameNs,    \* GPU_FRAME_NS: the oldest reply handed out (5 s)
    RetryNs,    \* GPU_RETRY_NS: how long a failed job is kept (5 s)
    GraceNs     \* how long a reader may take to quit before SIGKILL (20 ms)

ASSUME WorkerAssumption ==
    /\ \A s \in Sources :
        /\ None \notin s.sessions /\ IsFiniteSet(s.sessions)
        /\ s.depth \in Nat \ {0} /\ s.limit \in Nat \ {0}
        /\ s.gpu \in BOOLEAN
    /\ None \notin Jobs \cup Frames /\ IsFiniteSet(Jobs)
    /\ QueryNs \in Nat \ {0} /\ FrameNs \in Nat /\ RetryNs \in Nat /\ GraceNs \in Nat

VARIABLES
    source,      \* the member of Sources; it never changes
    sessions,    \* session -> [closed, job]
    jobs,        \* address -> struct gpu_job
    frames,      \* address -> struct gpu_frame
    controllers, \* the source's counter of controllers
    ctl,         \* job -> its controller thread
    child,       \* job -> the reader process its controller spawned
    call         \* nesting level -> the Lua call running there

moving == <<sessions, jobs, frames, controllers, ctl, child, call>>
vars   == <<source, moving>>

Sessions == source.sessions     \* session userdata the Lua code holds
Policies == source.policies     \* values of the request's policy word
Depth    == source.depth        \* bound: how deep the collector may re-enter the provider
Limit    == source.limit        \* controllers per source (2 in the code)
Gpu      == source.gpu          \* TRUE for a GPU vendor, FALSE for a hardware source

Levels == 1..Depth

MaxAge == 1 + (IF QueryNs >= FrameNs THEN QueryNs ELSE FrameNs)

-----------------------------------------------------------------------------
(* The data.                                                                *)

\* refs = 0 is memory that is not allocated.
FreeJob   == [refs |-> 0, cancelled |-> FALSE, state |-> "IDLE", done |-> FALSE,
              processes |-> None, requested |-> 0, failed |-> 0, frame |-> None]
FreeFrame == [refs |-> 0, processes |-> None, started |-> 0]
NoThread  == [pc |-> "none", processes |-> None, frame |-> None, grace |-> 0, killed |-> FALSE]
NoCall    == [pc |-> "none", session |-> None, job |-> None, frame |-> None, processes |-> None]

Allocated(j) == jobs[j].refs > 0

\* What a calloc'ed job starts as: state QUERY, one reference for the session
\* and one for the controller.
NewJob(processes) ==
    [FreeJob EXCEPT !.refs = 2, !.state = "QUERY", !.processes = processes]

(* frame_release and job_release, on a heap h = [jobs, frames].             *)
OneLess(object) == [object EXCEPT !.refs = @ - 1]

ReleaseFrame(h, f) ==
    IF f = None THEN h
    ELSE [h EXCEPT !.frames[f] = IF @.refs = 1 THEN FreeFrame ELSE OneLess(@)]

ReleaseJob(h, j) ==
    IF h.jobs[j].refs = 1
    THEN ReleaseFrame([h EXCEPT !.jobs[j] = FreeJob], h.jobs[j].frame)
    ELSE [h EXCEPT !.jobs[j] = OneLess(@)]

Heap == [jobs |-> jobs, frames |-> frames]
Store(h) == jobs' = h.jobs /\ frames' = h.frames

\* Mutant: the broadcast is missing.
BroadcastMissed(threads, j) == threads

\* pthread_cond_broadcast on job j: its controller re-examines the condition.
Broadcast(threads, j) ==
    IF threads[j].pc = "blocked" THEN [threads EXCEPT ![j].pc = "check"] ELSE threads

\* Asking for a new reply, under the mutex.
Requested(job, processes) ==
    [job EXCEPT !.state = "QUERY", !.frame = None,
                !.processes = processes, !.requested = 0]

-----------------------------------------------------------------------------
Init ==
    /\ source \in Sources
    /\ sessions = [s \in Sessions |-> [closed |-> TRUE, job |-> None]]
    /\ jobs = [j \in Jobs |-> FreeJob]
    /\ frames = [f \in Frames |-> FreeFrame]
    /\ controllers = 0
    /\ ctl = [j \in Jobs |-> NoThread]
    /\ child = [j \in Jobs |-> "none"]
    /\ call = [l \in Levels |-> NoCall]

(* The Lua thread.  A call may start at level l when nothing runs there and *)
(* the level below is decoding; a call runs while nothing is nested in it.  *)
MayStart(l) == call[l].pc = "none" /\ (l > 1 => call[l-1].pc = "decode")
Running(l, pc) == call[l].pc = pc /\ (l < Depth => call[l+1].pc = "none")
Goto(l, pc) == call' = [call EXCEPT ![l].pc = pc]
Return(l) == call' = [call EXCEPT ![l] = NoCall]

\* open_session: a fresh session object.
Open(s) ==
    /\ sessions[s].closed /\ sessions[s].job = None
    /\ \E l \in Levels : MayStart(l)
    /\ \A l \in Levels : call[l].session # s
    /\ sessions' = [sessions EXCEPT ![s].closed = FALSE]
    /\ UNCHANGED <<jobs, frames, controllers, ctl, child, call>>

\* A failed job is replaced once its controller is gone and RetryNs passed.
Expired(j) == jobs[j].state = "ERROR" /\ jobs[j].done /\ jobs[j].failed >= RetryNs

NeedsJob(s) == sessions[s].job \in {None} \cup {j \in Jobs : Expired(j)}

\* The heap after the session dropped an expired job.
AfterExpiry(s) == IF sessions[s].job = None THEN Heap ELSE ReleaseJob(Heap, sessions[s].job)

Begin(l, s, j, processes) ==
    call' = [call EXCEPT ![l] = [NoCall EXCEPT !.pc = "guard", !.session = s, !.job = j,
                                              !.processes = processes]]

\* atomic_fetch_add(&controllers[vendor], 1) >= 2 refuses.
RoomForController == controllers < Limit

QueryReuse(l, s, processes) ==
    /\ MayStart(l) /\ ~sessions[s].closed /\ ~NeedsJob(s)
    /\ Begin(l, s, sessions[s].job, processes)
    /\ UNCHANGED <<sessions, jobs, frames, controllers, ctl, child>>

\* new_job and pthread_create succeed.
QueryCreate(l, s, processes) ==
    /\ MayStart(l) /\ ~sessions[s].closed /\ NeedsJob(s)
    /\ RoomForController
    /\ LET h == AfterExpiry(s) IN
       \E j \in Jobs :
          /\ h.jobs[j].refs = 0
          /\ Store([h EXCEPT !.jobs[j] = NewJob(processes)])
          /\ sessions' = [sessions EXCEPT ![s].job = j]
          /\ ctl' = [ctl EXCEPT ![j].pc = "spawn"]
          /\ Begin(l, s, j, processes)
    /\ controllers' = controllers + 1
    /\ UNCHANGED child

\* What new_job and query_session have done when pthread_create is called.
Begun(s, j, processes) ==
    [heap |-> [AfterExpiry(s) EXCEPT !.jobs[j] = NewJob(processes)], count |-> controllers + 1]

\* Mutant: a failed start leaves the counter raised.
RolledBackCounted(start, j) ==
    [heap |-> ReleaseJob([start.heap EXCEPT !.jobs[j].refs = 1], j), count |-> start.count]

\* What the error paths make of it: the controller's reference is cancelled, the
\* session's released, and the counter taken back.
RolledBack(start, j) ==
    [heap |-> ReleaseJob([start.heap EXCEPT !.jobs[j].refs = 1], j), count |-> start.count - 1]

\* A start that stops half-way: the configuration or the environment cannot be
\* copied, or no thread be created.
QueryFails(l, s, processes) ==
    /\ MayStart(l) /\ ~sessions[s].closed /\ NeedsJob(s)
    /\ RoomForController
    /\ \E j \in Jobs :
          LET left == RolledBack(Begun(s, j, processes), j) IN
          /\ AfterExpiry(s).jobs[j].refs = 0
          /\ Store(left.heap)
          /\ controllers' = left.count
    /\ sessions' = [sessions EXCEPT ![s].job = None]
    /\ UNCHANGED <<ctl, child, call>>

\* The limit, or the first allocation fails: the counter was raised for a moment,
\* and only the expired job is gone.
QueryRefused(l, s) ==
    /\ MayStart(l) /\ ~sessions[s].closed /\ NeedsJob(s)
    /\ Store(AfterExpiry(s))
    /\ sessions' = [sessions EXCEPT ![s].job = None]
    /\ UNCHANGED <<controllers, ctl, child, call>>

\* The guard's reference, then the first critical section: an idle hardware
\* job is asked again.
QueryGuard(l) ==
    /\ Running(l, "guard")
    /\ LET j == call[l].job
           asks == jobs[j].state = "IDLE"
           held == [jobs[j] EXCEPT !.refs = @ + 1]
       IN  /\ jobs' = [jobs EXCEPT ![j] = IF asks THEN Requested(held, call[l].processes)
                                          ELSE held]
           /\ ctl' = IF asks THEN Broadcast(ctl, j) ELSE ctl
    /\ Goto(l, "look")
    /\ UNCHANGED <<sessions, frames, controllers, child>>

\* A reply that may be handed out: it follows the policy asked for and is
\* not too old.
Usable(f, processes) == frames[f].processes = processes /\ frames[f].started <= FrameNs

\* No reply yet, or an error: the call returns nil and drops its guard.
QueryNothing(l) ==
    /\ Running(l, "look")
    /\ jobs[call[l].job].state # "READY"
    /\ Store(ReleaseJob(Heap, call[l].job))
    /\ Return(l)
    /\ UNCHANGED <<sessions, controllers, ctl, child>>

\* A reply for another policy, or too old, is dropped and asked for again.
QueryStale(l) ==
    /\ Running(l, "look")
    /\ LET j == call[l].job
           f == jobs[j].frame
           h == [Heap EXCEPT !.jobs[j] = Requested(@, call[l].processes)]
       IN  /\ jobs[j].state = "READY" /\ ~Usable(f, call[l].processes)
           /\ Store(ReleaseJob(ReleaseFrame(h, f), j))
           /\ ctl' = Broadcast(ctl, j)
    /\ Return(l)
    /\ UNCHANGED <<sessions, controllers, child>>

\* A usable reply: take a reference to it and decode outside the mutex.
QueryTake(l) ==
    /\ Running(l, "look")
    /\ LET f == jobs[call[l].job].frame
       IN  /\ jobs[call[l].job].state = "READY" /\ Usable(f, call[l].processes)
           /\ frames' = [frames EXCEPT ![f].refs = @ + 1]
           /\ call' = [call EXCEPT ![l].pc = "decode", ![l].frame = f]
    /\ UNCHANGED <<sessions, jobs, controllers, ctl, child>>

\* Mutant: the guard forgets its reference to the job.
DropFrameOnly(h, l) == ReleaseFrame(h, call[l].frame)

\* guard_release: the frame's reference, then the job's.
DropGuard(h, l) == ReleaseJob(ReleaseFrame(h, call[l].frame), call[l].job)

\* Mutant: the frame is not compared again after decoding.
ConsumesBlindly(l) ==
    LET job == jobs[call[l].job] IN ~job.cancelled /\ ~job.done

\* The decoded reply is still the job's, and the job is still served.
Consumes(l) ==
    LET job == jobs[call[l].job]
    IN  job.frame = call[l].frame /\ ~job.cancelled /\ ~job.done

\* Decoding finished: consume the reply unless a nested call already did.
QueryCommit(l) ==
    /\ Running(l, "decode")
    /\ LET j == call[l].job
           asked == [Requested(jobs[j], call[l].processes)
                        EXCEPT !.state = IF Gpu THEN "QUERY" ELSE "IDLE"]
           h == IF Consumes(l)
                THEN ReleaseFrame([Heap EXCEPT !.jobs[j] = asked], jobs[j].frame)
                ELSE Heap
       IN  /\ Store(DropGuard(h, l))
           /\ ctl' = IF Consumes(l) THEN Broadcast(ctl, j) ELSE ctl
    /\ Return(l)
    /\ UNCHANGED <<sessions, controllers, child>>

\* A Lua error while decoding: only the guard's finalizer runs.
QueryAbort(l) ==
    /\ Running(l, "decode")
    /\ Store(DropGuard(Heap, l))
    /\ Return(l)
    /\ UNCHANGED <<sessions, controllers, ctl, child>>

\* close_session and wtop_gpu_worker_close: mark, then raise the atomic flag.
CloseMark(l, s) ==
    /\ MayStart(l) /\ ~sessions[s].closed
    /\ sessions' = [sessions EXCEPT ![s].closed = TRUE]
    /\ LET j == sessions[s].job IN
       IF j = None THEN UNCHANGED <<jobs, call>>
       ELSE /\ jobs' = [jobs EXCEPT ![j].cancelled = TRUE]
            /\ call' = [call EXCEPT ![l] = [NoCall EXCEPT !.pc = "signal", !.session = s,
                                                          !.job = j]]
    /\ UNCHANGED <<frames, controllers, ctl, child>>

\* Mutant: close marks the job but wakes nobody.
CloseSilently(l) ==
    /\ Running(l, "signal")
    /\ Goto(l, "closing")
    /\ UNCHANGED <<sessions, jobs, frames, controllers, ctl, child>>

\* Under the mutex: broadcast; wtop_gpu_worker_close may then wait for done.
CloseSignal(l) ==
    /\ Running(l, "signal")
    /\ ctl' = Broadcast(ctl, call[l].job)
    /\ Goto(l, "closing")
    /\ UNCHANGED <<sessions, jobs, frames, controllers, child>>

CloseFinish(l) ==
    /\ Running(l, "closing")
    /\ sessions' = [sessions EXCEPT ![call[l].session].job = None]
    /\ Store(ReleaseJob(Heap, call[l].job))
    /\ Return(l)
    /\ UNCHANGED <<controllers, ctl, child>>

-----------------------------------------------------------------------------
(* The controller thread of job j.                                          *)

At(j, pc) == ctl[j].pc = pc
Step(j, pc) == ctl' = [ctl EXCEPT ![j].pc = pc]

\* job_error, under the mutex.
JobError(j) ==
    /\ jobs' = [jobs EXCEPT ![j].state = "ERROR", ![j].failed = 0]
    /\ ctl' = [ctl EXCEPT ![j].pc = "quit"]

Spawn(j) ==
    /\ At(j, "spawn")
    /\ child' = [child EXCEPT ![j] = "running"]
    /\ Step(j, IF Gpu THEN "check" ELSE "configure")
    /\ UNCHANGED <<sessions, jobs, frames, controllers, call>>

SpawnFails(j) ==
    /\ At(j, "spawn")
    /\ JobError(j)
    /\ UNCHANGED <<sessions, frames, controllers, child, call>>

\* Mutant: an exchange has no deadline.
TransferFailsNoDeadline(j) == jobs[j].cancelled \/ child[j] # "running"

\* transfer() gives up: cancelled, past the deadline, or the peer is gone.
TransferFails(j) ==
    jobs[j].cancelled \/ jobs[j].requested >= QueryNs \/ child[j] # "running"

Configure(j) ==
    /\ At(j, "configure")
    /\ child[j] = "running" /\ jobs[j].requested < QueryNs
    /\ Step(j, "check")
    /\ UNCHANGED <<sessions, jobs, frames, controllers, child, call>>

\* Mutant: the condition is not examined again after a wake-up ("if", not "while").
CheckOnce(j) ==
    /\ At(j, "check")
    /\ ctl' = [ctl EXCEPT ![j] =
                 IF jobs[j].cancelled THEN [@ EXCEPT !.pc = "quit"]
                 ELSE [@ EXCEPT !.pc = "exchange", !.processes = jobs[j].processes]]
    /\ UNCHANGED <<sessions, jobs, frames, controllers, child, call>>

\* The top of the loop, under the mutex.
Check(j) ==
    /\ At(j, "check")
    /\ ctl' = [ctl EXCEPT ![j] =
                 IF jobs[j].cancelled THEN [@ EXCEPT !.pc = "quit"]
                 ELSE IF jobs[j].state = "QUERY"
                      THEN [@ EXCEPT !.pc = "exchange", !.processes = jobs[j].processes]
                      ELSE [@ EXCEPT !.pc = "blocked"]]
    /\ UNCHANGED <<sessions, jobs, frames, controllers, child, call>>

\* Mutant: the reply's time stamp is not compared with the request's.
SampledAnyTime(j) == 0..MaxAge

\* The ages a reply may have: read_response refuses started < requested.
SampledSince(j) == 0..jobs[j].requested

\* read_response succeeds: the reader sampled after the request was made
\* (started >= requested) and answers the policy it was sent.
Reply(j) ==
    /\ At(j, "exchange")
    /\ child[j] = "running" /\ jobs[j].requested < QueryNs
    /\ \E f \in Frames, age \in SampledSince(j) :
          /\ frames[f].refs = 0
          /\ frames' = [frames EXCEPT ![f] = [refs |-> 1, processes |-> ctl[j].processes,
                                              started |-> age]]
          /\ ctl' = [ctl EXCEPT ![j].pc = "publish", ![j].frame = f]
    /\ UNCHANGED <<sessions, jobs, controllers, child, call>>

\* The configuration or the exchange fails because transfer() gave up.
TransferError(j) ==
    /\ At(j, "configure") \/ At(j, "exchange")
    /\ TransferFails(j)
    /\ JobError(j)
    /\ UNCHANGED <<sessions, frames, controllers, child, call>>

\* The reader answers with an error status or breaks the protocol.
ReplyRejected(j) ==
    /\ At(j, "exchange") /\ child[j] = "running"
    /\ JobError(j)
    /\ UNCHANGED <<sessions, frames, controllers, child, call>>

Publish(j) ==
    /\ At(j, "publish")
    /\ jobs' = [jobs EXCEPT ![j].frame = ctl[j].frame, ![j].state = "READY"]
    /\ ctl' = [ctl EXCEPT ![j].pc = "check", ![j].frame = None]
    /\ UNCHANGED <<sessions, frames, controllers, child, call>>

\* finish_child: nothing to do without a child; else send the quit command.
Quit(j) ==
    /\ At(j, "quit")
    /\ ctl' = [ctl EXCEPT ![j].pc = IF child[j] = "none" THEN "finish" ELSE "reap",
                          ![j].grace = 0]
    /\ UNCHANGED <<sessions, jobs, frames, controllers, child, call>>

\* Mutant: a reader that ignores the quit command is never killed.
KillOmitted(j) ==
    /\ At(j, "reap") /\ FALSE
    /\ UNCHANGED vars

\* 20 ms after the quit command, once, SIGKILL.
Kill(j) ==
    /\ At(j, "reap") /\ ~ctl[j].killed /\ ctl[j].grace >= GraceNs
    /\ child[j] = "running"
    /\ ctl' = [ctl EXCEPT ![j].killed = TRUE]
    /\ UNCHANGED <<sessions, jobs, frames, controllers, child, call>>

Reap(j) ==
    /\ At(j, "reap") /\ child[j] = "zombie"
    /\ child' = [child EXCEPT ![j] = "none"]
    /\ Step(j, "finish")
    /\ UNCHANGED <<sessions, jobs, frames, controllers, call>>

\* Under the mutex: done, and wake a waiting close.
Finish(j) ==
    /\ At(j, "finish")
    /\ jobs' = [jobs EXCEPT ![j].done = TRUE]
    /\ Step(j, "uncount")
    /\ UNCHANGED <<sessions, frames, controllers, child, call>>

Uncount(j) ==
    /\ At(j, "uncount")
    /\ controllers' = controllers - 1
    /\ Step(j, "drop")
    /\ UNCHANGED <<sessions, jobs, frames, child, call>>

Drop(j) ==
    /\ At(j, "drop")
    /\ Store(ReleaseJob(Heap, j))
    /\ ctl' = [ctl EXCEPT ![j] = NoThread]
    /\ UNCHANGED <<sessions, controllers, child, call>>

\* The reader process ends: it crashed, was told to quit, or was killed.
ChildExit(j) ==
    /\ child[j] = "running"
    /\ child' = [child EXCEPT ![j] = "zombie"]
    /\ UNCHANGED <<sessions, jobs, frames, controllers, ctl, call>>

\* Time passes.
Older(age, cap) == IF age < cap THEN age + 1 ELSE age
Tick ==
    /\ jobs' = [j \in Jobs |->
                  IF ~Allocated(j) THEN jobs[j]
                  ELSE [jobs[j] EXCEPT
                          !.requested = Older(@, MaxAge),
                          !.failed = IF jobs[j].state = "ERROR" THEN Older(@, RetryNs) ELSE @]]
    /\ frames' = [f \in Frames |->
                  IF frames[f].refs = 0 THEN frames[f]
                  ELSE [frames[f] EXCEPT !.started = Older(@, MaxAge)]]
    /\ ctl' = [j \in Jobs |->
                  IF At(j, "reap") THEN [ctl[j] EXCEPT !.grace = Older(@, GraceNs)] ELSE ctl[j]]
    /\ UNCHANGED <<sessions, controllers, child, call>>

-----------------------------------------------------------------------------
\* What the Lua thread must finish once it has begun it.
LuaStep(l) ==
    \/ QueryGuard(l) \/ QueryNothing(l) \/ QueryStale(l) \/ QueryTake(l)
    \/ QueryCommit(l) \/ QueryAbort(l)
    \/ CloseSignal(l) \/ CloseFinish(l)

\* What a caller may ask at any time.
LuaCall(l) ==
    \E s \in Sessions :
        \/ \E p \in Policies : QueryReuse(l, s, p) \/ QueryCreate(l, s, p) \/ QueryFails(l, s, p)
        \/ QueryRefused(l, s)
        \/ CloseMark(l, s)

\* What the controller thread does by itself.
ControllerStep(j) ==
    \/ Spawn(j) \/ SpawnFails(j) \/ Configure(j) \/ Check(j) \/ TransferError(j)
    \/ Publish(j) \/ Quit(j) \/ Kill(j) \/ Reap(j) \/ Finish(j) \/ Uncount(j) \/ Drop(j)

Next ==
    /\ UNCHANGED source
    /\ \/ \E s \in Sessions : Open(s)
       \/ \E l \in Levels : LuaCall(l) \/ LuaStep(l)
       \/ \E j \in Jobs : ControllerStep(j) \/ Reply(j) \/ ReplyRejected(j) \/ ChildExit(j)
       \/ Tick

Spec == Init /\ [][Next]_vars

(***************************************************************************)
(* The scheduling the code relies on: the controller and a started Lua call *)
(* keep running, time passes, and a killed process ends.  Nothing makes a  *)
(* reader answer, a caller call, or a reader quit by itself.               *)
(***************************************************************************)
KilledExits(j) == ctl[j].killed /\ ChildExit(j)

MaxDepth == CHOOSE d \in {s.depth : s \in Sources} : \A s \in Sources : s.depth <= d

Fairness ==
    /\ \A l \in 1..MaxDepth : WF_moving(l \in Levels /\ LuaStep(l))
    /\ \A j \in Jobs : WF_moving(ControllerStep(j)) /\ WF_moving(KilledExits(j))
    /\ WF_moving(Tick)

FairSpec == Spec /\ Fairness

-----------------------------------------------------------------------------
(* Properties.                                                              *)

\* Who holds a pointer that counts as a reference.
HoldsJob(l, j)   == call[l].job = j /\ call[l].pc \in {"look", "decode"}
HoldsFrame(l, f) == call[l].frame = f /\ call[l].pc = "decode"

JobRefs(j) == Cardinality({s \in Sessions : sessions[s].job = j})
            + Cardinality({l \in Levels : HoldsJob(l, j)})
            + (IF At(j, "none") THEN 0 ELSE 1)

FrameRefs(f) == Cardinality({j \in Jobs : Allocated(j) /\ jobs[j].frame = f})
              + Cardinality({l \in Levels : HoldsFrame(l, f)})
              + Cardinality({j \in Jobs : At(j, "publish") /\ ctl[j].frame = f})

\* Memory safety: a job or frame is allocated exactly while somebody holds it,
\* and its counter says how many do, in every interleaving of nested queries,
\* closes, Lua errors and the controller's exit: nothing leaks and nothing is
\* used, or released a second time, after it was freed.
RefsExact ==
    /\ \A j \in Jobs : jobs[j].refs = JobRefs(j)
    /\ \A f \in Frames : frames[f].refs = FrameRefs(f)

\* A reply is stored exactly in state READY, and it answers the request that
\* is current: sampled after that request was made, under its policy.  No
\* reply of an earlier page, policy or request is ever there to be taken.
ReplyIsCurrent ==
    \A j \in Jobs : Allocated(j) =>
        LET f == jobs[j].frame IN
        /\ jobs[j].state = "READY" <=> f # None
        /\ f # None => /\ frames[f].processes = jobs[j].processes
                       /\ frames[f].started <= jobs[j].requested

\* The reader budget: the counter counts the controllers that have not left,
\* never exceeds the limit, and no reader process outlives its controller; so
\* closing and reopening sessions can never accumulate processes.
ReadersBounded ==
    /\ controllers = Cardinality({j \in Jobs : ~At(j, "none") /\ ~At(j, "drop")})
    /\ controllers <= Limit
    /\ \A j \in Jobs : child[j] # "none" => ctl[j].pc \notin {"none", "finish", "uncount", "drop"}

\* No lost wake-up: a controller waiting on the condition has nothing to do.
\* It is never asleep on a request, and if its job was cancelled the close
\* that must broadcast is still on its way.
NoLostWakeup ==
    \A j \in Jobs : At(j, "blocked") =>
        /\ jobs[j].state # "QUERY"
        /\ jobs[j].cancelled => \E l \in Levels : call[l].pc = "signal" /\ call[l].job = j

\* A reply leaves its live job only when it was decoded or is unusable.  A
\* call that finishes decoding an older reply, because a nested call ran
\* meanwhile, does not discard the reply that arrived since.
UnreadReplyKeptStep ==
    \A j \in Jobs :
        /\ jobs[j].frame # None /\ jobs'[j].frame # jobs[j].frame
        /\ jobs'[j].refs > 0
        => \E l \in Levels :
              /\ call[l].job = j
              /\ \/ HoldsFrame(l, jobs[j].frame)
                 \/ call[l].pc = "look" /\ ~Usable(jobs[j].frame, call[l].processes)
UnreadReplyKept == [][UnreadReplyKeptStep]_vars

\* A request ends: with a reply or an error, or because the job goes away,
\* even if the reader never answers.
RequestEnds == \A j \in Jobs : (Allocated(j) /\ jobs[j].state = "QUERY")
                                ~> ~(Allocated(j) /\ jobs[j].state = "QUERY" )

\* The reader of a job whose session closed ends and is reaped, even if it
\* ignores the quit command, and its memory is given back.
ClosedJobFreed == \A j \in Jobs : (Allocated(j) /\ jobs[j].cancelled) ~> ~Allocated(j)

-----------------------------------------------------------------------------
(* The client implements ReaderPool: a slot is a job's controller, wanted is *)
(* a job that an open session holds.                                         *)

SlotOf(j) ==
    IF ctl[j].pc \in {"none", "drop"} THEN "free"
    ELSE IF ctl[j].pc = "spawn" THEN "starting"
    ELSE IF child[j] # "none" THEN "running" ELSE "ending"

Pool == INSTANCE ReaderPool WITH
    Slots  <- Jobs,
    limit  <- Limit,
    slot   <- [j \in Jobs |-> SlotOf(j)],
    wanted <- {j \in Jobs : \E s \in Sessions : ~sessions[s].closed /\ sessions[s].job = j}

\* At most Limit readers exist whatever sessions are opened, abandoned and
\* reopened, each job starts one reader at most, and the reader of a job no
\* open session holds ends and its slot becomes free again.
ImplementsPool == Pool!Spec

-----------------------------------------------------------------------------
(* The client implements ReaderSession: the request of an open session is   *)
(* the state of its job, and a session without a job is idle.               *)

Phase == [IDLE |-> "idle", QUERY |-> "asked", READY |-> "answered", ERROR |-> "failed"]

RequestOf(s) ==
    IF sessions[s].closed \/ sessions[s].job = None THEN "idle"
    ELSE Phase[jobs[sessions[s].job].state]

Session == INSTANCE ReaderSession WITH
    open    <- {s \in Sessions : ~sessions[s].closed},
    request <- [s \in Sessions |-> RequestOf(s)]

\* Each session has one request at a time, answered or failed at most once and
\* only while it is asked for, whatever nested queries, stale or refused replies,
\* expired jobs, closes and late readers come together behind it.
ImplementsSession == Session!Spec

=============================================================================
