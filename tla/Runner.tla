-------------------------------- MODULE Runner --------------------------------
(***************************************************************************)
(* The subprocess runner's loop: l_run in src/native/wtop_native.c from    *)
(* the moment its helper has been forked (HelperStart) to its result.      *)
(*                                                                         *)
(* The helper leads a process group of its own and may leave descendants   *)
(* behind, in the group or, after setsid, outside it; each may hold the    *)
(* write ends of the two pipes.  The loop polls, drains, asks the caller's *)
(* cancel callback and observes the helper's end without reaping it, so    *)
(* that the process id still names the group when it is signalled.  A      *)
(* program started with SIGCHLD ignored has its children reaped by the     *)
(* kernel: waitid and waitpid then fail once the helper has ended.         *)
(***************************************************************************)
EXTENDS Integers, FiniteSets, FiniteSetsExt

CONSTANTS
    Streams,        \* stdout and stderr
    Capacity,       \* max_output_bytes, in chunks
    Output,         \* chunks a pipe holds; beyond this many nothing is counted
    Timeout,        \* timeout_ms
    MaxTime,        \* bound on the clock
    Escapes,        \* whether a descendant may leave the group (setsid)
    Endless,        \* whether a process may write without end
    FirstStream     \* the stream drained first

ASSUME RunnerAssumption ==
    /\ \E other \in Streams : other # FirstStream /\ Streams = {FirstStream, other}
    /\ Capacity \in Nat /\ Output \in Nat
    /\ Timeout \in Nat \ {0} /\ MaxTime \in Nat
    /\ Escapes \in BOOLEAN /\ Endless \in BOOLEAN
    /\ Endless => Capacity < Output

Processes == {"leader", "descendant"}
Flags     == {"none", "timeout", "cancelled", "internal"}

VARIABLES
    pc,         \* next step of the parent
    clock,      \* CLOCK_MONOTONIC since the start
    left,       \* remaining_ms of this turn
    done,       \* child_done
    why,        \* timed_out, cancelled or internal_error
    todo,       \* streams the present poll found ready, not drained yet
    fd,         \* streams whose read end is still open
    kept,       \* chunks captured of each stream
    cut,        \* streams that were truncated
    proc,       \* process -> "absent", "running", "killed", "zombie", "gone"
    exit,       \* how the leader ended: "none", "zero", "other", "signal"
    escaped,    \* whether the descendant left the group
    ignored,    \* whether the program ignores SIGCHLD; it never changes
    pipe,       \* chunks waiting in each pipe
    wrote,      \* chunks written to each stream so far
    writers     \* stream -> processes that hold its write end

reader  == <<pc, left, done, why, todo>>
capture == <<fd, kept, cut>>
world   == <<proc, exit, escaped, wrote, writers, ignored>>
vars    == <<reader, capture, clock, world, pipe>>

InGroup(p) == p = "leader" \/ ~escaped
EofTooSoon(s) == writers[s] = {}       \* a mistake: the rest is lost
Eof(s)     == pipe[s] = 0 /\ writers[s] = {}

Init ==
    /\ pc = "turn" /\ left = Timeout /\ done = FALSE /\ why = "none" /\ todo = {}
    /\ fd = Streams /\ kept = [s \in Streams |-> 0] /\ cut = {}
    /\ clock = 0
    /\ proc = [leader |-> "running", descendant |-> "absent"]
    /\ exit = "none" /\ escaped = FALSE /\ ignored \in BOOLEAN
    /\ pipe = [s \in Streams |-> 0] /\ wrote = pipe
    /\ writers = [s \in Streams |-> {"leader"}]

-----------------------------------------------------------------------------
(***************************************************************************)
(* The processes, the kernel and time.                                     *)
(***************************************************************************)
Running(p) == proc[p] = "running"

Spawn ==
    /\ Running("leader") /\ proc["descendant"] = "absent"
    /\ proc' = [proc EXCEPT !["descendant"] = "running"]
    /\ writers' = [s \in Streams |->
                     IF "leader" \in writers[s] THEN Processes ELSE writers[s]]
    /\ UNCHANGED <<exit, escaped, wrote, ignored, reader, capture, clock, pipe>>

Escape ==
    /\ Escapes /\ Running("descendant") /\ ~escaped
    /\ escaped' = TRUE
    /\ UNCHANGED <<proc, exit, wrote, writers, ignored, reader, capture, clock, pipe>>

Write(p, s) ==
    /\ Running(p) /\ p \in writers[s]
    /\ pipe[s] < Output /\ (Endless \/ wrote[s] < Output)
    /\ wrote' = [wrote EXCEPT ![s] = Min({@ + 1, Output})]
    /\ pipe' = [pipe EXCEPT ![s] = @ + 1]
    /\ UNCHANGED <<proc, exit, escaped, writers, ignored, reader, capture, clock>>

\* A background job that redirects its output gives its write ends up.
Redirect ==
    /\ Running("descendant")
    /\ writers' = [s \in Streams |-> writers[s] \ {"descendant"}]
    /\ UNCHANGED <<proc, exit, escaped, wrote, ignored, reader, capture, clock, pipe>>

\* Descriptors close with the process; the leader is the parent's to reap,
\* unless SIGCHLD is ignored.
Die(p, state, how) ==
    /\ proc' = [proc EXCEPT ![p] = state]
    /\ writers' = [s \in Streams |-> writers[s] \ {p}]
    /\ exit' = IF p = "leader" THEN how ELSE exit
    /\ UNCHANGED <<escaped, wrote, ignored, reader, capture, clock, pipe>>

Unreaped == IF ignored THEN "gone" ELSE "zombie"

LeaderExits ==
    \E how \in {"zero", "other"} : Running("leader") /\ Die("leader", Unreaped, how)
DescendantExits == Running("descendant") /\ Die("descendant", "gone", "none")
LeaderKilled     == proc["leader"] = "killed" /\ Die("leader", Unreaped, "signal")
DescendantKilled == proc["descendant"] = "killed" /\ Die("descendant", "gone", "none")

Tick ==
    /\ clock < MaxTime /\ pc # "result"
    /\ clock' = clock + 1
    /\ UNCHANGED <<reader, capture, world, pipe>>

-----------------------------------------------------------------------------
(***************************************************************************)
(* The parent.                                                             *)
(***************************************************************************)
Go(to) == pc' = to /\ UNCHANGED <<left, done, why, todo>>
Leave(reason) == pc' = "after" /\ why' = reason /\ UNCHANGED <<left, done, todo>>

\* The loop's condition and the clock it reads first.
Turn ==
    /\ pc = "turn"
    /\ IF done /\ fd = {}
       THEN Go("after")
       ELSE /\ pc' = "cancel"
            /\ left' = Timeout - clock
            /\ UNCHANGED <<done, why, todo>>
    /\ UNCHANGED <<capture, clock, world, pipe>>

\* The caller's callback may fail, ask to stop, or not.
Cancel ==
    /\ pc = "cancel"
    /\ \/ Leave("internal")
       \/ Leave("cancelled")
       \/ Go("observe")
    /\ UNCHANGED <<capture, clock, world, pipe>>

\* kill(-child) reaches the group, kill(child) the leader.  A number that no
\* process of ours bears any more reaches none of them.
Signalled(p, group) ==
    Running(p) /\ (p = "leader" \/ (group /\ InGroup(p)))

Signal(group) ==
    /\ proc' = [p \in Processes |-> IF Signalled(p, group) THEN "killed" ELSE proc[p]]
    /\ UNCHANGED <<exit, escaped, wrote, writers, ignored>>

Reaped ==
    /\ proc' = [proc EXCEPT !["leader"] = "gone"]
    /\ UNCHANGED <<exit, escaped, wrote, writers, ignored>>

\* A mistake: the descendants are left alone.
ObserveQuietly ==
    /\ pc = "observe"
    /\ Go(IF ~done /\ proc["leader"] = "zombie" THEN "reap" ELSE "decide")
    /\ UNCHANGED <<capture, clock, world, pipe>>

\* waitid(WNOWAIT) has seen the end: the group is signalled before waitpid.  It
\* fails when there is no child any more.
Observe ==
    /\ pc = "observe"
    /\ \/ done /\ Go("decide") /\ UNCHANGED world
       \/ ~done /\ proc["leader"] = "zombie" /\ Go("reap") /\ Signal(TRUE)
       \/ ~done /\ proc["leader"] = "gone" /\ Leave("internal") /\ UNCHANGED world
       \/ ~done /\ proc["leader"] \in {"running", "killed"} /\ Go("decide") /\ UNCHANGED world
    /\ UNCHANGED <<capture, clock, pipe>>

Reap ==
    /\ pc = "reap"
    /\ Reaped
    /\ done' = TRUE
    /\ pc' = "decide"
    /\ UNCHANGED <<left, why, todo, capture, clock, pipe>>

\* A mistake: only once the helper has ended.
DecideWhenDone ==
    /\ pc = "decide"
    /\ IF left <= 0 /\ done THEN Leave("timeout") ELSE Go("poll")
    /\ UNCHANGED <<capture, clock, world, pipe>>

\* The deadline is tested after the observation, with the clock of the turn.
Decide ==
    /\ pc = "decide"
    /\ IF left <= 0 THEN Leave("timeout") ELSE Go("poll")
    /\ UNCHANGED <<capture, clock, world, pipe>>

Readable(s) == pipe[s] > 0 \/ writers[s] = {}

\* At most 50 ms; a signal starts the turn again.
Poll ==
    /\ pc = "poll"
    /\ \/ Go("turn")
       \/ Leave("internal")
       \/ /\ todo' = {s \in fd : Readable(s)}
          /\ pc' = "drain"
          /\ UNCHANGED <<left, done, why>>
    /\ UNCHANGED <<capture, clock, world, pipe>>

(***************************************************************************)
(* capture_drain reads a stream until it is empty or at its end; what does *)
(* not fit is dropped and marks the stream.                                *)
(***************************************************************************)
Chosen == IF FirstStream \in todo THEN FirstStream ELSE CHOOSE s \in todo : TRUE

TakeChunk(s) ==
    /\ pipe' = [pipe EXCEPT ![s] = @ - 1]
    /\ kept' = [kept EXCEPT ![s] = Min({@ + 1, Capacity})]
    /\ cut' = IF kept[s] = Capacity THEN cut \cup {s} ELSE cut

ReadChunk(s) ==
    /\ pipe[s] > 0
    /\ TakeChunk(s)
    /\ UNCHANGED <<fd, reader>>

StreamEnds(s) ==
    /\ Eof(s)
    /\ fd' = fd \ {s}
    /\ todo' = todo \ {s}
    /\ UNCHANGED <<pc, left, done, why, kept, cut, pipe>>

StreamEmpty(s) ==
    /\ pipe[s] = 0 /\ writers[s] # {}
    /\ todo' = todo \ {s}
    /\ UNCHANGED <<pc, left, done, why, capture, pipe>>

Drain(s) ==
    /\ s = Chosen
    /\ ReadChunk(s) \/ StreamEnds(s) \/ StreamEmpty(s)
    /\ UNCHANGED <<clock, world>>

DrainReady ==
    /\ pc = "drain" /\ todo # {}
    /\ \/ \E s \in todo : Drain(s)
       \/ Leave("internal") /\ UNCHANGED <<capture, clock, world, pipe>>

Drained ==
    /\ pc = "drain" /\ todo = {}
    /\ Go("turn")
    /\ UNCHANGED <<capture, clock, world, pipe>>

(***************************************************************************)
(* After the loop: two signals when it was left early, then the helper is  *)
(* awaited if it was not, and what the pipes still hold is read.           *)
(***************************************************************************)
KillGroup ==
    /\ pc = "after"
    /\ IF why # "none"
       THEN Signal(TRUE) /\ Go("killLeader")
       ELSE UNCHANGED world /\ Go("wait")
    /\ UNCHANGED <<capture, clock, pipe>>

KillLeader ==
    /\ pc = "killLeader"
    /\ Signal(FALSE)
    /\ Go("wait")
    /\ UNCHANGED <<capture, clock, pipe>>

Wait ==
    /\ pc = "wait"
    /\ \/ done /\ UNCHANGED <<world, done, why>>
       \/ ~done /\ proc["leader"] = "zombie" /\ Reaped /\ done' = TRUE /\ UNCHANGED why
       \/ /\ ~done /\ proc["leader"] = "gone"
          /\ why' = IF why = "none" THEN "internal" ELSE why
          /\ UNCHANGED <<world, done>>
    /\ todo' = fd
    /\ pc' = "rest"
    /\ UNCHANGED <<left, capture, clock, pipe>>

Rest ==
    /\ pc = "rest" /\ todo # {}
    /\ \/ \E s \in todo : Drain(s)
       \/ /\ why' = IF why = "none" THEN "internal" ELSE why
          /\ todo' = todo \ {Chosen}
          /\ UNCHANGED <<pc, left, done, capture, clock, world, pipe>>

Result ==
    /\ pc = "rest" /\ todo = {}
    /\ fd' = {}
    /\ Go("result")
    /\ UNCHANGED <<kept, cut, clock, world, pipe>>

Parent == Turn \/ Cancel \/ Observe \/ Reap \/ Decide \/ Poll \/ DrainReady \/ Drained
            \/ KillGroup \/ KillLeader \/ Wait \/ Rest \/ Result

\* What a running helper and its descendants do of themselves, what happens
\* to them, and the clock.
Helper == Spawn \/ Escape \/ Redirect \/ (\E p \in Processes, s \in Streams : Write(p, s))
            \/ LeaderExits \/ DescendantExits
Kernel == LeaderKilled \/ DescendantKilled

\* What the result table says.
Status ==
    CASE why = "timeout"   -> "timeout"
      [] why = "cancelled" -> "cancelled"
      [] why = "none" /\ exit = "zero" -> "ok"
      [] OTHER -> "error"

-----------------------------------------------------------------------------
Returned == pc = "result"

(***************************************************************************)
(* A result "ok" is the helper's whole output: everything any process      *)
(* wrote was read to the end of both pipes, and a stream is marked         *)
(* truncated exactly when more was written than fits.                      *)
(***************************************************************************)
OkIsComplete ==
    Returned /\ Status = "ok" =>
        \A s \in Streams :
            /\ pipe[s] = 0 /\ writers[s] = {}
            /\ kept[s] = Min({wrote[s], Capacity})
            /\ s \in cut <=> wrote[s] > Capacity

(***************************************************************************)
(* No result leaves work behind: the helper is reaped, and every process   *)
(* of its group has been killed, however the call ended.                   *)
(***************************************************************************)
NothingLeftBehind ==
    Returned =>
        /\ proc["leader"] = "gone"
        /\ Running("descendant") => escaped
=============================================================================
