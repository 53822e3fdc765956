------------------------------ MODULE Subprocess ------------------------------
(***************************************************************************)
(* A whole call of l_run: HelperStart, then the loop of Runner, while the  *)
(* child is still rearranging its descriptors or runs the helper.          *)
(*                                                                         *)
(* The two halves share the child, which is Runner's leader, and the read  *)
(* ends of the pipes, which Runner's `fd' names and which are entries of   *)
(* the parent's descriptor table.                                          *)
(***************************************************************************)
EXTENDS Runner

CONSTANTS MaxFd, Limit, Starts      \* see HelperStart

VARIABLES
    spc,                            \* next step of the start
    table, private, held,           \* the parent's descriptors and memory
    outPipe, errPipe,
    cpc, ctable, cprivate           \* the child and its descriptors

S == INSTANCE HelperStart WITH pc <- spc, out <- outPipe, err <- errPipe

ASSUME StartAssumption ==
    /\ MaxFd \in Nat /\ Limit \in Nat
    /\ Starts \subseteq SUBSET S!Fd

starting == <<spc, table, private, held, outPipe, errPipe, cpc, ctable, cprivate>>
call     == <<vars, starting>>

CallInit == Init /\ S!Init

\* A parent that gives up on the process group kills the child and reaps it.
StartStep ==
    /\ S!Parent
    /\ IF spc = "group" /\ spc' = "failed"
       THEN Reaped /\ UNCHANGED <<reader, capture, clock, pipe>>
       ELSE UNCHANGED vars

\* The child, as long as nobody has killed it; _exit ends the leader.
ChildStep ==
    /\ Running("leader") /\ S!Child
    /\ IF cpc' = "gone" THEN Die("leader", Unreaped, "other") ELSE UNCHANGED vars

ReadEnd(s) == IF s = FirstStream THEN outPipe.r ELSE errPipe.r

ReleasedAtResult == {"outData", "errData"}

\* A stream that is done with is closed; the result takes the buffers over.
LoopStep ==
    /\ spc = "started" /\ Parent
    /\ table' = S!Shut(table, {ReadEnd(s) : s \in fd \ fd'})
    /\ private' = private \ {ReadEnd(s) : s \in fd \ fd'}
    /\ held' = IF pc' = "result" THEN held \ ReleasedAtResult ELSE held
    /\ UNCHANGED <<spc, outPipe, errPipe, cpc, ctable, cprivate>>

Surroundings ==
    /\ \/ cpc = "helper" /\ Helper
       \/ Kernel
       \/ spc = "started" /\ Tick
    /\ UNCHANGED starting

CallNext == StartStep \/ ChildStep \/ LoopStep \/ Surroundings
CallSpec == CallInit /\ [][CallNext]_call

\* A caller that keeps running, a clock that advances, and SIGKILL that kills.
LiveSpec ==
    /\ CallSpec
    /\ WF_call(StartStep) /\ WF_call(LoopStep)
    /\ WF_call(spc = "started" /\ Tick /\ UNCHANGED starting)
    /\ WF_call(LeaderKilled /\ UNCHANGED starting)
    /\ WF_call(DescendantKilled /\ UNCHANGED starting)

-----------------------------------------------------------------------------
Ended == spc = "failed" \/ Returned

(***************************************************************************)
(* Whatever fails, and however the loop is left, nothing of the call       *)
(* stays: neither memory nor a descriptor; and while it runs the parent    *)
(* has exactly the read ends of the streams that are not at their end.     *)
(***************************************************************************)
NothingHeld ==
    /\ Ended => held = {} /\ S!Ours(table) = {}
    /\ spc = "started" => S!Ours(table) = {ReadEnd(s) : s \in fd}

\* See HelperStart: the helper has its three streams and no other file.
HelperStreams == S!HelperStreams

(***************************************************************************)
(* A call ends, whether its start fails, or its helper ends, hangs, is     *)
(* killed before it was executed or leaves descendants that keep a pipe.   *)
(***************************************************************************)
CallEnds == <>Ended
=============================================================================
