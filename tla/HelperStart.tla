------------------------------ MODULE HelperStart ------------------------------
(***************************************************************************)
(* How the subprocess runner starts a helper: the first half of l_run,     *)
(* src/native/wtop_native.c.                                               *)
(*                                                                         *)
(* The parent allocates the argument vector, two pipes, two buffers and    *)
(* the environment, then forks.  The child rearranges its descriptors and  *)
(* executes the helper.  Every acquisition may fail, and the failure path  *)
(* of each is written out in the code: `held' follows the memory and the   *)
(* descriptor tables the files.  The kernel gives out the lowest free      *)
(* descriptor, so what the child's sequence of dup2 and close does depends *)
(* on the descriptors the program itself was started with.                 *)
(***************************************************************************)
EXTENDS Integers, FiniteSets, FiniteSetsExt

CONSTANTS
    MaxFd,          \* largest descriptor number of a process
    Limit,          \* _SC_OPEN_MAX: the last resort closes only below it
    Starts          \* the sets of descriptors the program may have open

Fd   == 0 .. MaxFd
None == "none"

VARIABLES
    pc,         \* next step of the parent
    table,      \* the parent's descriptor table
    private,    \* its descriptors with FD_CLOEXEC
    held,       \* memory the parent owns
    out, err,   \* stdout_pipe and stderr_pipe
    cpc,        \* next step of the child
    ctable,     \* the child's descriptor table
    cprivate    \* its descriptors with FD_CLOEXEC

parent == <<pc, table, private, held, out, err>>
child  == <<cpc, ctable, cprivate>>
vars   == <<parent, child>>

NoPipe == [r |-> -1, w |-> -1]
OutNames == [r |-> "outR", w |-> "outW"]
ErrNames == [r |-> "errR", w |-> "errW"]
Memory == {"arguments", "outData", "errData", "environment"}

\* Descriptor tables: what open, pipe, dup2 and close do to one.
Lowest(t)      == Min({f \in Fd : t[f] = None})
Room(t, n)     == Cardinality({f \in Fd : t[f] = None}) >= n
Shut(t, S)     == [f \in Fd |-> IF f \in S THEN None ELSE t[f]]
Dup(t, f, g)   == [t EXCEPT ![g] = t[f]]
Ends(p)        == {p.r, p.w} \ {-1}

Init ==
    /\ pc = "arguments" /\ cpc = "none"
    /\ \E S \in Starts :
         table = [f \in Fd |-> IF f \in S THEN "other" ELSE None]
    /\ private = {} /\ held = {}
    /\ out = NoPipe /\ err = NoPipe
    /\ ctable = table /\ cprivate = {}

-----------------------------------------------------------------------------
(***************************************************************************)
(* The parent.  Return is every early return: the descriptors it closes    *)
(* and the memory it releases by hand, and the guards, which Lua closes.   *)
(***************************************************************************)
Guarded == {"arguments", "outData", "errData"}

Return(fds, memory) ==
    /\ pc' = "failed"
    /\ table' = Shut(table, fds)
    /\ private' = private \ fds
    /\ held' = held \ (memory \cup Guarded)
    /\ UNCHANGED <<out, err>>

\* calloc of the vector; a bad or relative path is an argument error.
Arguments ==
    /\ pc = "arguments"
    /\ \/ /\ held' = held \cup {"arguments"}
          /\ pc' = "outPipe"
          /\ UNCHANGED <<table, private, out, err>>
       \/ Return({}, {"arguments"})
    /\ UNCHANGED child

\* make_pipe: both ends private, or neither exists.
MakePipe(here, there, pipe, names, undo) ==
    /\ pc = here
    /\ \/ /\ Room(table, 2)
          /\ LET r == Lowest(table)
                 w == Lowest([table EXCEPT ![r] = "used"])
             IN  /\ pipe' = [r |-> r, w |-> w]
                 /\ table' = [table EXCEPT ![r] = names.r, ![w] = names.w]
                 /\ private' = private \cup {r, w}
          /\ pc' = there
          /\ UNCHANGED held
       \/ Return(undo, {"arguments"})
    /\ UNCHANGED child

OutPipe == MakePipe("outPipe", "errPipe", out, OutNames, {}) /\ UNCHANGED err
ErrPipe == MakePipe("errPipe", "captures", err, ErrNames, Ends(out)) /\ UNCHANGED out

AllEndsOfOut == Ends(out)       \* a mistake: the second pipe is forgotten
AllEnds == Ends(out) \cup Ends(err)

\* set_nonblocking of both read ends, then the two buffers.
Captures ==
    /\ pc = "captures"
    /\ \/ /\ held' = held \cup {"outData", "errData"}
          /\ pc' = "environment"
          /\ UNCHANGED <<table, private, out, err>>
       \/ Return(AllEnds, {"arguments", "outData", "errData"})
    /\ UNCHANGED child

Environment ==
    /\ pc = "environment"
    /\ \/ /\ held' = held \cup {"environment"}
          /\ pc' = "fork"
          /\ UNCHANGED <<table, private, out, err>>
       \/ Return(AllEnds, Memory)
    /\ UNCHANGED child

Fork ==
    /\ pc = "fork"
    /\ \/ /\ pc' = "group"
          /\ cpc' = "group"
          /\ ctable' = table
          /\ cprivate' = private
          /\ UNCHANGED <<table, private, held, out, err>>
       \/ Return(AllEnds, Memory) /\ UNCHANGED child

(***************************************************************************)
(* The parent's own setpgid, which the child's races.  Its failure kills   *)
(* the child and reaps it; success keeps the read ends and the buffers.    *)
(***************************************************************************)
GroupFails ==
    /\ pc = "group"
    /\ Return(AllEnds, Memory)
    /\ cpc' = "gone"
    /\ UNCHANGED <<ctable, cprivate>>

GroupSet ==
    /\ pc = "group"
    /\ held' = held \ {"arguments", "environment"}
    /\ table' = Shut(table, {out.w, err.w})
    /\ private' = private \ {out.w, err.w}
    /\ pc' = "started"
    /\ UNCHANGED <<out, err, child>>

-----------------------------------------------------------------------------
(***************************************************************************)
(* The child, between fork and execve.  ChildExits is every _exit(126).    *)
(***************************************************************************)
ChildExits ==
    /\ cpc \in {"group", "null", "streams"}
    /\ cpc' = "gone"
    /\ UNCHANGED <<parent, ctable, cprivate>>

\* setpgid and the default signal actions.
ChildGroup ==
    /\ cpc = "group"
    /\ cpc' = "null"
    /\ ctable' = Shut(ctable, {out.r, err.r})
    /\ UNCHANGED <<parent, cprivate>>

\* open("/dev/null"), dup2 to 0, close the extra one.
ChildNull ==
    /\ cpc = "null" /\ Room(ctable, 1)
    /\ LET null == Lowest(ctable)
           opened == [ctable EXCEPT ![null] = "null"]
           moved  == Dup(opened, null, 0)
       IN  /\ ctable' = IF null # 0 THEN Shut(moved, {null}) ELSE moved
           /\ cprivate' = cprivate \ {null, 0}
    /\ cpc' = "streams"
    /\ UNCHANGED parent

\* Two dup2, then the two write ends are closed.  dup2 of a descriptor onto
\* itself changes nothing.
WireStreams(t) == Dup(Dup(t, out.w, 1), err.w, 2)
CloseWired(t)  == Shut(t, {out.w, err.w})

ChildStreams ==
    /\ cpc = "streams"
    /\ ctable' = CloseWired(WireStreams(ctable))
    /\ cprivate' = cprivate \ {IF out.w # 1 THEN 1 ELSE -1, IF err.w # 2 THEN 2 ELSE -1}
    /\ cpc' = "extra"
    /\ UNCHANGED parent

\* close_extra_fds: close_range, or /proc/self/fd, or every number up to a
\* limit; the second may fail after it has closed some.
CloseExtraAbove3 == {f \in Fd : f > 3}        \* a mistake: one too few
CloseExtra == {f \in Fd : f >= 3}
LastResort == {f \in Fd : f >= 3 /\ f < Limit}

ChildExtra ==
    /\ cpc = "extra"
    /\ \/ ctable' = Shut(ctable, CloseExtra)
       \/ \E some \in SUBSET CloseExtra : ctable' = Shut(ctable, some \cup LastResort)
    /\ cpc' = "exec"
    /\ UNCHANGED <<parent, cprivate>>

ChildExec ==
    /\ cpc = "exec"
    /\ \/ cpc' = "helper" /\ ctable' = Shut(ctable, cprivate)
       \/ cpc' = "gone" /\ UNCHANGED ctable
    /\ UNCHANGED <<parent, cprivate>>

Parent == Arguments \/ OutPipe \/ ErrPipe \/ Captures \/ Environment \/ Fork
            \/ GroupFails \/ GroupSet
Child  == ChildExits \/ ChildGroup \/ ChildNull \/ ChildStreams \/ ChildExtra \/ ChildExec

-----------------------------------------------------------------------------
Ours(t) == {f \in Fd : t[f] \notin {None, "other"}}

(***************************************************************************)
(* The helper runs with /dev/null, the two pipes and nothing else: its     *)
(* output is captured, and no file of the program reaches it.              *)
(***************************************************************************)
HelperStreams ==
    cpc = "helper" =>
        ctable = [f \in Fd |-> CASE f = 0 -> "null" [] f = 1 -> "outW" [] f = 2 -> "errW"
                                 [] OTHER -> None]

=============================================================================
