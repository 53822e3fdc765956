---------------------------- MODULE MCWorkerClient ----------------------------
(***************************************************************************)
(* WorkerClient on small instances.  The code's 2 s, 5 s, 5 s and 20 ms    *)
(* become 1, 1, 1 and 1 unit.                                              *)
(*                                                                         *)
(* MCWorker.cfg: a GPU source with two policies, queried again from inside *)
(* a query, one controller at a time; and a hardware source, which two     *)
(* sessions compete for.                                                   *)
(* MCWorkerLive.cfg: one hardware session, under fairness.                 *)
(***************************************************************************)
EXTENDS WorkerClient, TLC

CONSTANTS s1, s2, j1, j2, f1, f2, f3, page, all

Source(is_gpu, ss, ps, d, n) == [gpu |-> is_gpu, sessions |-> ss, policies |-> ps, depth |-> d, limit |-> n]

SafetySources == {Source(TRUE, {s1}, {page, all}, 2, 1), Source(FALSE, {s1, s2}, {page}, 1, 2)}
LiveSources   == {Source(FALSE, {s1}, {page}, 1, 1)}

Heap_Symmetry == Permutations(Jobs) \cup Permutations(Frames)

=============================================================================
