-------------------------------- MODULE MCStore --------------------------------
(***************************************************************************)
(* MCStore.cfg: Store in eight settings.  One instance on each platform,   *)
(* with a failing call, power losses, and on Linux and macOS a kill or a   *)
(* file that unlink leaves; two instances that share the directory and     *)
(* create it, with a failing call, also with a kill, and with a power      *)
(* loss; one instance that nothing disturbs but an editor who spoils the   *)
(* layout while nobody runs.                                               *)
(***************************************************************************)
EXTENDS Store

CONSTANTS p1, p2

Setting(ps, os, vs, ns, fails, losses, kills, spoils, d) ==
    [procs |-> ps, platform |-> os, versions |-> vs, names |-> ns, faults |-> fails,
     crashes |-> losses, strays |-> kills, edits |-> spoils, anytime |-> FALSE, depth |-> d]

MCSettings ==
    {Setting({p1},     "linux",   2, 4, 1, 1, 1, 0, 1),
     Setting({p1},     "macos",   2, 3, 1, 1, 0, 0, 1),
     Setting({p1},     "macos",   2, 3, 1, 0, 1, 0, 1),
     Setting({p1},     "windows", 2, 4, 1, 2, 0, 0, 1),
     Setting({p1, p2}, "linux",   2, 2, 1, 0, 0, 0, 2),
     Setting({p1, p2}, "linux",   1, 2, 1, 0, 1, 0, 2),
     Setting({p1, p2}, "linux",   1, 2, 1, 1, 0, 0, 1),
     Setting({p1},     "linux",   3, 6, 0, 0, 0, 1, 0)}
=============================================================================
