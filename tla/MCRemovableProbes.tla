--------------------------- MODULE MCRemovableProbes ---------------------------
(***************************************************************************)
(* MCRemovableProbes.cfg.  Two removable drives that come, go and change   *)
(* their kind and share one thread; three drives with two threads, one of  *)
(* which may never answer; three that answer with two threads; and two     *)
(* drives with a thread each that are due at every collection.  These are  *)
(* the most drives that EveryDriveMeasured allows in each case.            *)
(*                                                                         *)
(* Collections take place every 5 s at most, so that an incomplete record  *)
(* is due at the second one, or at the first if it answered at once and    *)
(* the next collection is a little late; a complete one is due at the      *)
(* seventh or sixth, for which 3 stands.  While the mount table is not     *)
(* shown they are 30 s apart: the first, and the second or first.          *)
(***************************************************************************)
EXTENDS RemovableProbes

MCMachines ==
    {[letters |-> 2, probes |-> 1, kinds |-> {"removable"}, stuck |-> {}, changes |-> 2, miss |-> 2, hit |-> 3],
     [letters |-> 3, probes |-> 2, kinds |-> {"fixed", "removable"}, stuck |-> {1}, changes |-> 0, miss |-> 2, hit |-> 3],
     [letters |-> 3, probes |-> 2, kinds |-> {"removable"}, stuck |-> {}, changes |-> 0, miss |-> 2, hit |-> 3],
     [letters |-> 2, probes |-> 2, kinds |-> {"removable"}, stuck |-> {}, changes |-> 1, miss |-> 1, hit |-> 2]}
=============================================================================
