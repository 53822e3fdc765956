----------------------------- MODULE MCScheduler -----------------------------
(***************************************************************************)
(* Model-checking instances of Scheduler.                                  *)
(*                                                                         *)
(* MCScheduler.cfg: one collector, two time units per millisecond, every   *)
(* kind of result.  Collectors meet only in a tick's single clock reading, *)
(* so one collector carries every cadence property.                        *)
(* Two collectors, visited in one round while the clock moves, are         *)
(* MCEngine's second instance.                                             *)
(***************************************************************************)
EXTENDS Scheduler

=============================================================================
