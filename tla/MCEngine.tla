------------------------------- MODULE MCEngine -------------------------------
(***************************************************************************)
(* Model-checking instances of Engine.                                     *)
(*                                                                         *)
(* MCEngineProxy.cfg: one collector behind a proxy with a detail scan, the *)
(* deferral shorter than the clock, so that a read may answer before it,   *)
(* during it, after it, or time out.                                       *)
(* MCEnginePair.cfg: a local collector and one behind a proxy, so that a   *)
(* tick publishes one result and defers the other.                         *)
(* MCEngineHistory.cfg: the first instance again, asked whether a history  *)
(* goes back in time.                                                      *)
(***************************************************************************)
EXTENDS Engine

MCFloor  == [id \in Collectors |-> 0]
MCTarget == [id \in Collectors |-> IF id \in Proxied THEN 2 ELSE Nil]
NoTarget == [id \in Collectors |-> Nil]

=============================================================================
