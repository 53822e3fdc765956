------------------------------- MODULE Quality -------------------------------
(***************************************************************************)
(* The vocabulary of src/src/wtop/model/quality.lua: the statuses and the   *)
(* qualities a collector result may carry.  Every consumer (the scheduler,  *)
(* the snapshot, the inspectors) reads these two sets and refuses a word    *)
(* outside them.                                                            *)
(***************************************************************************)

VALID_STATUS == {"ok", "unavailable", "denied", "error"}

VALID_QUALITY == {"fresh", "stale", "gap", "estimated", "unavailable",
                  "denied", "error", "partial", "reset", "measured",
                  "truncated", "missing", "held"}

\* The two qualities that claim a current, directly measured value.
CURRENT_QUALITY == {"fresh", "measured"}

=============================================================================
