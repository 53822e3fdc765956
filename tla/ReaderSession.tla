----------------------------- MODULE ReaderSession -----------------------------
(***************************************************************************)
(* What a session of the reader client is to the Lua proxy that holds it:  *)
(* an open session has one request at a time, which is asked for, then     *)
(* answered or failed, and an answer is there to be taken once.            *)
(*                                                                         *)
(* Nothing is ever answered that was not asked for, and no answer comes    *)
(* twice or after a failure; a new request may replace an answer or a      *)
(* failure but never one that is under way.  Closing ends everything, at   *)
(* once for the caller, however long the reader takes to go.               *)
(***************************************************************************)

VARIABLES
    open,       \* the sessions that are open
    request     \* session -> "idle", "asked", "answered" or "failed"

session  == <<open, request>>
Sessions == DOMAIN request

Init ==
    /\ request = [s \in Sessions |-> "idle"]
    /\ open \subseteq Sessions

Open(s) ==
    /\ open' = open \cup {s}
    /\ UNCHANGED request

\* One session is closed, or all of them when the program stops.
Close(those) ==
    /\ open' = open \ those
    /\ request' = [s \in Sessions |-> IF s \in those THEN "idle" ELSE request[s]]

Becomes(s, from, to) ==
    /\ s \in open /\ request[s] \in from
    /\ request' = [request EXCEPT ![s] = to]
    /\ UNCHANGED open

(* The caller's steps.  It takes an answer, or throws away what it cannot   *)
(* use; a failure is forgotten after a while.                               *)

Ask(s)    == Becomes(s, {"idle", "answered", "failed"}, "asked")
Take(s)   == Becomes(s, {"answered"}, "idle")
Forget(s) == Becomes(s, {"failed"}, "idle")

(* The reader's steps.                                                      *)

Answer(s) == Becomes(s, {"asked"}, "answered")
Fail(s)   == Becomes(s, {"asked"}, "failed")

Next ==
    \/ \E those \in SUBSET Sessions : Close(those)
    \/ \E s \in Sessions :
          Open(s) \/ Ask(s) \/ Take(s) \/ Forget(s) \/ Answer(s) \/ Fail(s)

Spec == Init /\ [][Next]_session

=============================================================================
