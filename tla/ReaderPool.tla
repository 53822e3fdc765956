------------------------------ MODULE ReaderPool ------------------------------
(***************************************************************************)
(* What the worker client promises to the rest of the program: a bounded   *)
(* pool of reader processes for one source.  A slot is taken when a caller *)
(* first asks for data, gets at most one reader process, and is free again *)
(* once that process is gone.  A slot nobody wants any more is freed,      *)
(* whatever its reader does.                                               *)
(***************************************************************************)
EXTENDS Integers, FiniteSets

CONSTANT Slots

VARIABLES
    limit,     \* slots that may be taken at once; it never changes
    slot,      \* slot -> "free", "starting", "running" or "ending"
    wanted     \* slots a caller holds a session on

Taken == {s \in Slots : slot[s] # "free"}

Init ==
    /\ limit \in Nat \ {0}
    /\ slot = [s \in Slots |-> "free"]
    /\ wanted = {}

\* A slot whose reader is gone, or that never had one.
Gone(s) == slot[s] \in {"free", "ending"}

\* A caller asks; slots whose reader is gone may be forgotten in exchange.
Ask(s) ==
    /\ slot[s] = "free"
    /\ Cardinality(Taken) < limit
    /\ slot' = [slot EXCEPT ![s] = "starting"]
    /\ \E forgotten \in SUBSET {w \in wanted : Gone(w)} : wanted' = (wanted \ forgotten) \cup {s}

Forget(s) ==
    /\ wanted' = wanted \ {s}
    /\ UNCHANGED slot

\* A slot's life; only a slot that was just taken gets a reader.
Becomes(s, from, to) ==
    /\ slot[s] = from
    /\ slot' = [slot EXCEPT ![s] = to]
    /\ UNCHANGED wanted

Start(s) == Becomes(s, "starting", "running")
Fail(s)  == Becomes(s, "starting", "ending")
Stop(s)  == Becomes(s, "running", "ending")
Free(s)  == Becomes(s, "ending", "free")

Next ==
    /\ UNCHANGED limit
    /\ \E s \in Slots : Ask(s) \/ Forget(s) \/ Start(s) \/ Fail(s) \/ Stop(s) \/ Free(s)

Reclaimed == \A s \in Slots : (s \notin wanted) ~> (slot[s] = "free")

SafeSpec == Init /\ [][Next]_<<limit, slot, wanted>>
Spec == SafeSpec /\ Reclaimed

=============================================================================
