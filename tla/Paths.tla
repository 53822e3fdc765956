--------------------------------- MODULE Paths ---------------------------------
(***************************************************************************)
(* What becomes of the resources of native functions on every path through *)
(* them.  One thread calls one function after another; what a function     *)
(* holds when it ends is lost unless it is one of the `statics' of its     *)
(* unit (a source file or a few of one platform), which later calls find   *)
(* again.  A behaviour stays in one unit.                                  *)
(*                                                                         *)
(* An io_guard (wtop_native.c) is a to-be-closed userdata: Lua calls its   *)
(* close method when the function ends, whichever way it ends.             *)
(***************************************************************************)
EXTENDS Integers, SequencesExt, PathSteps

CONSTANT Units  \* unit -> its programs by function name, its statics, and the
                \* functions careful not to hold anything while Lua may raise

ASSUME UnitsAssumption == \A u \in DOMAIN Units : Units[u].careful \subseteq DOMAIN Units[u].programs

VARIABLES
    unit,           \* the unit whose functions are called
    fn,             \* the function that runs, "none" between calls
    at,             \* its block, or the end it has come to
    next,           \* index of the next step in the block
    stack,          \* where the functions that were called return to
    open,           \* resources held
    kept,           \* resources the guard will release
    lost            \* what the last call left behind: resource, function, end

vars == <<unit, fn, at, next, stack, open, kept, lost>>

Programs == Units[unit].programs
Statics  == Units[unit].statics
Careful  == Units[unit].careful

Init ==
    /\ unit \in DOMAIN Units
    /\ fn = "none" /\ at = "value" /\ next = 1 /\ stack = <<>>
    /\ open = {} /\ kept = {} /\ lost = {}

Running == fn # "none" /\ at \notin Ends
Block   == Programs[fn][at]
This    == Block[next]
Doing(what) == Running /\ next <= Len(Block) /\ This.do \in what

Advance    == next' = next + 1 /\ UNCHANGED <<fn, at, stack>>
Jump(to)   == at' = to /\ next' = 1 /\ UNCHANGED <<fn, stack>>
Hold       == open' = open \cup {This.on}

Call(f) ==
    /\ fn = "none"
    /\ fn' = f /\ at' = "main" /\ next' = 1
    /\ UNCHANGED <<stack, open, kept, lost>>

Acquire ==
    /\ Doing({"take", "attempt", "once", "retain", "guard"})
    /\ Hold /\ Advance
    /\ kept' = IF This.do = "guard" THEN kept \cup {This.on} ELSE kept
    /\ UNCHANGED lost

AcquireFails ==
    /\ Doing({"take", "attempt", "once", "guard"})
    /\ IF This.do \in {"attempt", "once"} THEN Advance ELSE Jump(This.to)
    /\ UNCHANGED <<open, kept, lost>>

Release ==
    /\ Doing({"close", "closeif", "check"})
    /\ open' = open \ {This.on} /\ Advance /\ UNCHANGED <<kept, lost>>

Charge ==
    /\ Doing({"adopt", "forget"})
    /\ kept' = IF This.do = "adopt" THEN kept \cup {This.on} ELSE kept \ {This.on}
    /\ Advance /\ UNCHANGED <<open, lost>>

Transfer ==
    /\ Doing({"turn"})
    /\ open' = (open \ {This.on}) \cup {This.to}
    /\ Advance /\ UNCHANGED <<kept, lost>>

Work ==
    /\ Doing({"use", "try", "check"}) \/ (Doing({"if"}) /\ This.on \notin open)
    /\ Advance /\ UNCHANGED <<open, kept, lost>>

Branch ==
    /\ Doing({"try", "goto"}) \/ (Doing({"if"}) /\ This.on \in open)
    /\ Jump(This.to) /\ UNCHANGED <<open, kept, lost>>

Enter ==
    /\ Doing({"do"})
    /\ stack' = Append(stack, [at |-> at, next |-> next + 1])
    /\ at' = This.to /\ next' = 1 /\ UNCHANGED <<fn, open, kept, lost>>

Return ==
    /\ Doing({"back"})
    /\ at' = Last(stack).at /\ next' = Last(stack).next /\ stack' = Front(stack)
    /\ UNCHANGED <<fn, open, kept, lost>>

RunOut ==
    /\ Running /\ next > Len(Block)
    /\ Jump("value") /\ UNCHANGED <<open, kept, lost>>

\* The frame is left: l_io_guard_close releases what the guard still has.
Leave ==
    /\ fn # "none" /\ at \in Ends
    /\ fn' = "none" /\ stack' = <<>>
    /\ open' = open \cap Statics
    /\ lost' = (open \ (kept \cup Statics)) \X {fn} \X {at}
    /\ kept' = {}
    /\ UNCHANGED <<at, next>>

Next ==
    /\ UNCHANGED unit
    /\ \/ \E f \in DOMAIN Programs : Call(f)
       \/ Acquire \/ AcquireFails \/ Release \/ Charge \/ Transfer
       \/ Work \/ Branch \/ Enter \/ Return \/ RunOut \/ Leave

Spec == Init /\ [][Next]_vars

-----------------------------------------------------------------------------
\* No path that returns to Lua loses a resource; a careful function does not
\* even when a Lua call in it runs out of memory.
NothingLeft == \A l \in lost : l[3] = "raised" /\ l[2] \notin Careful

\* A resource is released once, used while it is held, and never overwritten.
Disciplined ==
    /\ Doing({"close", "use", "turn"}) => This.on \in open
    /\ Doing({"take", "attempt", "retain", "guard"}) => This.on \notin open
    /\ fn # "none" /\ at \in Ends => kept \subseteq open
=============================================================================
