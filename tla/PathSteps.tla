------------------------------ MODULE PathSteps ------------------------------
(***************************************************************************)
(* The steps native code is made of as far as its resources go: file       *)
(* descriptors, handles, memory outside Lua, mappings, locks, references.  *)
(*                                                                         *)
(* A program is a record of blocks, a block a sequence of steps.  Control  *)
(* enters at `main' and goes from step to step; a jump names a block or an *)
(* end: "value" (a result), "error" (nil and a reason) or "raised" (a Lua  *)
(* error, which is a longjmp past all C code).  A block that runs out ends *)
(* in "value".  `Do' calls a function, itself a block, and `Back' returns  *)
(* to the step after the call.  Conditions on data are left open: `Try'    *)
(* may jump or not.                                                        *)
(***************************************************************************)

Move(do, on, to) == [do |-> do, on |-> on, to |-> to]

Take(r, or)    == Move("take", r, or)       \* acquire r, or jump
Attempt(r)     == Move("attempt", r, "")    \* acquire r, or go on without it
Once(r)        == Move("once", r, "")      \* load r unless it is there; it stays
Retain(r)      == Move("retain", r, "")     \* another reference to an object
Guard(r, or)   == Move("guard", r, or)      \* acquire r into the io_guard, or jump
Adopt(r)       == Move("adopt", r, "")      \* the guard takes charge of r
Forget(r)      == Move("forget", r, "")     \* the guard's slot is reset
Close(r)       == Move("close", r, "")      \* release r unconditionally
CloseIf(r)     == Move("closeif", r, "")    \* release r if it is held
Check(r)       == Move("check", r, "")      \* r is released if it is not what it should be
Use(r)         == Move("use", r, "")        \* a call that needs r
Turn(r, s)     == Move("turn", r, s)        \* r becomes part of s
If(r, to)      == Move("if", r, to)         \* jump if r is held
Try(to)        == Move("try", "", to)       \* may jump
Goto(to)       == Move("goto", "", to)
Do(f)          == Move("do", "", f)         \* call another function
Back           == Move("back", "", "")      \* return from it
Lua            == Try("raised")             \* a Lua call that may run out of memory
Fail(to)       == Try(to)                   \* a system call or a check that may fail

Ends == {"value", "error", "raised"}
=============================================================================
