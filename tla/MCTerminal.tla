------------------------------- MODULE MCTerminal -------------------------------
(***************************************************************************)
(* MCTerminal.cfg: both platforms, every way to end, signals at every      *)
(* step.  On macOS the program always ends through terminal_stop: its exit *)
(* handler does not leave the alternate screen.                            *)
(***************************************************************************)
EXTENDS Terminal
=============================================================================
