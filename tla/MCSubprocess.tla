----------------------------- MODULE MCSubprocess -----------------------------
(***************************************************************************)
(* MCSubprocess.cfg: two streams of two chunks each, of which one fits; a  *)
(* descendant that may leave the group; a program started with all of its  *)
(* standard streams, without its input, or without its error stream but    *)
(* with another file in its place.                                         *)
(***************************************************************************)
EXTENDS Subprocess

MCStarts == {{0, 1, 2}, {1, 2}, {0, 1, 3}}
=============================================================================
