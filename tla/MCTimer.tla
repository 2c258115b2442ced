------------------------------- MODULE MCTimer -------------------------------
(* Two CPUs and the loader for a few slots; see MCTimer.cfg. *)
EXTENDS Timer
==============================================================================
