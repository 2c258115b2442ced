------------------------------- MODULE MCRegion -------------------------------
(* Three symbols over at most three pages of four bytes; see the cfg files. *)
EXTENDS Region
==============================================================================
