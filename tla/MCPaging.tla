------------------------------- MODULE MCPaging -------------------------------
(* Two swap devices: a small active one and one more behind it. *)
EXTENDS Paging, TLC

MCSwap == (0 :> 1) @@ (1 :> 1)
MCSwapBig == (0 :> 4) @@ (1 :> 1)

Perms == Permutations(Procs)
==============================================================================
