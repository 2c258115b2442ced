-------------------------------- MODULE MCOs --------------------------------
(* Three processes of two priorities: the second starts with the first, in *)
(* a lower priority, and the third arrives after a slot without a load.    *)
EXTENDS Os

MCPrio == <<0, 1, 1>>
MCCodeSize == <<3, 2, 2>>
MCStartTime == <<0, 0, 3>>

\* three processes that share the low priority, and its single slot
MCPrioLow == <<1, 1, 1>>
MCLongSize == <<4, 4, 3>>
MCNoStart == <<0, 0, 0>>
==============================================================================
