------------------------------- MODULE PageStore -------------------------------
(***************************************************************************)
(* What the paged memory promises to programs that write and read: every   *)
(* process has pages of its own, and a read returns what the process last  *)
(* wrote there.  No frame, no swap device and no other process is visible. *)
(***************************************************************************)
CONSTANTS Procs, Pages, Values, Junk

VARIABLES
  mem,    \* what each process last wrote to each of its pages
  answer  \* what the last read returned

Init ==
  /\ mem = [p \in Procs |-> [g \in Pages |-> Junk]]
  /\ answer = Junk

Write(p, g, v) ==
  /\ mem' = [mem EXCEPT ![p][g] = v]
  /\ UNCHANGED answer

\* a page that was never written reads as anything
Read(p, g) ==
  /\ answer' \in IF mem[p][g] = Junk THEN {Junk} \cup Values ELSE {mem[p][g]}
  /\ UNCHANGED mem

Next ==
  \E p \in Procs, g \in Pages :
    Read(p, g) \/ \E v \in Values : Write(p, g, v)

Spec == Init /\ [][Next]_<<mem, answer>>
==============================================================================
