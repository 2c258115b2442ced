-------------------------------- MODULE Region --------------------------------
(***************************************************************************)
(* The address space of one process: libmem.c's __alloc and __free over    *)
(* the list of free regions, and inc_vma_limit, which moves the program    *)
(* break when no free region fits.  Addresses are bytes.                   *)
(*                                                                         *)
(* rg_end means two things in the code: in a region cut out of the free    *)
(* list it is the last byte, in one made at the break the byte after it.   *)
(* The model keeps rg_start and rg_end exactly as the code computes them.  *)
(* Whether frames could be found for new pages does not matter here: the   *)
(* system call reports success in any case (Paging.tla has the frames).    *)
(***************************************************************************)
EXTENDS Integers, Sequences

CONSTANTS
  Syms,      \* indices of symrgtbl the program uses
  Sizes,     \* sizes it asks for
  PageSize,  \* PAGING_PAGESZ
  IntHalf,   \* 2^31: int ranges over -IntHalf .. IntHalf - 1
  MaxBrk     \* bound: no allocation moves the break beyond it

ASSUME RegionAssumption ==
  /\ Sizes \subseteq Nat \ {0}
  /\ PageSize \in Nat \ {0} /\ IntHalf \in Nat \ {0} /\ MaxBrk \in Nat

VARIABLES
  freeList,  \* vm_freerg_list, head first
  sym,       \* symrgtbl
  sbrk,      \* sbrk and vm_end, which always move together
  asked      \* size each live symbol asked for; 0 when it is not allocated

vars == <<freeList, sym, sbrk, asked>>

Rg(s, e) == [start |-> s, end |-> e]

\* init_mm: one free region from 0 to 0; the symbol table reads as zeros
Init ==
  /\ freeList = <<Rg(0, 0)>>
  /\ sym = [r \in Syms |-> Rg(0, 0)]
  /\ sbrk = 0
  /\ asked = [r \in Syms |-> 0]

------------------------------------------------------------------------------
\* enlist_vm_freerg_list refuses an empty region
Enlist(list, rg) == IF rg.start >= rg.end THEN list ELSE <<rg>> \o list

RoomInOver(rg) == rg.end - rg.start + 2   \* mutant

RoomIn(rg) == rg.end - rg.start + 1

Fits(i, n) ==
  RoomIn(freeList[i]) >= n /\ \A j \in 1 .. i - 1 : RoomIn(freeList[j]) < n

Cut(rg, n) == Rg(rg.start + n, rg.end)

\* mutant: an exhausted node is not unlinked
ListAfterKeeping(i, n) ==
  LET rest == Cut(freeList[i], n)
  IN  IF rest.start > rest.end THEN freeList ELSE [freeList EXCEPT ![i] = rest]

\* what get_free_vmrg_area leaves of the list after taking n bytes at node i
ListAfter(i, n) ==
  LET rest == Cut(freeList[i], n)
  IN  IF rest.start > rest.end
      THEN SubSeq(freeList, 1, i - 1) \o SubSeq(freeList, i + 1, Len(freeList))
      ELSE [freeList EXCEPT ![i] = rest]

\* __alloc, served from the first free region that fits
AllocFree(r, n) == \E i \in DOMAIN freeList :
  /\ Fits(i, n)
  /\ sym' = [sym EXCEPT ![r] = Rg(freeList[i].start, freeList[i].start + n - 1)]
  /\ freeList' = ListAfter(i, n)
  /\ asked' = [asked EXCEPT ![r] = n]
  /\ UNCHANGED sbrk

------------------------------------------------------------------------------
Aligned(n) == ((n + PageSize - 1) \div PageSize) * PageSize

ToInt(x) == ((x + IntHalf) % (2 * IntHalf)) - IntHalf

(* validate_overlap_vm_area.  The only vma has vm_id 1 and is asked about  *)
(* as vma 0, so the new area is compared with the vma it extends.          *)
Overlaps(start, end) ==
  /\ sbrk # 0
  /\ \/ ToInt((end - 1) * (sbrk - 1 - start)) >= 0
     \/ ToInt(start * (sbrk - end)) >= 0

GrownBrkOver(n) == sbrk + Aligned(n) + PageSize   \* mutant: a page too many

\* inc_vma_limit; __sys_memmap drops its return value
GrownBrk(n) ==
  IF Overlaps(sbrk, sbrk + Aligned(n)) THEN sbrk ELSE sbrk + Aligned(n)

\* __alloc at the break, with what is left of the last page put on the list
AllocBrk(r, n) ==
  /\ \A i \in DOMAIN freeList : RoomIn(freeList[i]) < n
  /\ sbrk + Aligned(n) <= MaxBrk
  /\ sym' = [sym EXCEPT ![r] = Rg(sbrk, sbrk + n)]
  /\ sbrk' = GrownBrk(n)
  /\ freeList' = Enlist(freeList, Rg(sbrk + n, sbrk'))
  /\ asked' = [asked EXCEPT ![r] = n]

(* __free of a symbol that is allocated.  The symbol keeps its region: a   *)
(* second free would enlist it again, and programs are assumed not to.     *)
Free(r) ==
  /\ asked[r] # 0
  /\ freeList' = Enlist(freeList, sym[r])
  /\ asked' = [asked EXCEPT ![r] = 0]
  /\ UNCHANGED <<sym, sbrk>>

Next == \E r \in Syms :
  \/ Free(r)
  \/ \E n \in Sizes : AllocFree(r, n) \/ AllocBrk(r, n)

Spec == Init /\ [][Next]_vars

------------------------------------------------------------------------------
TypeOK ==
  /\ freeList \in Seq([start : Nat, end : Nat])
  /\ sym \in [Syms -> [start : Nat, end : Nat]]
  /\ sbrk \in 0 .. MaxBrk
  /\ asked \in [Syms -> Sizes \cup {0}]

Live == {r \in Syms : asked[r] # 0}

Apart(a, b) == a.end <= b.start \/ b.end <= a.start

(* Read as start .. end - 1, no two of the live symbols and the free       *)
(* regions ever share a byte, through any sequence of allocations,         *)
(* reallocations and frees.  The bytes programs asked for can overlap in   *)
(* one (EdgeOnly).                                                         *)
Disjoint ==
  /\ \A r, t \in Live : r # t => Apart(sym[r], sym[t])
  /\ \A r \in Live : \A i \in DOMAIN freeList : Apart(sym[r], freeList[i])
  /\ \A i, j \in DOMAIN freeList : i # j => Apart(freeList[i], freeList[j])

\* what the program asked for; get_free_vmrg_area counts rg_end in
Bytes(r) == sym[r].start .. sym[r].start + asked[r] - 1

(* Of the bytes they asked for two live symbols share at most one: the     *)
(* last byte, at rg_end, of one that was cut from the free list, where     *)
(* another region begins.  In the same way a symbol may have the byte at   *)
(* the break, which the next page begins with, but none above it.          *)
EdgeOnly ==
  \A r \in Live :
    /\ \A t \in Live \ {r} : Bytes(r) \cap Bytes(t) \subseteq {sym[r].end, sym[t].end}
    /\ Bytes(r) \subseteq 0 .. sbrk
==============================================================================
