-------------------------------- MODULE Paging --------------------------------
(***************************************************************************)
(* mm.c, mm-memphy.c and the page accesses of libmem.c: how the processes  *)
(* share the frames of RAM and of the swap devices.                        *)
(*                                                                         *)
(* A page holds one value; PAGING_PAGESZ bytes that always travel together *)
(* add nothing.  mmvm_lock makes alloc and write one action each; read     *)
(* does not take it, so a read that faults is two.  The heap that init_mm  *)
(* and load use is taken to read as zeros: an empty FIFO, absent pages,    *)
(* active_mswp_id 0 and no frame on a device of size 0.                    *)
(***************************************************************************)
EXTENDS Integers, Sequences, FiniteSets

CONSTANTS
  Procs,
  RamFrames,   \* frames of RAM
  SwapFrames,  \* frames of swap device 0, 1, ...: a function on 0 .. n
  MaxPages,    \* bound: page numbers a process uses
  MaxEnd,      \* bound: pages of its vm area
  MaxAlloc,    \* bound: pages of one allocation
  Values,      \* what programs write
  Workload     \* what programs do: "online", "valid", "apart", "stray" or "any"

Devices == DOMAIN SwapFrames
Pages == 0 .. MaxPages - 1
MaxSlots == 2097152       \* a swap offset has 21 bits
Active == 0               \* active_mswp is mswp[0]
Junk == 0                 \* unwritten memory
None == [page |-> -1, victim |-> -1, slot |-> -1, rest |-> <<>>]
NoJob == [start |-> 0, need |-> 0, frames |-> <<>>]

ASSUME PagingAssumption ==
  /\ IsFiniteSet(Procs)
  /\ RamFrames \in 1 .. 8192   \* a frame number has 13 bits
  /\ MaxPages \in Nat /\ MaxEnd \in 0 .. MaxPages /\ MaxAlloc \in Nat
  /\ Active \in Devices /\ Devices \subseteq 0 .. 31
  /\ SwapFrames \in [Devices -> 0 .. MaxSlots]
  /\ Junk \notin Values
  /\ Workload \in {"online", "valid", "apart", "stray", "any"}

VARIABLES
  ramFree, swpFree,  \* free_fp_list of RAM and of every swap device
  ram, swp,          \* their storage, one value per frame
  pgd, fifo, vmEnd,  \* of every mm: page table, fifo_pgn (oldest first), vm_end in pages
  allocating, job,   \* who is in __alloc with mmvm_lock (nobody or one), and its
                     \* locals: first new page, frames to get, frm_lst
  grab,              \* locals of a read between the two halves of MEMPHY_get_freefp
  want, seen         \* history: last value written to a page; last read and what it should be

vars == <<ramFree, swpFree, ram, swp, pgd, fifo, vmEnd, allocating, job, grab, want, seen>>

------------------------------------------------------------------------------
(* Page table entries.  A swapped page keeps PRESENT set, and its swap     *)
(* type and offset lie over the bits of the frame number.                  *)
Absent == [present |-> FALSE, swapped |-> FALSE, bits |-> 0]
OnlineAt(f) == [present |-> TRUE, swapped |-> FALSE, bits |-> f]
SwappedUntyped(d, o) ==   \* mutant: swap type left at 0
  [present |-> TRUE, swapped |-> TRUE, bits |-> 32 * o]
SwappedTo(d, o) == [present |-> TRUE, swapped |-> TRUE, bits |-> d + 32 * o]

Fpn(pte) == pte.bits % 8192
SwpType(pte) == pte.bits % 32
SwpOffset(pte) == pte.bits \div 32

(* A frame number outside the device addresses memory that is not ours.    *)
At(mem, f) == IF f \in DOMAIN mem THEN mem[f] ELSE Junk
Put(mem, f, v) == IF f \in DOMAIN mem THEN [mem EXCEPT ![f] = v] ELSE mem

\* MEMPHY_format
Formatted(n) == [i \in 1 .. n |-> i - 1]

Init ==
  /\ ramFree = Formatted(RamFrames)
  /\ swpFree = [d \in Devices |-> Formatted(SwapFrames[d])]
  /\ ram = [f \in 0 .. RamFrames - 1 |-> Junk]
  /\ swp = [d \in Devices |-> [o \in 0 .. SwapFrames[d] - 1 |-> Junk]]
  /\ pgd = [p \in Procs |-> [g \in Pages |-> Absent]]
  /\ fifo = [p \in Procs |-> <<>>]
  /\ vmEnd = [p \in Procs |-> 0]
  /\ allocating = {} /\ job = NoJob
  /\ grab = [p \in Procs |-> None]
  /\ want = [p \in Procs |-> [g \in Pages |-> Junk]]
  /\ seen = [got |-> Junk, wanted |-> Junk]

------------------------------------------------------------------------------
(* __alloc by k pages, with mmvm_lock held from AllocStart to AllocMap or   *)
(* AllocFail.  The area has grown, and alloc reports success to the        *)
(* program, even if no frames are found for the new pages.                 *)
Obtained(f) == [job EXCEPT !.need = @ - 1, !.frames = <<f>> \o @]

(* The new pages of an allocation by k pages are mapped already, because   *)
(* the program has touched them beyond its area.  The code does not look:  *)
(* the guard below is what programs "online" never do and those "apart"    *)
(* are taken to avoid.                                                     *)
Overlays(p, k) ==
  \E g \in Pages : g >= vmEnd[p] /\ g < vmEnd[p] + k /\ pgd[p][g].present

AllocStart(p, k) ==
  /\ allocating = {} /\ grab[p] = None /\ vmEnd[p] + k <= MaxEnd
  /\ Workload \in {"online", "apart"} => ~Overlays(p, k)
  /\ allocating' = {p}
  /\ job' = [start |-> vmEnd[p], need |-> k, frames |-> <<>>]
  /\ vmEnd' = [vmEnd EXCEPT ![p] = @ + k]
  /\ UNCHANGED <<ramFree, swpFree, ram, swp, pgd, fifo, grab, want, seen>>

FreeAfterKeeping(list) == list   \* mutant: the free list keeps its head

\* MEMPHY_get_freefp unlinked the head
FreeAfter(list) == Tail(list)

\* one iteration of alloc_pages_range: RAM has a free frame
AllocFree(p) ==
  /\ p \in allocating /\ job.need > 0 /\ ramFree # <<>>
  /\ job' = Obtained(Head(ramFree))
  /\ ramFree' = FreeAfter(ramFree)
  /\ UNCHANGED <<swpFree, ram, swp, pgd, fifo, vmEnd, allocating, grab, want, seen>>

SwapHasRoom == {d \in Devices : swpFree[d] # <<>>}

\* the active device if it has room (it is the first), else the first that has
IsSwapDevice(d) == d \in SwapHasRoom /\ \A e \in SwapHasRoom : d <= e

\* mutant: source and destination frames exchanged
SwapOutReversed(f, d, o) == Put(swp[d], f, At(ram, o))

\* __swap_cp_page
SwapOut(f, d, o) == Put(swp[d], o, At(ram, f))

\* the same when RAM is used up: the oldest page of p goes to swap
AllocEvict(p) ==
  /\ p \in allocating /\ job.need > 0 /\ ramFree = <<>> /\ fifo[p] # <<>>
  /\ \E d \in Devices :
       /\ IsSwapDevice(d)
       /\ LET g == Head(fifo[p])
              f == Fpn(pgd[p][g])
              o == Head(swpFree[d])
          IN  /\ job' = Obtained(f)
              /\ swp' = [swp EXCEPT ![d] = SwapOut(f, d, o)]
              /\ pgd' = [pgd EXCEPT ![p][g] = SwappedTo(d, o)]
       /\ swpFree' = [swpFree EXCEPT ![d] = Tail(@)]
  /\ fifo' = [fifo EXCEPT ![p] = Tail(@)]
  /\ UNCHANGED <<ramFree, ram, vmEnd, allocating, grab, want, seen>>

SlotsKept(list) == list   \* mutant: the swap frame is not taken
RestOf(list) == IF list = <<>> THEN <<>> ELSE Tail(list)

Released == allocating' = {} /\ job' = NoJob

(* No victim, or no swap frame for a victim that has already left the      *)
(* FIFO.  The frames obtained so far are lost.                             *)
AllocFail(p) ==
  /\ p \in allocating /\ job.need > 0 /\ ramFree = <<>>
  /\ fifo[p] = <<>> \/ SwapHasRoom = {}
  /\ fifo' = [fifo EXCEPT ![p] = RestOf(@)]
  /\ Released
  /\ UNCHANGED <<ramFree, swpFree, ram, swp, pgd, vmEnd, grab, want, seen>>

\* mutant: the last page is not mapped
MappedShort(table, start, frames) ==
  [g \in Pages |-> IF g \in start .. start + (Len(frames) - 2)
                   THEN OnlineAt(frames[(g - start) + 1]) ELSE table[g]]

(* vmap_page_range maps page start + i to the i-th frame of the list, the  *)
(* last one obtained first, and enlists the pages for later replacement.   *)
Mapped(table, start, frames) ==
  [g \in Pages |-> IF g \in start .. start + (Len(frames) - 1)
                   THEN OnlineAt(frames[(g - start) + 1]) ELSE table[g]]

PageRangeNext(start, k) == [i \in 1 .. k |-> start + i]              \* mutant
PageRangeShort(start, k) == [i \in 1 .. k - 1 |-> start + (i - 1)]   \* mutant
PageRange(start, k) == [i \in 1 .. k |-> start + (i - 1)]

AllocMap(p) ==
  /\ p \in allocating /\ job.need = 0
  /\ pgd' = [pgd EXCEPT ![p] = Mapped(@, job.start, job.frames)]
  /\ fifo' = [fifo EXCEPT ![p] = @ \o PageRange(job.start, Len(job.frames))]
  /\ Released
  /\ UNCHANGED <<ramFree, swpFree, ram, swp, vmEnd, grab, want, seen>>

------------------------------------------------------------------------------
Online(p) == {g \in Pages : pgd[p][g].present /\ ~pgd[p][g].swapped}

(* Accesses.  Neither __read nor __write looks whether an address is in    *)
(* the area.  The workload is what programs make of that:                  *)
(*   online   pages that are in RAM;                                       *)
(*   valid    any page of the vm area, also when it was swapped out;       *)
(*   apart    any page at all, once the process has a page to replace (as  *)
(*            input/proc/m0s with write 1 2 1000), but no allocation over  *)
(*            a page it touched beyond its area;                           *)
(*   stray    the same without that restriction;                           *)
(*   any      any page at any time.                                        *)
Touches(p, g) ==
  /\ grab[p] = None /\ p \notin allocating
  /\ CASE Workload = "online" -> g \in Online(p)
       [] Workload = "valid" -> g < vmEnd[p]
       [] Workload = "any" -> TRUE
       [] OTHER -> pgd[p][g].present \/ fifo[p] # <<>>

Frame(p, g) == Fpn(pgd[p][g])

Write(p, g, v) ==
  /\ allocating = {} /\ Touches(p, g) /\ pgd[p][g].present
  /\ ram' = Put(ram, Frame(p, g), v)
  /\ want' = [want EXCEPT ![p][g] = v]
  /\ UNCHANGED <<ramFree, swpFree, swp, pgd, fifo, vmEnd, allocating, job, grab, seen>>

Read(p, g) ==
  /\ Touches(p, g) /\ pgd[p][g].present
  /\ seen' = [got |-> At(ram, Frame(p, g)), wanted |-> want[p][g]]
  /\ UNCHANGED <<ramFree, swpFree, ram, swp, pgd, fifo, vmEnd, allocating, job, grab, want>>

(* pg_getpage on an absent page.  Without a page in the FIFO or a frame on *)
(* the active device the local it should have set has an arbitrary value.  *)
Victims(p) == IF fifo[p] = <<>> THEN Pages ELSE {Head(fifo[p])}
SwapSlots == IF swpFree[Active] = <<>> THEN 0 .. SwapFrames[Active]
             ELSE {Head(swpFree[Active])}
\* both system calls copy from RAM to swap
SwapCopies(p, g, vic, o) ==
  LET out == Put(swp[Active], o, At(ram, Frame(p, vic)))
  IN  [swp EXCEPT ![Active] = Put(out, Frame(p, vic), At(ram, SwpOffset(pgd[p][g])))]

\* mutant: the victim's entry is not written back
TableStaleVictim(table, g, vic, o) ==
  [table EXCEPT ![g] = OnlineAt(Fpn(table[vic]))]

TableAfter(table, g, vic, o) ==
  [table EXCEPT ![vic] = SwappedTo(0, o), ![g] = OnlineAt(Fpn(table[vic]))]

\* mutants: the page is not enlisted; the victim stays in the list
FifoForgetting(list, g) == IF list = <<>> THEN <<>> ELSE Tail(list)
FifoKeeping(list, g) == Append(list, g)

\* find_victim_page took the oldest page; the new one is the youngest
FifoAfter(list, g) == Append(IF list = <<>> THEN <<>> ELSE Tail(list), g)

SwapIn(p, g, vic, o) ==
  /\ swp' = SwapCopies(p, g, vic, o)
  /\ pgd' = [pgd EXCEPT ![p] = TableAfter(@, g, vic, o)]
  /\ fifo' = [fifo EXCEPT ![p] = FifoAfter(@, g)]

WriteFault(p, g, v) ==
  /\ allocating = {} /\ Touches(p, g) /\ ~pgd[p][g].present
  /\ \E vic \in Victims(p), o \in SwapSlots :
       /\ SwapIn(p, g, vic, o)
       /\ ram' = Put(ram, Frame(p, vic), v)
  /\ swpFree' = [swpFree EXCEPT ![Active] = RestOf(@)]
  /\ want' = [want EXCEPT ![p][g] = v]
  /\ UNCHANGED <<ramFree, vmEnd, allocating, job, grab, seen>>

\* a read has found its victim and fetched the head of the free list
ReadGrab(p, g) ==
  /\ Touches(p, g) /\ ~pgd[p][g].present
  /\ \E vic \in Victims(p), o \in SwapSlots :
       grab' = [grab EXCEPT ![p] = [page |-> g, victim |-> vic, slot |-> o,
                                    rest |-> RestOf(swpFree[Active])]]
  /\ UNCHANGED <<ramFree, swpFree, ram, swp, pgd, fifo, vmEnd, allocating, job, want, seen>>

\* it stores the new head, swaps and reads
ReadSwap(p) ==
  LET r == grab[p] IN
  /\ r # None
  /\ SwapIn(p, r.page, r.victim, r.slot)
  /\ swpFree' = [swpFree EXCEPT ![Active] = r.rest]
  /\ seen' = [got |-> At(ram, Frame(p, r.victim)), wanted |-> want[p][r.page]]
  /\ grab' = [grab EXCEPT ![p] = None]
  /\ UNCHANGED <<ramFree, ram, vmEnd, allocating, job, want>>

ProcStep(p) ==
  \/ \E k \in 1 .. MaxAlloc : AllocStart(p, k)
  \/ AllocFree(p) \/ AllocEvict(p) \/ AllocFail(p) \/ AllocMap(p)
  \/ \E g \in Pages :
       \/ Read(p, g) \/ ReadGrab(p, g)
       \/ \E v \in Values : Write(p, g, v) \/ WriteFault(p, g, v)
  \/ ReadSwap(p)

Next == \E p \in Procs : ProcStep(p)

Spec == Init /\ [][Next]_vars

------------------------------------------------------------------------------
Mem == {Junk} \cup Values
PTEs == [present : BOOLEAN, swapped : BOOLEAN, bits : Nat]

TypeOK ==
  /\ ramFree \in Seq(0 .. RamFrames - 1)
  /\ swpFree \in [Devices -> Seq(Nat)]
  /\ ram \in [0 .. RamFrames - 1 -> Mem]
  /\ DOMAIN swp = Devices /\ \A d \in Devices : swp[d] \in [0 .. SwapFrames[d] - 1 -> Mem]
  /\ pgd \in [Procs -> [Pages -> PTEs]]
  /\ fifo \in [Procs -> Seq(Pages)]
  /\ vmEnd \in [Procs -> 0 .. MaxEnd]
  /\ allocating \subseteq Procs /\ \A p, q \in allocating : p = q
  /\ job \in [start : 0 .. MaxEnd, need : Nat, frames : Seq(Nat)]
  /\ grab \in [Procs -> {None} \cup
                [page : Pages, victim : Pages, slot : Nat, rest : Seq(Nat)]]
  /\ want \in [Procs -> [Pages -> Mem]]
  /\ seen \in [got : Mem, wanted : Mem]

OnlinePages == {x \in Procs \X Pages : x[2] \in Online(x[1])}
SwappedPages == {x \in Procs \X Pages : pgd[x[1]][x[2]].swapped}

(* A frame of RAM is free, in the hands of an allocation, or belongs to    *)
(* one page of one process: through evictions, allocations that fail after *)
(* some frames, and faults anywhere, with reads going on meanwhile (as     *)
(* long as no page is mapped twice, see VictimOnline).                     *)
FrameExclusive ==
  \A x \in OnlinePages : LET f == Frame(x[1], x[2]) IN
    /\ f < RamFrames
    /\ \A i \in DOMAIN ramFree : ramFree[i] # f
    /\ \A i \in DOMAIN job.frames : job.frames[i] # f
    /\ \A y \in OnlinePages : Frame(y[1], y[2]) = f => y = x

SwapPlace(p, g) == <<SwpType(pgd[p][g]), SwpOffset(pgd[p][g])>>

(* A frame of swap holds one page of one process, or is free.              *)
SwapExclusive ==
  \A x \in SwappedPages : LET place == SwapPlace(x[1], x[2]) IN
    /\ \A i \in DOMAIN swpFree[place[1]] : swpFree[place[1]][i] # place[2]
    /\ \A y \in SwappedPages : SwapPlace(y[1], y[2]) = place => y = x

Listed(p) == {fifo[p][i] : i \in DOMAIN fifo[p]}

(* fifo_pgn lists online pages of its process, each once: the victim it    *)
(* yields has a frame to give (with the same proviso).                     *)
FifoIsOnline ==
  \A p \in Procs :
    /\ Listed(p) \subseteq Online(p)
    /\ \A i, j \in DOMAIN fifo[p] : fifo[p][i] = fifo[p][j] => i = j

(* The page that find_victim_page would yield is in RAM.  An allocation    *)
(* over a page that is mapped already enlists it a second time: after its  *)
(* first eviction it is the victim again, and its swap bits are taken for  *)
(* a frame number.                                                         *)
VictimOnline == \A p \in Procs : fifo[p] # <<>> => Head(fifo[p]) \in Online(p)

(* Every page in RAM is tracked for replacement (vmap_page_range), so that *)
(* it can make room one day.                                               *)
Replaceable == \A p \in Procs : Online(p) \subseteq Listed(p)

(* No online page escapes replacement, until the swap devices are full:    *)
(* then alloc_pages_range drops the victim from the FIFO and gives up.     *)
AllReplaceable == SwapHasRoom # {} => Replaceable

Stored(p, g) ==
  IF pgd[p][g].swapped THEN At(swp[SwpType(pgd[p][g])], SwpOffset(pgd[p][g]))
                       ELSE At(ram, Frame(p, g))

(* The last value written to a page is in its frame, or in its swap frame  *)
(* after any sequence of evictions by any process.                         *)
DataIntact ==
  \A p \in Procs, g \in Pages : want[p][g] # Junk => Stored(p, g) = want[p][g]

(* A read returns what the process last wrote to that page.                *)
ReadYourWrites == seen.wanted # Junk => seen.got = seen.wanted

(* The page at an address of a process, wherever it is now.                *)
Held(p, g) == IF want[p][g] = Junk THEN Junk ELSE Stored(p, g)

Store == INSTANCE PageStore
         WITH mem <- [p \in Procs |-> [g \in Pages |-> Held(p, g)]], answer <- seen.got

(* Paging implements private memory: what is in a page's place changes     *)
(* only by a write of its process, whatever is moved to make room for      *)
(* whom, and reads return it.                                              *)
StoreSpec == Store!Spec

AreaPages == {x \in Procs \X Pages : x[2] < vmEnd[x[1]]}

(* alloc tells the program whether it got memory: once no allocation is    *)
(* under way, every page of an area is mapped.                             *)
Backed == \A x \in AreaPages : x[1] \notin allocating => pgd[x[1]][x[2]].present

(* As long as the areas of all processes fit in RAM, every page of an area *)
(* is mapped once its allocation is over: no frame is lost on the way.     *)
(* Beyond that, an allocation may succeed with no memory behind it.        *)
NoPhantom ==
  Cardinality(AreaPages) <= RamFrames => Backed
==============================================================================
