---------------------------- MODULE Paging_proofs ----------------------------
(***************************************************************************)
(* Theorems about Paging.tla, for any processes, frames and swap devices.  *)
(*                                                                         *)
(* Frames: a free list, the list of an allocation in progress and the page *)
(* tables share out RAM (OwnInv), given that the FIFO yields online pages  *)
(* (FifoInv) and that no page is mapped above the area (AbsentInv).  This  *)
(* survives faults in pages beyond the area.  Data: on programs that stay  *)
(* with online pages, swap frames are shared out likewise (SwapInv) and    *)
(* every page holds what was last written to it (DataIntact); so the       *)
(* steps are those of PageStore.  Frames in use and frames lost add up     *)
(* (PhantomInv): while the areas fit in RAM, no allocation runs short.     *)
(***************************************************************************)
EXTENDS Paging, FiniteSetTheorems, TLAPS

------------------------------------------------------------------------------
(* Sequences as the lists of the code use them.                            *)
Elems(s) == {s[i] : i \in DOMAIN s}
Distinct(s) == \A i, j \in DOMAIN s : s[i] = s[j] => i = j

(* What unlinking the head leaves.                                         *)
LEMMA TailFacts ==
  ASSUME NEW S, NEW s \in Seq(S), s # <<>>
  PROVE  /\ Head(s) \in S /\ Tail(s) \in Seq(S) /\ Len(Tail(s)) = Len(s) - 1
         /\ Head(s) \in Elems(s) /\ Elems(Tail(s)) \subseteq Elems(s)
         /\ Elems(s) \subseteq S
         /\ Distinct(s) => /\ Distinct(Tail(s)) /\ Head(s) \notin Elems(Tail(s))
                           /\ Elems(Tail(s)) = Elems(s) \ {Head(s)}
<1>1. /\ Len(s) \in Nat \ {0} /\ DOMAIN s = 1 .. Len(s) /\ Head(s) = s[1] /\ 1 \in DOMAIN s
      /\ DOMAIN Tail(s) = 1 .. Len(s) - 1
      /\ \A i \in DOMAIN Tail(s) : i + 1 \in DOMAIN s /\ Tail(s)[i] = s[i + 1]
      /\ \A i \in DOMAIN s : s[i] \in S
  OBVIOUS
<1>2. \A i \in DOMAIN s : i = 1 \/ (i - 1 \in DOMAIN Tail(s) /\ Tail(s)[i - 1] = s[i])
  BY <1>1
<1>3. Tail(s) \in Seq(S) /\ Len(Tail(s)) = Len(s) - 1
  OBVIOUS
<1>4. Head(s) \in S /\ Head(s) \in Elems(s) /\ Elems(Tail(s)) \subseteq Elems(s) /\ Elems(s) \subseteq S
  BY <1>1 DEF Elems
<1>5. ASSUME Distinct(s) PROVE Distinct(Tail(s)) /\ Head(s) \notin Elems(Tail(s))
  BY <1>1, <1>5 DEF Elems, Distinct
<1>6. ASSUME Distinct(s) PROVE Elems(Tail(s)) = Elems(s) \ {Head(s)}
  BY <1>1, <1>2, <1>4, <1>5, <1>6 DEF Elems
<1> QED BY <1>3, <1>4, <1>5, <1>6

(* Putting an element in front of a list.                                  *)
LEMMA ConsFacts ==
  ASSUME NEW S, NEW s \in Seq(S), NEW f \in S
  PROVE  /\ <<f>> \o s \in Seq(S) /\ Len(<<f>> \o s) = Len(s) + 1
         /\ Elems(<<f>> \o s) = {f} \cup Elems(s)
         /\ Distinct(s) /\ f \notin Elems(s) => Distinct(<<f>> \o s)
<1> DEFINE t == <<f>> \o s
<1>1. /\ t \in Seq(S) /\ Len(t) = Len(s) + 1 /\ t[1] = f /\ DOMAIN t = 1 .. Len(s) + 1
      /\ DOMAIN s = 1 .. Len(s) /\ Len(s) \in Nat
      /\ \A i \in DOMAIN s : i + 1 \in DOMAIN t /\ t[i + 1] = s[i]
  OBVIOUS
<1>2. \A i \in DOMAIN t : (i = 1 /\ t[i] = f) \/ (i - 1 \in DOMAIN s /\ t[i] = s[i - 1])
  OBVIOUS
<1> HIDE DEF t
<1>3. 1 \in DOMAIN t
  BY <1>1
<1>4. Elems(t) = {f} \cup Elems(s)
  BY <1>1, <1>2, <1>3 DEF Elems
<1>5. Distinct(s) /\ f \notin Elems(s) => Distinct(t)
  BY <1>1, <1>2 DEF Elems, Distinct
<1> QED BY <1>1, <1>4, <1>5 DEF t

(* Appending a list.                                                       *)
LEMMA ConcatFacts ==
  ASSUME NEW S, NEW s \in Seq(S), NEW t \in Seq(S)
  PROVE  /\ s \o t \in Seq(S)
         /\ Elems(s \o t) = Elems(s) \cup Elems(t)
         /\ Distinct(s) /\ Distinct(t) /\ Elems(s) \cap Elems(t) = {} => Distinct(s \o t)
<1> DEFINE u == s \o t
<1>1. /\ u \in Seq(S) /\ DOMAIN u = 1 .. Len(s) + Len(t)
      /\ DOMAIN s = 1 .. Len(s) /\ Len(s) \in Nat /\ DOMAIN t = 1 .. Len(t) /\ Len(t) \in Nat
      /\ \A i \in DOMAIN s : i \in DOMAIN u /\ u[i] = s[i]
      /\ \A i \in DOMAIN t : i + Len(s) \in DOMAIN u /\ u[i + Len(s)] = t[i]
  OBVIOUS
<1>2. \A i \in DOMAIN u : \/ i \in DOMAIN s /\ u[i] = s[i]
                          \/ i - Len(s) \in DOMAIN t /\ u[i] = t[i - Len(s)]
  OBVIOUS
<1> HIDE DEF u
<1>3. Elems(u) = Elems(s) \cup Elems(t)
  BY <1>1, <1>2 DEF Elems
<1>4. ASSUME Distinct(s), Distinct(t), Elems(s) \cap Elems(t) = {}
      PROVE  Distinct(u)
  <2> SUFFICES ASSUME NEW i \in DOMAIN u, NEW j \in DOMAIN u, u[i] = u[j] PROVE i = j
    BY DEF Distinct
  <2>1. CASE i \in DOMAIN s /\ j \in DOMAIN s
    BY <1>1, <1>4, <2>1 DEF Distinct
  <2>2. CASE i \notin DOMAIN s /\ j \notin DOMAIN s
    BY <1>1, <1>2, <1>4, <2>2 DEF Distinct
  <2>3. CASE i \in DOMAIN s /\ j \notin DOMAIN s
    <3>1. u[i] \in Elems(s) /\ u[j] \in Elems(t)
      BY <1>1, <1>2, <2>3 DEF Elems
    <3> QED BY <1>4, <3>1
  <2>4. CASE i \notin DOMAIN s /\ j \in DOMAIN s
    <3>1. u[j] \in Elems(s) /\ u[i] \in Elems(t)
      BY <1>1, <1>2, <2>4 DEF Elems
    <3> QED BY <1>4, <3>1
  <2> QED BY <2>1, <2>2, <2>3, <2>4
<1> QED BY <1>1, <1>3, <1>4 DEF u

(* A list formatted by MEMPHY_format holds each frame once.                *)
LEMMA FormattedFacts ==
  ASSUME NEW n \in Nat
  PROVE  /\ Formatted(n) \in Seq(0 .. n - 1) /\ Distinct(Formatted(n))
         /\ Len(Formatted(n)) = n /\ Elems(Formatted(n)) \subseteq 0 .. n - 1
  BY DEF Formatted, Distinct, Elems

LEMMA DeviceFormat ==
  ASSUME NEW n \in Nat
  PROVE  Formatted(n) \in Seq(Nat)
BY DEF Formatted

LEMMA SlotCount == \A d \in Devices : SwapFrames[d] \in Nat
BY PagingAssumption, SMT

(* Page table entries give back what was put into them: frame numbers have *)
(* 13 bits, swap types 5 and swap offsets lie above those.                 *)
LEMMA OnlineBits ==
  ASSUME NEW f \in 0 .. RamFrames - 1
  PROVE  /\ Fpn(OnlineAt(f)) = f /\ OnlineAt(f) \in PTEs
         /\ OnlineAt(f).present /\ ~OnlineAt(f).swapped
<1>1. f \in Nat /\ f < 8192
  BY PagingAssumption
<1>2. f % 8192 = f
  BY <1>1
<1> QED BY <1>1, <1>2 DEF Fpn, OnlineAt, PTEs

LEMMA SwappedBits ==
  ASSUME NEW d \in 0 .. 31, NEW o \in Nat
  PROVE  /\ SwpType(SwappedTo(d, o)) = d /\ SwpOffset(SwappedTo(d, o)) = o
         /\ SwappedTo(d, o) \in PTEs
         /\ SwappedTo(d, o).present /\ SwappedTo(d, o).swapped
<1>1. (d + 32 * o) % 32 = d /\ (d + 32 * o) \div 32 = o /\ d + 32 * o \in Nat
  OBVIOUS
<1> QED BY <1>1 DEF SwpType, SwpOffset, SwappedTo, PTEs

------------------------------------------------------------------------------
(* Type correctness.  An allocation's frames and the ones it still needs   *)
(* are the pages by which its area has grown.                              *)
JobInv ==
  /\ \A p \in allocating : job.start + (Len(job.frames) + job.need) = vmEnd[p]
  /\ allocating = {} => job = NoJob

TypeInv == TypeOK /\ JobInv

LEMMA InitType == Init => TypeInv
<1> SUFFICES ASSUME Init PROVE TypeInv
  OBVIOUS
<1>1. ramFree \in Seq(0 .. RamFrames - 1)
  BY FormattedFacts, PagingAssumption DEF Init
<1>2. swpFree \in [Devices -> Seq(Nat)]
  <2> SUFFICES ASSUME NEW d \in Devices PROVE Formatted(SwapFrames[d]) \in Seq(Nat)
    BY DEF Init
  <2>1. SwapFrames[d] \in Nat
    BY SlotCount
  <2> QED BY <2>1, DeviceFormat
<1>3. /\ ram \in [0 .. RamFrames - 1 -> Mem]
      /\ DOMAIN swp = Devices /\ \A d \in Devices : swp[d] \in [0 .. SwapFrames[d] - 1 -> Mem]
  BY DEF Init, Mem
<1>4. pgd \in [Procs -> [Pages -> PTEs]] /\ fifo \in [Procs -> Seq(Pages)]
  BY DEF Init, Absent, PTEs
<1>5. vmEnd \in [Procs -> 0 .. MaxEnd] /\ job \in [start : 0 .. MaxEnd, need : Nat, frames : Seq(Nat)]
  BY PagingAssumption DEF Init, NoJob
<1>6. /\ want \in [Procs -> [Pages -> Mem]] /\ seen \in [got : Mem, wanted : Mem]
      /\ allocating = {} /\ job = NoJob /\ grab \in [Procs -> {None}]
  BY DEF Init, Mem
<1> QED BY <1>1, <1>2, <1>3, <1>4, <1>5, <1>6 DEF TypeInv, TypeOK, JobInv

LEMMA PutFacts ==
  ASSUME NEW D, NEW mem \in [D -> Mem], NEW f, NEW v \in Mem
  PROVE  Put(mem, f, v) \in [D -> Mem] /\ At(mem, f) \in Mem
BY DEF Put, At, Mem

(* Storing a value in a frame of a swap device keeps the types.            *)
LEMMA SwapPutType ==
  ASSUME NEW d \in Devices, NEW o, NEW v \in Mem, TypeOK
  PROVE  LET new == [swp EXCEPT ![d] = Put(swp[d], o, v)]
         IN  DOMAIN new = Devices /\ \A e \in Devices : new[e] \in [0 .. SwapFrames[e] - 1 -> Mem]
<1>1. Put(swp[d], o, v) \in [0 .. SwapFrames[d] - 1 -> Mem]
  BY PutFacts DEF TypeOK
<1> QED BY <1>1 DEF TypeOK

LEMMA RestType ==
  ASSUME NEW S, NEW s \in Seq(S)
  PROVE  RestOf(s) \in Seq(S)
BY DEF RestOf

(* The effect of a page fault on what it changes, for any victim and slot. *)
LEMMA SwapInTypes ==
  ASSUME NEW p \in Procs, NEW g \in Pages, NEW vic \in Pages, NEW o \in Nat,
         TypeOK, SwapIn(p, g, vic, o)
  PROVE  /\ DOMAIN swp' = Devices /\ \A d \in Devices : swp'[d] \in [0 .. SwapFrames[d] - 1 -> Mem]
         /\ pgd' \in [Procs -> [Pages -> PTEs]]
         /\ fifo' \in [Procs -> Seq(Pages)]
<1>1. /\ swp[Active] \in [0 .. SwapFrames[Active] - 1 -> Mem] /\ Active \in Devices
      /\ ram \in [0 .. RamFrames - 1 -> Mem]
  BY PagingAssumption DEF TypeOK
<1>2. \A f : At(ram, f) \in Mem
  BY <1>1 DEF At, Mem
<1>3. ASSUME NEW f1, NEW v1 \in Mem, NEW f2, NEW v2 \in Mem
      PROVE  Put(Put(swp[Active], f1, v1), f2, v2) \in [0 .. SwapFrames[Active] - 1 -> Mem]
  BY <1>1, PutFacts
<1>4. SwapCopies(p, g, vic, o)[Active] \in [0 .. SwapFrames[Active] - 1 -> Mem]
  BY <1>1, <1>2, <1>3 DEF SwapCopies, TypeOK
<1>5. DOMAIN swp' = Devices /\ \A d \in Devices : swp'[d] \in [0 .. SwapFrames[d] - 1 -> Mem]
  BY <1>4 DEF SwapIn, SwapCopies, TypeOK
<1>6. SwappedTo(0, o) \in PTEs
  BY DEF SwappedTo, PTEs
<1>7. OnlineAt(Fpn(pgd[p][vic])) \in PTEs
  <2>1. pgd[p][vic].bits \in Nat
    BY DEF TypeOK, PTEs
  <2>2. pgd[p][vic].bits % 8192 \in Nat
    BY <2>1
  <2> QED BY <2>2 DEF Fpn, OnlineAt, PTEs
<1>8. TableAfter(pgd[p], g, vic, o) \in [Pages -> PTEs]
  BY <1>6, <1>7 DEF TypeOK, TableAfter
<1>9. FifoAfter(fifo[p], g) \in Seq(Pages)
  BY DEF TypeOK, FifoAfter
<1> QED BY <1>5, <1>8, <1>9 DEF SwapIn, TypeOK

(* Victim and slot of a fault.                                             *)
LEMMA ChoiceTypes ==
  ASSUME NEW p \in Procs, TypeOK
  PROVE  Victims(p) \subseteq Pages /\ SwapSlots \subseteq Nat
<1>1. fifo[p] # <<>> => Head(fifo[p]) \in Pages
  <2>1. fifo[p] \in Seq(Pages)
    BY DEF TypeOK
  <2> QED BY <2>1, TailFacts
<1>2. swpFree[Active] # <<>> => Head(swpFree[Active]) \in Nat
  <2>1. swpFree[Active] \in Seq(Nat)
    BY PagingAssumption DEF TypeOK
  <2> QED BY <2>1, TailFacts
<1>3. 0 .. SwapFrames[Active] \subseteq Nat
  OBVIOUS
<1>4. Victims(p) \subseteq Pages
  BY <1>1 DEF Victims
<1>5. SwapSlots \subseteq Nat
  BY <1>2, <1>3 DEF SwapSlots
<1> QED BY <1>4, <1>5

------------------------------------------------------------------------------
(* The steps of an allocation.                                             *)
LEMMA StartTypes ==
  ASSUME NEW p \in Procs, NEW k \in 1 .. MaxAlloc, TypeInv, AllocStart(p, k)
  PROVE  TypeInv'
<1>1. vmEnd' \in [Procs -> 0 .. MaxEnd] /\ vmEnd'[p] = vmEnd[p] + k /\ vmEnd[p] \in 0 .. MaxEnd
  BY PagingAssumption DEF AllocStart, TypeInv, TypeOK
<1>2. /\ job' = [start |-> vmEnd[p], need |-> k, frames |-> <<>>] /\ allocating' = {p}
      /\ job'.start + (Len(job'.frames) + job'.need) = vmEnd'[p]
  BY <1>1 DEF AllocStart
<1>3. job' \in [start : 0 .. MaxEnd, need : Nat, frames : Seq(Nat)]
  BY <1>1, <1>2
<1> QED BY <1>1, <1>2, <1>3 DEF AllocStart, TypeInv, TypeOK, JobInv

LEMMA ObtainedTypes ==
  ASSUME NEW p \in allocating, NEW f \in Nat, TypeInv, job.need > 0,
         job' = Obtained(f), UNCHANGED <<vmEnd, allocating>>
  PROVE  job' \in [start : 0 .. MaxEnd, need : Nat, frames : Seq(Nat)] /\ JobInv'
<1>1. /\ job'.start = job.start /\ job'.need = job.need - 1
      /\ job'.frames = <<f>> \o job.frames
      /\ job' = [start |-> job'.start, need |-> job'.need, frames |-> job'.frames]
  BY DEF Obtained, TypeInv, TypeOK
<1>2. /\ job'.frames \in Seq(Nat) /\ Len(job'.frames) = Len(job.frames) + 1 /\ Len(job.frames) \in Nat
  BY <1>1, ConsFacts DEF TypeInv, TypeOK
<1>3. job.start \in 0 .. MaxEnd /\ job.need - 1 \in Nat /\ job.start \in Nat
  <2>1. job.start \in 0 .. MaxEnd /\ job.need \in Nat
    BY DEF TypeInv, TypeOK
  <2> QED BY <2>1, PagingAssumption
<1>4. \A q \in allocating : job'.start + (Len(job'.frames) + job'.need) = vmEnd[q]
  <2>1. \A q \in allocating : job.start + (Len(job.frames) + job.need) = vmEnd[q]
    BY DEF TypeInv, JobInv
  <2>2. job.need \in Nat
    BY DEF TypeInv, TypeOK
  <2>3. \A q \in allocating : vmEnd[q] = job.start + (Len(job.frames) + job.need)
    BY <2>1
  <2>4. job.start + ((Len(job.frames) + 1) + (job.need - 1)) = job.start + (Len(job.frames) + job.need)
    <3>1. \A a, b, c \in Int : a + ((b + 1) + (c - 1)) = a + (b + c)
      OBVIOUS
    <3>2. job.start \in Int /\ Len(job.frames) \in Int /\ job.need \in Int
      BY <1>2, <1>3, <2>2
    <3> QED BY <3>1, <3>2
  <2>5. job'.start + (Len(job'.frames) + job'.need) = job.start + ((Len(job.frames) + 1) + (job.need - 1))
    BY <1>1, <1>2
  <2> QED BY <2>3, <2>4, <2>5
<1> QED BY <1>1, <1>2, <1>3, <1>4 DEF JobInv

LEMMA FreeTypes ==
  ASSUME NEW p \in Procs, TypeInv, AllocFree(p)
  PROVE  TypeInv'
<1>1. Head(ramFree) \in Nat /\ Tail(ramFree) \in Seq(0 .. RamFrames - 1)
  <2>1. ramFree \in Seq(0 .. RamFrames - 1) /\ ramFree # <<>>
    BY DEF AllocFree, TypeInv, TypeOK
  <2>2. Head(ramFree) \in 0 .. RamFrames - 1 /\ Tail(ramFree) \in Seq(0 .. RamFrames - 1)
    BY <2>1, TailFacts
  <2> QED BY <2>2
<1>2. job' \in [start : 0 .. MaxEnd, need : Nat, frames : Seq(Nat)] /\ JobInv'
  BY <1>1, ObtainedTypes DEF AllocFree
<1> QED BY <1>1, <1>2 DEF AllocFree, FreeAfter, TypeInv, TypeOK

LEMMA EvictTypes ==
  ASSUME NEW p \in Procs, TypeInv, AllocEvict(p)
  PROVE  TypeInv'
<1> DEFINE g == Head(fifo[p])
           f == Fpn(pgd[p][g])
<1>1. PICK d \in Devices :
        /\ IsSwapDevice(d)
        /\ job' = Obtained(f)
        /\ swp' = [swp EXCEPT ![d] = SwapOut(f, d, Head(swpFree[d]))]
        /\ pgd' = [pgd EXCEPT ![p][g] = SwappedTo(d, Head(swpFree[d]))]
        /\ swpFree' = [swpFree EXCEPT ![d] = Tail(@)]
  BY DEF AllocEvict
<1>2. swpFree[d] # <<>> /\ swpFree[d] \in Seq(Nat) /\ d \in 0 .. 31
  BY <1>1, PagingAssumption DEF IsSwapDevice, SwapHasRoom, TypeInv, TypeOK
<1>3. Head(swpFree[d]) \in Nat /\ swpFree' \in [Devices -> Seq(Nat)]
  <2>1. Head(swpFree[d]) \in Nat /\ Tail(swpFree[d]) \in Seq(Nat)
    BY <1>2, TailFacts
  <2> QED BY <1>1, <2>1 DEF TypeInv, TypeOK
<1>4. g \in Pages /\ Tail(fifo[p]) \in Seq(Pages)
  BY TailFacts DEF AllocEvict, TypeInv, TypeOK
<1>5. f \in Nat
  <2>1. pgd[p][g].bits \in Nat
    BY <1>4 DEF TypeInv, TypeOK, PTEs
  <2> QED BY <2>1 DEF Fpn
<1>6. job' \in [start : 0 .. MaxEnd, need : Nat, frames : Seq(Nat)] /\ JobInv'
  BY <1>1, <1>5, ObtainedTypes DEF AllocEvict
<1>7. pgd' \in [Procs -> [Pages -> PTEs]]
  BY <1>1, <1>2, <1>3, <1>4, SwappedBits DEF TypeInv, TypeOK
<1>8. DOMAIN swp' = Devices /\ \A e \in Devices : swp'[e] \in [0 .. SwapFrames[e] - 1 -> Mem]
  <2>1. At(ram, f) \in Mem
    BY DEF At, Mem, TypeInv, TypeOK
  <2> QED BY <1>1, <2>1, SwapPutType DEF SwapOut, TypeInv
<1>9. fifo' \in [Procs -> Seq(Pages)]
  BY <1>4 DEF AllocEvict, TypeInv, TypeOK
<1> QED BY <1>3, <1>6, <1>7, <1>8, <1>9 DEF AllocEvict, TypeInv, TypeOK

LEMMA FailTypes ==
  ASSUME NEW p \in Procs, TypeInv, AllocFail(p)
  PROVE  TypeInv'
<1>1. fifo' \in [Procs -> Seq(Pages)]
  BY RestType DEF AllocFail, TypeInv, TypeOK
<1>2. job' \in [start : 0 .. MaxEnd, need : Nat, frames : Seq(Nat)] /\ job' = NoJob /\ allocating' = {}
  BY PagingAssumption DEF AllocFail, Released, NoJob
<1> QED BY <1>1, <1>2 DEF AllocFail, TypeInv, TypeOK, JobInv

LEMMA RangeFacts ==
  ASSUME NEW s \in Nat, NEW k \in Nat, s + k <= MaxPages
  PROVE  /\ PageRange(s, k) \in Seq(Pages) /\ Distinct(PageRange(s, k))
         /\ Elems(PageRange(s, k)) = {g \in Pages : g >= s /\ g < s + k}
<1>1. /\ DOMAIN PageRange(s, k) = 1 .. k
      /\ \A i \in 1 .. k : PageRange(s, k)[i] = s + (i - 1) /\ s + (i - 1) \in Pages
  BY PagingAssumption DEF PageRange, Pages
<1>2. PageRange(s, k) \in Seq(Pages)
  BY <1>1 DEF PageRange
<1>3. Distinct(PageRange(s, k))
  BY <1>1 DEF Distinct
<1>4. \A g \in Pages : g >= s /\ g < s + k => (g - s) + 1 \in 1 .. k /\ g = s + (((g - s) + 1) - 1)
  BY PagingAssumption DEF Pages
<1>5. Elems(PageRange(s, k)) = {g \in Pages : g >= s /\ g < s + k}
  BY <1>1, <1>4 DEF Elems
<1> QED BY <1>2, <1>3, <1>5

LEMMA MapTypes ==
  ASSUME NEW p \in Procs, TypeInv, AllocMap(p)
  PROVE  TypeInv'
<1>1. /\ job.start \in Nat /\ Len(job.frames) \in Nat /\ job.start + Len(job.frames) <= MaxPages
      /\ job.frames \in Seq(Nat)
  BY PagingAssumption DEF AllocMap, TypeInv, TypeOK, JobInv
<1>2. fifo' \in [Procs -> Seq(Pages)]
  BY <1>1, RangeFacts, ConcatFacts DEF AllocMap, TypeInv, TypeOK
<1>3. \A f \in Nat : OnlineAt(f) \in PTEs
  BY DEF OnlineAt, PTEs
<1>4. \A g \in Pages : g \in job.start .. job.start + (Len(job.frames) - 1)
                       => job.frames[(g - job.start) + 1] \in Nat
  BY <1>1 DEF Pages
<1>5. Mapped(pgd[p], job.start, job.frames) \in [Pages -> PTEs]
  BY <1>3, <1>4 DEF Mapped, TypeInv, TypeOK
<1>6. pgd' \in [Procs -> [Pages -> PTEs]]
  BY <1>5 DEF AllocMap, TypeInv, TypeOK
<1>7. job' \in [start : 0 .. MaxEnd, need : Nat, frames : Seq(Nat)] /\ job' = NoJob /\ allocating' = {}
  BY PagingAssumption DEF AllocMap, Released, NoJob
<1> QED BY <1>2, <1>6, <1>7 DEF AllocMap, TypeInv, TypeOK, JobInv

------------------------------------------------------------------------------
(* The accesses.                                                           *)
LEMMA WriteTypes ==
  ASSUME NEW p \in Procs, NEW g \in Pages, NEW v \in Values, TypeInv,
         Write(p, g, v) \/ WriteFault(p, g, v)
  PROVE  TypeInv'
<1>1. v \in Mem /\ want' \in [Procs -> [Pages -> Mem]]
  <2>1. v \in Mem
    BY DEF Mem
  <2>2. want' = [want EXCEPT ![p][g] = v]
    BY DEF Write, WriteFault
  <2> QED BY <2>1, <2>2 DEF TypeInv, TypeOK
<1>2. CASE Write(p, g, v)
  <2>1. ram' \in [0 .. RamFrames - 1 -> Mem]
    BY <1>1, <1>2, PutFacts DEF Write, TypeInv, TypeOK
  <2> QED BY <1>1, <1>2, <2>1 DEF Write, TypeInv, TypeOK, JobInv
<1>3. CASE WriteFault(p, g, v)
  <2>1. PICK vic \in Victims(p), o \in SwapSlots :
          SwapIn(p, g, vic, o) /\ ram' = Put(ram, Frame(p, vic), v)
    BY <1>3 DEF WriteFault
  <2>2. vic \in Pages /\ o \in Nat
    BY ChoiceTypes DEF TypeInv
  <2>3. /\ DOMAIN swp' = Devices /\ \A d \in Devices : swp'[d] \in [0 .. SwapFrames[d] - 1 -> Mem]
        /\ pgd' \in [Procs -> [Pages -> PTEs]]
        /\ fifo' \in [Procs -> Seq(Pages)]
    BY <2>1, <2>2, SwapInTypes DEF TypeInv
  <2>4. ram' \in [0 .. RamFrames - 1 -> Mem]
    BY <1>1, <2>1, PutFacts DEF TypeInv, TypeOK
  <2>5. swpFree' \in [Devices -> Seq(Nat)]
    BY <1>3, RestType DEF WriteFault, TypeInv, TypeOK
  <2> QED BY <1>1, <1>3, <2>3, <2>4, <2>5 DEF WriteFault, TypeInv, TypeOK, JobInv
<1> QED BY <1>2, <1>3

LEMMA ReadTypes ==
  ASSUME NEW p \in Procs, NEW g \in Pages, TypeInv,
         Read(p, g) \/ ReadGrab(p, g) \/ ReadSwap(p)
  PROVE  TypeInv'
<1>1. CASE Read(p, g)
  <2>1. At(ram, Frame(p, g)) \in Mem /\ want[p][g] \in Mem
    BY DEF At, Mem, TypeInv, TypeOK
  <2> QED BY <1>1, <2>1 DEF Read, TypeInv, TypeOK, JobInv
<1>2. CASE ReadGrab(p, g)
  <2>1. PICK vic \in Victims(p), o \in SwapSlots :
          grab' = [grab EXCEPT ![p] = [page |-> g, victim |-> vic, slot |-> o,
                                       rest |-> RestOf(swpFree[Active])]]
    BY <1>2 DEF ReadGrab
  <2>2. vic \in Pages /\ o \in Nat
    BY ChoiceTypes DEF TypeInv
  <2>3. RestOf(swpFree[Active]) \in Seq(Nat)
    BY RestType, PagingAssumption DEF TypeInv, TypeOK
  <2> DEFINE r == [page |-> g, victim |-> vic, slot |-> o, rest |-> RestOf(swpFree[Active])]
  <2>4. r \in [page : Pages, victim : Pages, slot : Nat, rest : Seq(Nat)]
    BY <2>2, <2>3
  <2> HIDE DEF r
  <2>5. grab' \in [Procs -> {None} \cup
                 [page : Pages, victim : Pages, slot : Nat, rest : Seq(Nat)]]
    <3>1. grab' = [grab EXCEPT ![p] = r]
      BY <2>1 DEF r
    <3> QED BY <2>4, <3>1 DEF TypeInv, TypeOK
  <2> QED BY <1>2, <2>5 DEF ReadGrab, TypeInv, TypeOK, JobInv
<1>3. CASE ReadSwap(p)
  <2> DEFINE r == grab[p]
  <2>1. r \in [page : Pages, victim : Pages, slot : Nat, rest : Seq(Nat)]
    BY <1>3 DEF ReadSwap, TypeInv, TypeOK
  <2>2. SwapIn(p, r.page, r.victim, r.slot)
    BY <1>3 DEF ReadSwap
  <2>3. /\ DOMAIN swp' = Devices /\ \A d \in Devices : swp'[d] \in [0 .. SwapFrames[d] - 1 -> Mem]
        /\ pgd' \in [Procs -> [Pages -> PTEs]]
        /\ fifo' \in [Procs -> Seq(Pages)]
    BY <2>1, <2>2, SwapInTypes DEF TypeInv
  <2>4. At(ram, Frame(p, r.victim)) \in Mem /\ want[p][r.page] \in Mem
    BY <2>1 DEF At, Mem, TypeInv, TypeOK
  <2>5. seen' \in [got : Mem, wanted : Mem] /\ swpFree' \in [Devices -> Seq(Nat)]
    BY <1>3, <2>1, <2>4 DEF ReadSwap, TypeInv, TypeOK
  <2>6. grab' = [grab EXCEPT ![p] = None]
    BY <1>3 DEF ReadSwap
  <2>7. grab' \in [Procs -> {None} \cup
                 [page : Pages, victim : Pages, slot : Nat, rest : Seq(Nat)]]
    BY <2>6 DEF TypeInv, TypeOK
  <2> QED BY <1>3, <2>3, <2>5, <2>7 DEF ReadSwap, TypeInv, TypeOK, JobInv
<1> QED BY <1>1, <1>2, <1>3

LEMMA NextType == TypeInv /\ [Next]_vars => TypeInv'
<1> SUFFICES ASSUME TypeInv, [Next]_vars PROVE TypeInv'
  OBVIOUS
<1>1. CASE UNCHANGED vars
  BY <1>1 DEF vars, TypeInv, TypeOK, JobInv
<1>2. ASSUME NEW p \in Procs, ProcStep(p) PROVE TypeInv'
  <2>1. ASSUME NEW k \in 1 .. MaxAlloc, AllocStart(p, k) PROVE TypeInv'
    BY <2>1, StartTypes
  <2>2. CASE AllocFree(p)
    BY <2>2, FreeTypes
  <2>3. CASE AllocEvict(p)
    BY <2>3, EvictTypes
  <2>4. CASE AllocFail(p)
    BY <2>4, FailTypes
  <2>5. CASE AllocMap(p)
    BY <2>5, MapTypes
  <2>6. ASSUME NEW g \in Pages, Read(p, g) \/ ReadGrab(p, g) PROVE TypeInv'
    BY <2>6, ReadTypes
  <2>7. ASSUME NEW g \in Pages, NEW v \in Values, Write(p, g, v) \/ WriteFault(p, g, v)
        PROVE  TypeInv'
    BY <2>7, WriteTypes
  <2>8. CASE ReadSwap(p)
    <3>1. grab[p].page \in Pages
      BY <2>8 DEF ReadSwap, TypeInv, TypeOK
    <3> QED BY <2>8, <3>1, ReadTypes
  <2> QED BY <1>2, <2>1, <2>2, <2>3, <2>4, <2>5, <2>6, <2>7, <2>8 DEF ProcStep
<1> QED BY <1>1, <1>2 DEF Next

(* Every variable keeps its type: page numbers stay below MaxPages, frame  *)
(* lists hold frame numbers, page table entries are well formed, at most   *)
(* one process is inside an allocation.                                    *)
THEOREM TypeCorrect == Spec => []TypeOK
<1>1. TypeInv => TypeOK
  BY DEF TypeInv
<1> QED BY InitType, NextType, <1>1, PTL DEF Spec

------------------------------------------------------------------------------
(* Who owns a frame.  OnT and FrameT are Online and Frame of a table t;    *)
(* Own says that the free list, the frames in the hands of an allocation   *)
(* and the online pages share out RAM.                                     *)
Tables == [Procs -> [Pages -> PTEs]]
OnT(t, p, g) == t[p][g].present /\ ~t[p][g].swapped
FrameT(t, p, g) == Fpn(t[p][g])

OwnLists(free, frames) ==
  /\ Distinct(free) /\ Distinct(frames)
  /\ Elems(frames) \subseteq 0 .. RamFrames - 1
  /\ Elems(frames) \cap Elems(free) = {}

OwnApart(t, free, frames) ==
  \A p \in Procs, g \in Pages : OnT(t, p, g) =>
    /\ FrameT(t, p, g) \in 0 .. RamFrames - 1
    /\ FrameT(t, p, g) \notin Elems(free) /\ FrameT(t, p, g) \notin Elems(frames)

OwnOnce(t) ==
  \A p, q \in Procs, g, h \in Pages :
    OnT(t, p, g) /\ OnT(t, q, h) /\ FrameT(t, p, g) = FrameT(t, q, h) => p = q /\ g = h

Own(t, free, frames) == OwnLists(free, frames) /\ OwnApart(t, free, frames) /\ OwnOnce(t)

(* Taking the head of the free list.                                       *)
LEMMA TakeOwn ==
  ASSUME NEW t \in Tables, NEW free \in Seq(0 .. RamFrames - 1), NEW frames \in Seq(Nat),
         free # <<>>, Own(t, free, frames)
  PROVE  Own(t, Tail(free), <<Head(free)>> \o frames)
<1>1. /\ Head(free) \in 0 .. RamFrames - 1 /\ Head(free) \in Elems(free)
      /\ Distinct(Tail(free)) /\ Elems(Tail(free)) = Elems(free) \ {Head(free)}
  BY TailFacts DEF Own, OwnLists
<1>2. Head(free) \in Nat /\ Head(free) \notin Elems(frames)
  BY <1>1 DEF Own, OwnLists
<1>3. /\ Elems(<<Head(free)>> \o frames) = {Head(free)} \cup Elems(frames)
      /\ Distinct(<<Head(free)>> \o frames)
  BY <1>2, ConsFacts DEF Own, OwnLists
<1>4. OwnLists(Tail(free), <<Head(free)>> \o frames)
  BY <1>1, <1>3 DEF Own, OwnLists
<1>5. OwnApart(t, Tail(free), <<Head(free)>> \o frames)
  BY <1>1, <1>3 DEF Own, OwnApart
<1> QED BY <1>4, <1>5 DEF Own

(* An online page gives up its frame.                                      *)
LEMMA EvictOwn ==
  ASSUME NEW t \in Tables, NEW free \in Seq(0 .. RamFrames - 1), NEW frames \in Seq(Nat),
         NEW p \in Procs, NEW g \in Pages, NEW d, NEW o,
         OnT(t, p, g), Own(t, free, frames)
  PROVE  Own([t EXCEPT ![p][g] = SwappedTo(d, o)], free, <<FrameT(t, p, g)>> \o frames)
<1> DEFINE f == FrameT(t, p, g)
           u == [t EXCEPT ![p][g] = SwappedTo(d, o)]
<1>1. f \in 0 .. RamFrames - 1 /\ f \in Nat /\ f \notin Elems(free) /\ f \notin Elems(frames)
  <2>1. f \in 0 .. RamFrames - 1 /\ f \notin Elems(free) /\ f \notin Elems(frames)
    BY DEF Own, OwnApart
  <2> QED BY <2>1
<1>2. Elems(<<f>> \o frames) = {f} \cup Elems(frames) /\ Distinct(<<f>> \o frames)
  BY <1>1, ConsFacts DEF Own, OwnLists
<1>3. \A q \in Procs, h \in Pages : OnT(u, q, h) =>
        OnT(t, q, h) /\ ~(q = p /\ h = g) /\ FrameT(u, q, h) = FrameT(t, q, h)
  BY DEF OnT, FrameT, SwappedTo, Tables
<1>4. \A q \in Procs, h \in Pages : OnT(u, q, h) => FrameT(t, q, h) # f
  BY <1>3 DEF Own, OwnOnce
<1> HIDE DEF f, u
<1>5. OwnLists(free, <<f>> \o frames)
  BY <1>1, <1>2 DEF Own, OwnLists
<1>6. OwnApart(u, free, <<f>> \o frames)
  BY <1>2, <1>3, <1>4 DEF Own, OwnApart
<1>7. OwnOnce(u)
  BY <1>3 DEF Own, OwnOnce
<1> QED BY <1>5, <1>6, <1>7 DEF Own, f, u

(* A fault passes the frame of the victim to a page that had none.         *)
LEMMA FaultOwn ==
  ASSUME NEW p \in Procs, NEW g \in Pages, NEW vic \in Pages, NEW o,
         pgd \in Tables, OnT(pgd, p, vic), ~pgd[p][g].present,
         Own(pgd, ramFree, job.frames), pgd'[p] = TableAfter(pgd[p], g, vic, o),
         \A q \in Procs : q # p => pgd'[q] = pgd[q]
  PROVE  /\ Own(pgd', ramFree, job.frames)
         /\ \A q \in Procs, h \in Pages :
              OnT(pgd', q, h) <=> (OnT(pgd, q, h) /\ ~(q = p /\ h = vic)) \/ (q = p /\ h = g)
<1> DEFINE f == FrameT(pgd, p, vic)
<1>1. f \in 0 .. RamFrames - 1 /\ f \notin Elems(ramFree) /\ f \notin Elems(job.frames)
  BY DEF Own, OwnApart
<1>2. g # vic
  BY DEF OnT
<1>3. f % 8192 = f
  <2> HIDE DEF f
  <2>1. f \in Nat /\ f < 8192
    BY <1>1, PagingAssumption
  <2> QED BY <2>1
<1>4. pgd'[p][g] = OnlineAt(f) /\ pgd'[p][vic] = SwappedTo(0, o)
  BY <1>2 DEF TableAfter, FrameT, Tables
<1>5. \A q \in Procs, h \in Pages : ~(q = p /\ h \in {g, vic}) => pgd'[q][h] = pgd[q][h]
  BY DEF TableAfter, Tables
<1>6. OnT(pgd', p, g) /\ FrameT(pgd', p, g) = f /\ ~OnT(pgd', p, vic)
  <2> HIDE DEF f
  <2> QED BY <1>1, <1>3, <1>4 DEF OnT, FrameT, OnlineAt, SwappedTo, Fpn
<1>7. \A q \in Procs, h \in Pages : ~(q = p /\ h \in {g, vic}) =>
        (OnT(pgd', q, h) <=> OnT(pgd, q, h)) /\ FrameT(pgd', q, h) = FrameT(pgd, q, h)
  BY <1>5 DEF OnT, FrameT
<1>8. \A q \in Procs, h \in Pages :
        ~(q = p /\ h = vic) /\ OnT(pgd, q, h) => FrameT(pgd, q, h) # f
  BY DEF Own, OwnOnce
<1>9. \A q, r \in Procs, h, k \in Pages :
        OnT(pgd, q, h) /\ OnT(pgd, r, k) /\ FrameT(pgd, q, h) = FrameT(pgd, r, k)
        => q = r /\ h = k
  BY DEF Own, OwnOnce
<1>10. \A q \in Procs, h \in Pages : OnT(pgd, q, h) =>
         /\ FrameT(pgd, q, h) \in 0 .. RamFrames - 1
         /\ FrameT(pgd, q, h) \notin Elems(ramFree) /\ FrameT(pgd, q, h) \notin Elems(job.frames)
  BY DEF Own, OwnApart
<1> HIDE DEF f
<1>11. OwnApart(pgd', ramFree, job.frames)
  BY <1>1, <1>6, <1>7, <1>10 DEF OwnApart
<1>12. OwnOnce(pgd')
  <2> SUFFICES ASSUME NEW q \in Procs, NEW r \in Procs, NEW h \in Pages, NEW k \in Pages,
                      OnT(pgd', q, h), OnT(pgd', r, k), FrameT(pgd', q, h) = FrameT(pgd', r, k)
               PROVE  q = r /\ h = k
    BY DEF OwnOnce
  <2>1. CASE (q = p /\ h = g) /\ (r = p /\ k = g)
    BY <2>1
  <2>2. CASE (q = p /\ h = g) /\ ~(r = p /\ k = g)
    BY <1>6, <1>7, <1>8, <2>2
  <2>3. CASE ~(q = p /\ h = g) /\ (r = p /\ k = g)
    BY <1>6, <1>7, <1>8, <2>3
  <2>4. CASE ~(q = p /\ h = g) /\ ~(r = p /\ k = g)
    BY <1>6, <1>7, <1>9, <2>4
  <2> QED BY <2>1, <2>2, <2>3, <2>4
<1>13. ~OnT(pgd, p, g)
  BY DEF OnT
<1>14. OwnLists(ramFree, job.frames)
  BY DEF Own
<1> QED BY <1>2, <1>6, <1>7, <1>11, <1>12, <1>13, <1>14 DEF Own

(* The frames of an allocation go to pages that had none.                  *)
LEMMA MapOwn ==
  ASSUME NEW t \in Tables, NEW free, NEW frames \in Seq(Nat),
         NEW p \in Procs, NEW start \in Nat,
         \A g \in Pages : g >= start /\ g < start + Len(frames) => ~OnT(t, p, g),
         Own(t, free, frames)
  PROVE  LET u == [t EXCEPT ![p] = Mapped(@, start, frames)]
         IN  /\ Own(u, free, <<>>)
             /\ \A q \in Procs, h \in Pages : ~(q = p /\ h >= start /\ h < start + Len(frames))
                                              => u[q][h] = t[q][h]
             /\ \A h \in Pages : h >= start /\ h < start + Len(frames) => OnT(u, p, h)
<1> DEFINE u == [t EXCEPT ![p] = Mapped(@, start, frames)]
           new == {h \in Pages : h >= start /\ h < start + Len(frames)}
           fr(h) == frames[(h - start) + 1]
<1>1. Len(frames) \in Nat /\ DOMAIN frames = 1 .. Len(frames) /\ Pages \subseteq Nat
  BY DEF Pages
<1>2. \A h \in Pages : h \in start .. start + (Len(frames) - 1) <=> h \in new
  BY <1>1
<1>3. /\ \A h \in Pages : h \in new => u[p][h] = OnlineAt(fr(h))
      /\ \A q \in Procs, h \in Pages : ~(q = p /\ h \in new) => u[q][h] = t[q][h]
  <2>1. u[p] = Mapped(t[p], start, frames) /\ \A q \in Procs : q # p => u[q] = t[q]
    BY DEF Tables
  <2> QED BY <1>2, <2>1 DEF Mapped
<1>4. \A h \in new : (h - start) + 1 \in DOMAIN frames /\ fr(h) \in Elems(frames)
  <2>1. \A h \in new : (h - start) + 1 \in DOMAIN frames
    BY <1>1
  <2> QED BY <2>1 DEF Elems
<1>5. \A h \in new : fr(h) \in 0 .. RamFrames - 1 /\ fr(h) \notin Elems(free)
  BY <1>4 DEF Own, OwnLists
<1>6. \A h \in new : OnT(u, p, h) /\ FrameT(u, p, h) = fr(h)
  BY <1>3, <1>5, OnlineBits DEF OnT, FrameT
<1>7. \A h1, h2 \in new : fr(h1) = fr(h2) => h1 = h2
  <2>1. \A h1, h2 \in new : fr(h1) = fr(h2) => (h1 - start) + 1 = (h2 - start) + 1
    BY <1>4 DEF Own, OwnLists, Distinct
  <2>2. \A a, b, c \in Int : (a - c) + 1 = (b - c) + 1 => a = b
    OBVIOUS
  <2>3. start \in Int /\ \A h \in new : h \in Int
    BY <1>1
  <2> HIDE DEF fr, new
  <2> QED BY <2>1, <2>2, <2>3
<1>8. \A q \in Procs, h \in Pages : OnT(t, q, h) => FrameT(t, q, h) \notin Elems(frames)
  BY DEF Own, OwnApart
<1>9. \A q \in Procs, h \in Pages : ~(q = p /\ h \in new) =>
        (OnT(u, q, h) <=> OnT(t, q, h)) /\ FrameT(u, q, h) = FrameT(t, q, h)
  BY <1>3 DEF OnT, FrameT
<1>10. Elems(<<>>) = {} /\ Distinct(<<>>)
  BY DEF Elems, Distinct
<1>11. new \subseteq Pages
  OBVIOUS
<1> HIDE DEF u, new, fr
<1>12. OwnLists(free, <<>>)
  BY <1>10 DEF Own, OwnLists
<1>13. OwnApart(u, free, <<>>)
  <2> SUFFICES ASSUME NEW q \in Procs, NEW h \in Pages, OnT(u, q, h)
               PROVE  /\ FrameT(u, q, h) \in 0 .. RamFrames - 1
                      /\ FrameT(u, q, h) \notin Elems(free)
    BY <1>10 DEF OwnApart
  <2>1. CASE q = p /\ h \in new
    BY <1>5, <1>6, <2>1
  <2>2. CASE ~(q = p /\ h \in new)
    BY <1>9, <2>2 DEF Own, OwnApart
  <2> QED BY <2>1, <2>2
<1>14. OwnOnce(u)
  <2> SUFFICES ASSUME NEW q \in Procs, NEW r \in Procs, NEW g \in Pages, NEW h \in Pages,
                      OnT(u, q, g), OnT(u, r, h), FrameT(u, q, g) = FrameT(u, r, h)
               PROVE  q = r /\ g = h
    BY DEF OwnOnce
  <2>1. CASE (q = p /\ g \in new) /\ (r = p /\ h \in new)
    BY <1>6, <1>7, <2>1
  <2>2. CASE (q = p /\ g \in new) /\ ~(r = p /\ h \in new)
    BY <1>4, <1>6, <1>8, <1>9, <2>2
  <2>3. CASE ~(q = p /\ g \in new) /\ (r = p /\ h \in new)
    BY <1>4, <1>6, <1>8, <1>9, <2>3
  <2>4. CASE ~(q = p /\ g \in new) /\ ~(r = p /\ h \in new)
    BY <1>9, <2>4 DEF Own, OwnOnce
  <2> QED BY <2>1, <2>2, <2>3, <2>4
<1> QED BY <1>3, <1>6, <1>12, <1>13, <1>14 DEF Own, u, new

------------------------------------------------------------------------------
(* A FIFO fits a page table when it lists online pages, each once.         *)
Fit(t, p, s) == Distinct(s) /\ \A g \in Elems(s) : OnT(t, p, g)

LEMMA FitTail ==
  ASSUME NEW t, NEW u, NEW p, NEW s \in Seq(Pages), s # <<>>, Fit(t, p, s),
         \A h \in Pages : OnT(t, p, h) /\ h # Head(s) => OnT(u, p, h)
  PROVE  Fit(u, p, Tail(s)) /\ OnT(t, p, Head(s)) /\ Head(s) \in Pages
<1>1. /\ Distinct(Tail(s)) /\ Elems(Tail(s)) = Elems(s) \ {Head(s)}
      /\ Head(s) \in Elems(s) /\ Elems(s) \subseteq Pages
  BY TailFacts DEF Fit
<1> QED BY <1>1 DEF Fit

LEMMA FitConcat ==
  ASSUME NEW t, NEW p, NEW s \in Seq(Pages), NEW r \in Seq(Pages),
         Fit(t, p, s), Fit(t, p, r), Elems(s) \cap Elems(r) = {}
  PROVE  Fit(t, p, s \o r)
BY ConcatFacts DEF Fit

(* The frame invariant.  The pages an allocation is about to map are       *)
(* absent (nobody touches them while it holds mmvm_lock, as they are its   *)
(* own process's); a read in the middle of a fault is in an absent page,   *)
(* and the oldest page of its process is its victim.                       *)
OwnInv == Own(pgd, ramFree, job.frames)
FifoInv == \A p \in Procs : Fit(pgd, p, fifo[p])

AbsentInv ==
  \A p \in allocating, g \in Pages : g >= job.start /\ g < vmEnd[p] => ~pgd[p][g].present

Faulting(p, g, vic) ==
  /\ p \notin allocating /\ ~pgd[p][g].present
  /\ fifo[p] # <<>> /\ vic = Head(fifo[p])
GrabInv ==
  \A p \in Procs : grab[p] # None => Faulting(p, grab[p].page, grab[p].victim)

FrameInv == OwnInv /\ FifoInv /\ AbsentInv /\ GrabInv

LEMMA InitFrames == Init => FrameInv
<1> SUFFICES ASSUME Init PROVE FrameInv
  OBVIOUS
<1>1. Elems(<<>>) = {} /\ Distinct(<<>>)
  BY DEF Elems, Distinct
<1>2. Distinct(ramFree)
  BY FormattedFacts, PagingAssumption DEF Init
<1>3. \A p \in Procs, g \in Pages : ~pgd[p][g].present
  BY DEF Init, Absent
<1>4. OwnInv
  BY <1>1, <1>2, <1>3 DEF OwnInv, Own, OwnLists, OwnApart, OwnOnce, OnT, Init, NoJob
<1>5. FifoInv
  BY <1>1 DEF FifoInv, Fit, Init
<1> QED BY <1>3, <1>4, <1>5 DEF FrameInv, AbsentInv, GrabInv, Init

LEMMA StartFrames ==
  ASSUME NEW p \in Procs, NEW k \in 1 .. MaxAlloc, Workload \in {"online", "apart"},
         TypeInv, FrameInv, AllocStart(p, k)
  PROVE  FrameInv'
<1>1. job.frames = <<>> /\ job'.frames = <<>> /\ job'.start = vmEnd[p] /\ grab[p] = None
  BY DEF AllocStart, TypeInv, JobInv, NoJob
<1>2. OwnInv'
  BY <1>1 DEF AllocStart, FrameInv, OwnInv
<1>3. FifoInv'
  BY DEF AllocStart, FrameInv, FifoInv
<1>4. allocating' = {p} /\ pgd' = pgd /\ vmEnd'[p] = vmEnd[p] + k /\ ~Overlays(p, k)
  BY DEF AllocStart, TypeInv, TypeOK
<1>5. AbsentInv'
  BY <1>1, <1>4 DEF AbsentInv, Overlays
<1>6. GrabInv'
  BY <1>1 DEF AllocStart, FrameInv, GrabInv, Faulting
<1> QED BY <1>2, <1>3, <1>5, <1>6 DEF FrameInv

LEMMA FreeFrames ==
  ASSUME NEW p \in Procs, TypeInv, FrameInv, AllocFree(p)
  PROVE  FrameInv'
<1>1. job'.frames = <<Head(ramFree)>> \o job.frames /\ job'.start = job.start
  BY DEF AllocFree, Obtained, TypeInv, TypeOK
<1>2. OwnInv'
  <2>1. /\ pgd \in Tables /\ ramFree \in Seq(0 .. RamFrames - 1) /\ job.frames \in Seq(Nat)
        /\ ramFree # <<>> /\ Own(pgd, ramFree, job.frames)
    BY DEF AllocFree, TypeInv, TypeOK, FrameInv, OwnInv, Tables
  <2>2. Own(pgd, Tail(ramFree), <<Head(ramFree)>> \o job.frames)
    BY <2>1, TakeOwn
  <2> QED BY <1>1, <2>2 DEF AllocFree, FreeAfter, OwnInv
<1>3. FifoInv'
  BY DEF AllocFree, FrameInv, FifoInv
<1>4. AbsentInv'
  BY <1>1 DEF AllocFree, FrameInv, AbsentInv
<1>5. GrabInv'
  BY DEF AllocFree, FrameInv, GrabInv, Faulting
<1> QED BY <1>2, <1>3, <1>4, <1>5 DEF FrameInv

LEMMA EvictFrames ==
  ASSUME NEW p \in Procs, TypeInv, FrameInv, AllocEvict(p)
  PROVE  FrameInv'
<1> DEFINE g == Head(fifo[p])
<1>1. PICK d \in Devices :
        /\ job' = Obtained(Fpn(pgd[p][g]))
        /\ pgd' = [pgd EXCEPT ![p][g] = SwappedTo(d, Head(swpFree[d]))]
  BY DEF AllocEvict
<1>2. /\ pgd \in Tables /\ ramFree \in Seq(0 .. RamFrames - 1) /\ job.frames \in Seq(Nat)
      /\ fifo[p] \in Seq(Pages) /\ fifo[p] # <<>> /\ Own(pgd, ramFree, job.frames)
      /\ Fit(pgd, p, fifo[p]) /\ p \in allocating
  BY DEF AllocEvict, TypeInv, TypeOK, FrameInv, OwnInv, FifoInv, Tables
<1>3. job'.frames = <<FrameT(pgd, p, g)>> \o job.frames /\ job'.start = job.start
  BY <1>1 DEF Obtained, FrameT, TypeInv, TypeOK
<1>4. \A q \in Procs, h \in Pages : ~(q = p /\ h = g) => pgd'[q][h] = pgd[q][h]
  BY <1>1, <1>2 DEF Tables
<1>5. \A h \in Pages : OnT(pgd, p, h) /\ h # g => OnT(pgd', p, h)
  BY <1>4 DEF OnT
<1>6. Fit(pgd', p, Tail(fifo[p])) /\ OnT(pgd, p, g) /\ g \in Pages
  BY <1>2, <1>5, FitTail
<1>7. OwnInv'
  <2>1. Own(pgd', ramFree, <<FrameT(pgd, p, g)>> \o job.frames)
    BY <1>1, <1>2, <1>6, EvictOwn
  <2> QED BY <1>3, <2>1 DEF AllocEvict, OwnInv
<1>8. fifo' = [fifo EXCEPT ![p] = Tail(@)] /\ fifo \in [Procs -> Seq(Pages)]
  BY DEF AllocEvict, TypeInv, TypeOK
<1>9. FifoInv'
  <2> SUFFICES ASSUME NEW q \in Procs PROVE Fit(pgd', q, fifo'[q])
    BY DEF FifoInv
  <2>1. CASE q = p
    BY <1>6, <1>8, <2>1
  <2>2. CASE q # p
    <3>1. fifo'[q] = fifo[q] /\ Elems(fifo[q]) \subseteq Pages
      BY <1>8, <2>2 DEF Elems
    <3>2. \A h \in Pages : OnT(pgd, q, h) => OnT(pgd', q, h)
      BY <1>4, <2>2 DEF OnT
    <3> QED BY <3>1, <3>2 DEF Fit, FrameInv, FifoInv
  <2> QED BY <2>1, <2>2
<1>10. AbsentInv'
  <2>1. pgd[p][g].present
    BY <1>6 DEF OnT
  <2>2. /\ allocating' = allocating /\ vmEnd' = vmEnd /\ allocating \subseteq Procs
        /\ allocating \subseteq {p}
    BY <1>2 DEF AllocEvict, TypeInv, TypeOK
  <2> QED BY <1>3, <1>4, <2>1, <2>2 DEF FrameInv, AbsentInv
<1>11. GrabInv'
  <2> SUFFICES ASSUME NEW q \in Procs, grab[q] # None
               PROVE  Faulting(q, grab[q].page, grab[q].victim)'
    BY DEF AllocEvict, GrabInv
  <2>1. Faulting(q, grab[q].page, grab[q].victim) /\ q # p /\ grab[q].page \in Pages
    BY <1>2 DEF FrameInv, GrabInv, Faulting, TypeInv, TypeOK
  <2>2. fifo'[q] = fifo[q] /\ pgd'[q][grab[q].page] = pgd[q][grab[q].page]
    BY <1>4, <1>8, <2>1
  <2> QED BY <2>1, <2>2 DEF Faulting, AllocEvict
<1> QED BY <1>7, <1>9, <1>10, <1>11 DEF FrameInv

LEMMA FailFrames ==
  ASSUME NEW p \in Procs, TypeInv, FrameInv, AllocFail(p)
  PROVE  FrameInv'
<1>1. /\ fifo[p] \in Seq(Pages) /\ p \in allocating /\ fifo \in [Procs -> Seq(Pages)]
      /\ fifo' = [fifo EXCEPT ![p] = RestOf(@)] /\ job'.frames = <<>> /\ allocating' = {}
      /\ pgd' = pgd /\ grab' = grab /\ vmEnd' = vmEnd /\ ramFree' = ramFree
  BY DEF AllocFail, Released, NoJob, TypeInv, TypeOK
<1>2. OwnInv'
  <2>1. Elems(<<>>) = {} /\ Distinct(<<>>)
    BY DEF Elems, Distinct
  <2> QED BY <1>1, <2>1 DEF FrameInv, OwnInv, Own, OwnLists, OwnApart
<1>3. FifoInv'
  <2>1. Fit(pgd, p, RestOf(fifo[p]))
    BY <1>1, FitTail DEF RestOf, FrameInv, FifoInv
  <2> QED BY <1>1, <2>1 DEF FrameInv, FifoInv
<1>4. AbsentInv'
  BY <1>1 DEF AbsentInv
<1>5. GrabInv'
  BY <1>1 DEF FrameInv, GrabInv, Faulting
<1> QED BY <1>2, <1>3, <1>4, <1>5 DEF FrameInv

LEMMA MapFrames ==
  ASSUME NEW p \in Procs, TypeInv, FrameInv, AllocMap(p)
  PROVE  FrameInv'
<1> DEFINE start == job.start
           n == Len(job.frames)
           new == {h \in Pages : h >= start /\ h < start + n}
<1>1. /\ p \in allocating /\ allocating \subseteq {p} /\ allocating' = {}
      /\ pgd' = [pgd EXCEPT ![p] = Mapped(@, start, job.frames)]
      /\ fifo' = [fifo EXCEPT ![p] = @ \o PageRange(start, n)]
      /\ ramFree' = ramFree /\ job'.frames = <<>> /\ vmEnd' = vmEnd /\ grab' = grab
  BY DEF AllocMap, Released, NoJob, TypeInv, TypeOK
<1>2. /\ start \in Nat /\ n \in Nat /\ start + n = vmEnd[p] /\ vmEnd[p] <= MaxEnd
      /\ start + n <= MaxPages
  BY <1>1, PagingAssumption DEF AllocMap, TypeInv, TypeOK, JobInv
<1>3. /\ pgd \in Tables /\ job.frames \in Seq(Nat) /\ fifo \in [Procs -> Seq(Pages)]
      /\ Own(pgd, ramFree, job.frames)
  BY DEF TypeInv, TypeOK, FrameInv, OwnInv, Tables
<1>4. \A g \in Pages : g >= start /\ g < start + n => ~pgd[p][g].present
  BY <1>1, <1>2 DEF FrameInv, AbsentInv
<1>5. /\ Own(pgd', ramFree, <<>>)
      /\ \A q \in Procs, h \in Pages : ~(q = p /\ h >= start /\ h < start + n)
                                       => pgd'[q][h] = pgd[q][h]
      /\ \A h \in Pages : h >= start /\ h < start + n => OnT(pgd', p, h)
  <2>1. \A g \in Pages : g >= start /\ g < start + Len(job.frames) => ~OnT(pgd, p, g)
    BY <1>4 DEF OnT
  <2> DEFINE u == [pgd EXCEPT ![p] = Mapped(@, start, job.frames)]
  <2>2. /\ Own(u, ramFree, <<>>)
        /\ \A q \in Procs, h \in Pages : ~(q = p /\ h >= start /\ h < start + Len(job.frames))
                                         => u[q][h] = pgd[q][h]
        /\ \A h \in Pages : h >= start /\ h < start + Len(job.frames) => OnT(u, p, h)
    <3> HIDE DEF start
    <3> QED BY <1>2, <1>3, <2>1, MapOwn
  <2>3. pgd' = u
    BY <1>1
  <2> HIDE DEF u
  <2> QED BY <2>2, <2>3
<1>6. OwnInv'
  BY <1>1, <1>5 DEF OwnInv
<1>7. PageRange(start, n) \in Seq(Pages) /\ Distinct(PageRange(start, n)) /\ Elems(PageRange(start, n)) = new
  BY <1>2, RangeFacts
<1> HIDE DEF start, n
<1>8. FifoInv'
  <2> SUFFICES ASSUME NEW q \in Procs PROVE Fit(pgd', q, fifo'[q])
    BY DEF FifoInv
  <2>1. \A h \in Pages : OnT(pgd, q, h) => OnT(pgd', q, h)
    BY <1>4, <1>5 DEF OnT
  <2>2. Fit(pgd, q, fifo[q]) /\ Elems(fifo[q]) \subseteq Pages
    BY <1>3 DEF FrameInv, FifoInv, Elems
  <2>3. Fit(pgd', q, fifo[q])
    BY <2>1, <2>2 DEF Fit
  <2>4. CASE q = p
    <3>1. Elems(fifo[p]) \cap new = {}
      BY <1>4, <2>2, <2>4 DEF Fit, OnT
    <3>2. Fit(pgd', p, PageRange(start, n))
      BY <1>5, <1>7 DEF Fit
    <3>3. fifo'[p] = fifo[p] \o PageRange(start, n)
      BY <1>1, <1>3
    <3> QED BY <1>3, <1>7, <2>3, <2>4, <3>1, <3>2, <3>3, FitConcat
  <2>5. CASE q # p
    BY <1>1, <1>3, <2>3, <2>5
  <2> QED BY <2>4, <2>5
<1>9. AbsentInv'
  BY <1>1 DEF AbsentInv
<1>10. GrabInv'
  <2> SUFFICES ASSUME NEW q \in Procs, grab[q] # None
               PROVE  Faulting(q, grab[q].page, grab[q].victim)'
    BY <1>1 DEF GrabInv
  <2>1. Faulting(q, grab[q].page, grab[q].victim) /\ q # p /\ grab[q].page \in Pages
    BY <1>1 DEF FrameInv, GrabInv, Faulting, TypeInv, TypeOK
  <2>2. fifo'[q] = fifo[q] /\ pgd'[q][grab[q].page] = pgd[q][grab[q].page]
    BY <1>1, <1>3, <1>5, <2>1
  <2> QED BY <1>1, <2>1, <2>2 DEF Faulting
<1> QED BY <1>6, <1>8, <1>9, <1>10 DEF FrameInv

(* What a fault does to frames, tables and FIFOs.          *)
LEMMA FaultFrames ==
  ASSUME NEW p \in Procs, NEW g \in Pages, NEW vic, NEW o,
         TypeInv, FrameInv, Faulting(p, g, vic), SwapIn(p, g, vic, o),
         UNCHANGED <<ramFree, vmEnd, allocating, job>>,
         grab'[p] = None, \A q \in Procs : q # p => grab'[q] = grab[q]
  PROVE  FrameInv'
<1>1. /\ pgd \in Tables /\ fifo[p] \in Seq(Pages) /\ fifo[p] # <<>> /\ vic = Head(fifo[p])
      /\ Fit(pgd, p, fifo[p]) /\ ~pgd[p][g].present
      /\ fifo \in [Procs -> Seq(Pages)]
  BY DEF TypeInv, TypeOK, FrameInv, FifoInv, Faulting, Tables
<1>2. OnT(pgd, p, vic) /\ vic \in Pages /\ vic # g
  <2>1. OnT(pgd, p, vic) /\ vic \in Pages
    BY <1>1, FitTail
  <2> QED BY <1>1, <2>1 DEF OnT
<1>3. /\ pgd' = [pgd EXCEPT ![p] = TableAfter(@, g, vic, o)]
      /\ fifo' = [fifo EXCEPT ![p] = FifoAfter(@, g)]
  BY DEF SwapIn
<1>4. /\ Own(pgd', ramFree, job.frames)
      /\ \A q \in Procs, h \in Pages :
           OnT(pgd', q, h) <=> (OnT(pgd, q, h) /\ ~(q = p /\ h = vic)) \/ (q = p /\ h = g)
  <2>1. Own(pgd, ramFree, job.frames)
    BY DEF FrameInv, OwnInv
  <2>2. pgd'[p] = TableAfter(pgd[p], g, vic, o) /\ \A q \in Procs : q # p => pgd'[q] = pgd[q]
    BY <1>1, <1>3 DEF Tables
  <2>3. pgd \in Tables /\ ~pgd[p][g].present /\ OnT(pgd, p, vic) /\ vic \in Pages
    BY <1>1, <1>2
  <2> QED BY <2>1, <2>2, <2>3, FaultOwn
<1>5. OwnInv'
  BY <1>4 DEF OwnInv
<1>6. Fit(pgd', p, Tail(fifo[p])) /\ Tail(fifo[p]) \in Seq(Pages)
  BY <1>1, <1>4, FitTail, TailFacts
<1>7. Fit(pgd', p, Append(Tail(fifo[p]), g))
  <2>1. Fit(pgd', p, <<g>>)
    BY <1>4 DEF Fit, Distinct, Elems
  <2>2. Elems(Tail(fifo[p])) \cap Elems(<<g>>) = {}
    <3>1. Elems(Tail(fifo[p])) \subseteq Elems(fifo[p]) /\ Elems(<<g>>) = {g}
      BY <1>1, TailFacts DEF Elems
    <3>2. g \notin Elems(fifo[p])
      BY <1>1 DEF Fit, OnT
    <3> QED BY <3>1, <3>2
  <2>3. Append(Tail(fifo[p]), g) = Tail(fifo[p]) \o <<g>> /\ <<g>> \in Seq(Pages)
    BY <1>6
  <2> QED BY <1>6, <2>1, <2>2, <2>3, FitConcat
<1>8. FifoInv'
  <2> SUFFICES ASSUME NEW q \in Procs PROVE Fit(pgd', q, fifo'[q])
    BY DEF FifoInv
  <2>1. CASE q = p
    BY <1>1, <1>3, <1>7, <2>1 DEF FifoAfter
  <2>2. CASE q # p
    <3>1. fifo'[q] = fifo[q] /\ Elems(fifo[q]) \subseteq Pages
      BY <1>1, <1>3, <2>2 DEF Elems
    <3> QED BY <1>4, <2>2, <3>1 DEF Fit, FrameInv, FifoInv
  <2> QED BY <2>1, <2>2
<1>9. \A q \in Procs, h \in Pages : ~(q = p /\ h \in {g, vic}) => pgd'[q][h] = pgd[q][h]
  BY <1>1, <1>3 DEF TableAfter, Tables
<1>10. AbsentInv'
  <2>1. p \notin allocating /\ allocating \subseteq Procs
    BY DEF Faulting, TypeInv, TypeOK
  <2> QED BY <1>9, <2>1 DEF FrameInv, AbsentInv
<1>11. GrabInv'
  <2> SUFFICES ASSUME NEW q \in Procs, grab'[q] # None
               PROVE  Faulting(q, grab[q].page, grab[q].victim)'
    BY DEF GrabInv
  <2>1. q # p /\ grab'[q] = grab[q] /\ Faulting(q, grab[q].page, grab[q].victim)
        /\ grab[q].page \in Pages
    BY DEF FrameInv, GrabInv, TypeInv, TypeOK
  <2>2. fifo'[q] = fifo[q] /\ pgd'[q][grab[q].page] = pgd[q][grab[q].page]
    BY <1>1, <1>3, <1>9, <2>1
  <2> QED BY <2>1, <2>2 DEF Faulting
<1> QED BY <1>5, <1>8, <1>10, <1>11 DEF FrameInv

(* A process that faults has a page to replace.                            *)
LEMMA FaultHasVictim ==
  ASSUME NEW p \in Procs, NEW g \in Pages, Workload \in {"online", "apart"},
         Touches(p, g), ~pgd[p][g].present
  PROVE  Faulting(p, g, Head(fifo[p])) /\ Victims(p) = {Head(fifo[p])} /\ Workload = "apart"
BY DEF Touches, Online, Faulting, Victims

LEMMA NextFrames ==
  Workload \in {"online", "apart"} /\ TypeInv /\ FrameInv /\ [Next]_vars => FrameInv'
<1> SUFFICES ASSUME Workload \in {"online", "apart"}, TypeInv, FrameInv, [Next]_vars PROVE FrameInv'
  OBVIOUS
<1>1. ASSUME UNCHANGED <<ramFree, pgd, fifo, vmEnd, allocating, job, grab>> PROVE FrameInv'
  BY <1>1 DEF FrameInv, OwnInv, FifoInv, AbsentInv, GrabInv, Faulting
<1>2. ASSUME NEW p \in Procs, ProcStep(p) PROVE FrameInv'
  <2>1. ASSUME NEW k \in 1 .. MaxAlloc, AllocStart(p, k) PROVE FrameInv'
    BY <2>1, StartFrames
  <2>2. CASE AllocFree(p)
    BY <2>2, FreeFrames
  <2>3. CASE AllocEvict(p)
    BY <2>3, EvictFrames
  <2>4. CASE AllocFail(p)
    BY <2>4, FailFrames
  <2>5. CASE AllocMap(p)
    BY <2>5, MapFrames
  <2>6. ASSUME NEW g \in Pages, Read(p, g) PROVE FrameInv'
    BY <1>1, <2>6 DEF Read
  <2>7. ASSUME NEW g \in Pages, NEW v \in Values, Write(p, g, v) PROVE FrameInv'
    BY <1>1, <2>7 DEF Write
  <2>8. ASSUME NEW g \in Pages, NEW v \in Values, WriteFault(p, g, v) PROVE FrameInv'
    <3>1. Faulting(p, g, Head(fifo[p])) /\ Victims(p) = {Head(fifo[p])}
      BY <2>8, FaultHasVictim DEF WriteFault
    <3>2. PICK o \in SwapSlots : SwapIn(p, g, Head(fifo[p]), o)
      BY <2>8, <3>1 DEF WriteFault
    <3>3. grab' = grab /\ grab[p] = None /\ UNCHANGED <<ramFree, vmEnd, allocating, job>>
      BY <2>8 DEF WriteFault, Touches
    <3> QED BY <3>1, <3>2, <3>3, FaultFrames
  <2>9. ASSUME NEW g \in Pages, ReadGrab(p, g) PROVE FrameInv'
    <3>1. Faulting(p, g, Head(fifo[p])) /\ Victims(p) = {Head(fifo[p])}
      BY <2>9, FaultHasVictim DEF ReadGrab
    <3>2. /\ UNCHANGED <<ramFree, pgd, fifo, vmEnd, allocating, job>>
          /\ grab'[p].page = g /\ grab'[p].victim = Head(fifo[p])
          /\ \A q \in Procs : q # p => grab'[q] = grab[q]
      BY <2>9, <3>1 DEF ReadGrab, TypeInv, TypeOK
    <3>3. OwnInv' /\ FifoInv' /\ AbsentInv'
      BY <3>2 DEF FrameInv, OwnInv, FifoInv, AbsentInv
    <3>4. GrabInv'
      <4> SUFFICES ASSUME NEW q \in Procs, grab'[q] # None
                   PROVE  Faulting(q, grab[q].page, grab[q].victim)'
        BY DEF GrabInv
      <4>1. CASE q = p
        BY <3>1, <3>2, <4>1 DEF Faulting
      <4>2. CASE q # p
        BY <3>2, <4>2 DEF FrameInv, GrabInv, Faulting
      <4> QED BY <4>1, <4>2
    <3> QED BY <3>3, <3>4 DEF FrameInv
  <2>10. CASE ReadSwap(p)
    <3>1. grab[p] # None /\ Faulting(p, grab[p].page, grab[p].victim) /\ grab[p].page \in Pages
      BY <2>10 DEF ReadSwap, FrameInv, GrabInv, TypeInv, TypeOK
    <3>2. /\ SwapIn(p, grab[p].page, grab[p].victim, grab[p].slot)
          /\ UNCHANGED <<ramFree, vmEnd, allocating, job>>
          /\ grab'[p] = None /\ \A q \in Procs : q # p => grab'[q] = grab[q]
      BY <2>10 DEF ReadSwap, TypeInv, TypeOK
    <3> QED BY <3>1, <3>2, FaultFrames
  <2> QED BY <1>2, <2>1, <2>2, <2>3, <2>4, <2>5, <2>6, <2>7, <2>8, <2>9, <2>10 DEF ProcStep
<1>3. ASSUME UNCHANGED vars PROVE FrameInv'
  BY <1>1, <1>3 DEF vars
<1> QED BY <1>2, <1>3 DEF Next

LEMMA FrameMeaning ==
  TypeInv /\ FrameInv => FrameExclusive /\ FifoIsOnline
<1> SUFFICES ASSUME TypeInv, FrameInv PROVE FrameExclusive /\ FifoIsOnline
  OBVIOUS
<1>1. \A p \in Procs, g \in Pages : OnT(pgd, p, g) <=> g \in Online(p)
  BY DEF OnT, Online
<1>2. \A p \in Procs, g \in Pages : FrameT(pgd, p, g) = Frame(p, g)
  BY DEF FrameT, Frame
<1>3. FrameExclusive
  <2> SUFFICES ASSUME NEW p \in Procs, NEW g \in Pages, OnT(pgd, p, g)
               PROVE  /\ Frame(p, g) < RamFrames
                      /\ \A i \in DOMAIN ramFree : ramFree[i] # Frame(p, g)
                      /\ \A i \in DOMAIN job.frames : job.frames[i] # Frame(p, g)
                      /\ \A q \in Procs, h \in Pages :
                           OnT(pgd, q, h) /\ Frame(q, h) = Frame(p, g) => q = p /\ h = g
    BY <1>1 DEF FrameExclusive, OnlinePages
  <2>1. /\ Frame(p, g) \in 0 .. RamFrames - 1
        /\ Frame(p, g) \notin Elems(ramFree) /\ Frame(p, g) \notin Elems(job.frames)
    BY <1>2 DEF FrameInv, OwnInv, Own, OwnApart
  <2>2. Frame(p, g) < RamFrames
    BY <2>1, PagingAssumption
  <2>3. \A q \in Procs, h \in Pages :
           OnT(pgd, q, h) /\ Frame(q, h) = Frame(p, g) => q = p /\ h = g
    BY <1>2 DEF FrameInv, OwnInv, Own, OwnOnce
  <2> QED BY <2>1, <2>2, <2>3 DEF Elems
<1>4. FifoIsOnline
  <2> SUFFICES ASSUME NEW p \in Procs
               PROVE  /\ Listed(p) \subseteq Online(p)
                      /\ \A i, j \in DOMAIN fifo[p] : fifo[p][i] = fifo[p][j] => i = j
    BY DEF FifoIsOnline
  <2>1. Listed(p) = Elems(fifo[p]) /\ Elems(fifo[p]) \subseteq Pages
    BY DEF Listed, Elems, TypeInv, TypeOK
  <2>2. Fit(pgd, p, fifo[p])
    BY DEF FrameInv, FifoInv
  <2> QED BY <1>1, <2>1, <2>2 DEF Fit, Distinct
<1> QED BY <1>3, <1>4

(* Frames are shared out exclusively in every system, whatever pages       *)
(* programs touch once they have one to replace, in the area or beyond it, *)
(* provided they do not allocate over a page they touched beyond it (what  *)
(* that does shows VictimOnline).                                          *)
THEOREM FrameExclusiveAlways ==
  ASSUME Workload \in {"online", "apart"} PROVE Spec => []FrameExclusive
<1>1. TypeInv /\ FrameInv /\ [Next]_vars => (TypeInv /\ FrameInv)'
  BY NextType, NextFrames
<1>2. Init => TypeInv /\ FrameInv
  BY InitType, InitFrames
<1>3. TypeInv /\ FrameInv => FrameExclusive
  BY FrameMeaning
<1> QED BY <1>1, <1>2, <1>3, PTL DEF Spec

(* The FIFO yields a victim that has a frame to give: an online page, and  *)
(* no page stands in it twice; with the same proviso.                      *)
THEOREM FifoIsOnlineAlways ==
  ASSUME Workload \in {"online", "apart"} PROVE Spec => []FifoIsOnline
<1>1. TypeInv /\ FrameInv /\ [Next]_vars => (TypeInv /\ FrameInv)'
  BY NextType, NextFrames
<1>2. Init => TypeInv /\ FrameInv
  BY InitType, InitFrames
<1>3. TypeInv /\ FrameInv => FifoIsOnline
  BY FrameMeaning
<1> QED BY <1>1, <1>2, <1>3, PTL DEF Spec

------------------------------------------------------------------------------
(* Data, when programs touch online pages only.  Nobody is in a fault, and *)
(* swapped pages keep their values in frames of swap that belong to them.  *)
Place(t, p, g) == <<SwpType(t[p][g]), SwpOffset(t[p][g])>>

SwapOwn(t, free) ==
  \A p \in Procs, g \in Pages : t[p][g].swapped =>
    /\ SwpType(t[p][g]) \in Devices
    /\ SwpOffset(t[p][g]) \in 0 .. SwapFrames[SwpType(t[p][g])] - 1
    /\ SwpOffset(t[p][g]) \notin Elems(free[SwpType(t[p][g])])

SwapOnce(t) ==
  \A p, q \in Procs, g, h \in Pages :
    t[p][g].swapped /\ t[q][h].swapped /\ Place(t, p, g) = Place(t, q, h) => p = q /\ g = h

SwapLists(free) ==
  \A d \in Devices : Distinct(free[d]) /\ Elems(free[d]) \subseteq 0 .. SwapFrames[d] - 1

SwapInv == SwapLists(swpFree) /\ SwapOwn(pgd, swpFree) /\ SwapOnce(pgd)

DataInv ==
  \A p \in Procs, g \in Pages :
    want[p][g] # Junk => pgd[p][g].present /\ Stored(p, g) = want[p][g]

ReplaceInv ==
  SwapHasRoom # {} =>
    \A p \in Procs, g \in Pages : OnT(pgd, p, g) => g \in Elems(fifo[p])

NoFault == \A p \in Procs : grab[p] = None

CleanInv == NoFault /\ SwapInv /\ DataInv /\ ReadYourWrites /\ ReplaceInv

LEMMA InitClean == Init => CleanInv
<1> SUFFICES ASSUME Init PROVE CleanInv
  OBVIOUS
<1>1. \A p \in Procs, g \in Pages : ~pgd[p][g].present /\ ~pgd[p][g].swapped /\ want[p][g] = Junk
  BY DEF Init, Absent
<1>2. SwapLists(swpFree)
  <2> SUFFICES ASSUME NEW d \in Devices
               PROVE  /\ Distinct(Formatted(SwapFrames[d]))
                      /\ Elems(Formatted(SwapFrames[d])) \subseteq 0 .. SwapFrames[d] - 1
    BY DEF SwapLists, Init
  <2>1. SwapFrames[d] \in Nat
    BY PagingAssumption
  <2> QED BY <2>1, FormattedFacts
<1>3. SwapInv
  BY <1>1, <1>2 DEF SwapInv, SwapOwn, SwapOnce
<1>4. DataInv /\ ReplaceInv
  BY <1>1 DEF DataInv, ReplaceInv, OnT
<1> QED BY <1>3, <1>4 DEF CleanInv, NoFault, ReadYourWrites, Init

(* Moving a page to the head of a device's free list keeps swap shared     *)
(* out, whatever happens to pages that are not in swap.                    *)
LEMMA TakeSlot ==
  ASSUME NEW p \in Procs, NEW g \in Pages, NEW d \in Devices, TypeInv, SwapInv,
         swpFree[d] # <<>>, swpFree' = [swpFree EXCEPT ![d] = Tail(@)],
         pgd'[p][g] = SwappedTo(d, Head(swpFree[d])),
         \A q \in Procs, h \in Pages :
           ~(q = p /\ h = g) /\ pgd'[q][h].swapped => pgd'[q][h] = pgd[q][h]
  PROVE  SwapInv'
<1> DEFINE o == Head(swpFree[d])
<1>1. /\ Distinct(Tail(swpFree[d])) /\ Elems(Tail(swpFree[d])) = Elems(swpFree[d]) \ {o}
      /\ o \in Elems(swpFree[d]) /\ o \in 0 .. SwapFrames[d] - 1
  <2>1. swpFree[d] \in Seq(Nat) /\ Distinct(swpFree[d])
        /\ Elems(swpFree[d]) \subseteq 0 .. SwapFrames[d] - 1
    BY DEF TypeInv, TypeOK, SwapInv, SwapLists
  <2> QED BY <2>1, TailFacts
<1>2. o \in Nat /\ d \in 0 .. 31
  BY <1>1, PagingAssumption
<1>3. swpFree'[d] = Tail(swpFree[d]) /\ \A e \in Devices : e # d => swpFree'[e] = swpFree[e]
  BY DEF TypeInv, TypeOK
<1>4. pgd'[p][g] = SwappedTo(d, o)
  OBVIOUS
<1> HIDE DEF o
<1>5. SwpType(pgd'[p][g]) = d /\ SwpOffset(pgd'[p][g]) = o
  BY <1>2, <1>4, SwappedBits
<1>6. \A q \in Procs, h \in Pages : pgd[q][h].swapped =>
        /\ SwpType(pgd[q][h]) \in Devices
        /\ SwpOffset(pgd[q][h]) \in 0 .. SwapFrames[SwpType(pgd[q][h])] - 1
        /\ SwpOffset(pgd[q][h]) \notin Elems(swpFree[SwpType(pgd[q][h])])
        /\ ~(SwpType(pgd[q][h]) = d /\ SwpOffset(pgd[q][h]) = o)
  BY <1>1 DEF SwapInv, SwapOwn
<1>7. SwapLists(swpFree')
  BY <1>1, <1>3 DEF SwapLists, SwapInv
<1>8. SwapOwn(pgd', swpFree')
  <2> SUFFICES ASSUME NEW q \in Procs, NEW h \in Pages, pgd'[q][h].swapped
               PROVE  /\ SwpType(pgd'[q][h]) \in Devices
                      /\ SwpOffset(pgd'[q][h]) \in 0 .. SwapFrames[SwpType(pgd'[q][h])] - 1
                      /\ SwpOffset(pgd'[q][h]) \notin Elems(swpFree'[SwpType(pgd'[q][h])])
    BY DEF SwapOwn
  <2>1. CASE q = p /\ h = g
    BY <1>1, <1>3, <1>5, <2>1
  <2>2. CASE ~(q = p /\ h = g)
    <3>1. pgd'[q][h] = pgd[q][h]
      BY <2>2
    <3> QED BY <1>1, <1>3, <1>6, <3>1
  <2> QED BY <2>1, <2>2
<1>9. SwapOnce(pgd')
  <2> SUFFICES ASSUME NEW q \in Procs, NEW r \in Procs, NEW h \in Pages, NEW k \in Pages,
                      pgd'[q][h].swapped, pgd'[r][k].swapped, Place(pgd', q, h) = Place(pgd', r, k)
               PROVE  q = r /\ h = k
    BY DEF SwapOnce
  <2>1. CASE (q = p /\ h = g) /\ (r = p /\ k = g)
    BY <2>1
  <2>2. CASE (q = p /\ h = g) /\ ~(r = p /\ k = g)
    <3>1. pgd'[r][k] = pgd[r][k]
      BY <2>2
    <3> QED BY <1>5, <1>6, <2>2, <3>1 DEF Place
  <2>3. CASE ~(q = p /\ h = g) /\ (r = p /\ k = g)
    <3>1. pgd'[q][h] = pgd[q][h]
      BY <2>3
    <3> QED BY <1>5, <1>6, <2>3, <3>1 DEF Place
  <2>4. CASE ~(q = p /\ h = g) /\ ~(r = p /\ k = g)
    <3>1. pgd'[q][h] = pgd[q][h] /\ pgd'[r][k] = pgd[r][k]
      BY <2>4
    <3> QED BY <3>1 DEF Place, SwapInv, SwapOnce
  <2> QED BY <2>1, <2>2, <2>3, <2>4
<1> QED BY <1>7, <1>8, <1>9 DEF SwapInv

(* So does a step that takes no frame of swap and swaps no page out.       *)
LEMMA KeepSlots ==
  ASSUME SwapInv, swpFree' = swpFree,
         \A q \in Procs, h \in Pages : pgd'[q][h].swapped => pgd'[q][h] = pgd[q][h]
  PROVE  SwapInv'
<1>1. SwapOwn(pgd', swpFree)
  BY DEF SwapInv, SwapOwn
<1>2. SwapOnce(pgd')
  <2> SUFFICES ASSUME NEW q \in Procs, NEW r \in Procs, NEW h \in Pages, NEW k \in Pages,
                      pgd'[q][h].swapped, pgd'[r][k].swapped, Place(pgd', q, h) = Place(pgd', r, k)
               PROVE  q = r /\ h = k
    BY DEF SwapOnce
  <2>1. pgd'[q][h] = pgd[q][h] /\ pgd'[r][k] = pgd[r][k]
    OBVIOUS
  <2> QED BY <2>1 DEF Place, SwapInv, SwapOnce
<1> QED BY <1>1, <1>2 DEF SwapInv

(* The victim leaves the FIFO of its process, and RAM; pages that enter    *)
(* RAM are enlisted.                                                       *)
LEMMA VictimReplace ==
  ASSUME NEW p \in Procs, TypeInv, FrameInv, ReplaceInv, fifo[p] # <<>>,
         SwapHasRoom' # {} => SwapHasRoom # {},
         Elems(Tail(fifo[p])) \subseteq Elems(fifo'[p]),
         \A q \in Procs : q # p => fifo'[q] = fifo[q],
         \A q \in Procs, h \in Pages : OnT(pgd', q, h) =>
           (OnT(pgd, q, h) /\ ~(q = p /\ h = Head(fifo[p]))) \/ h \in Elems(fifo'[q])
  PROVE  ReplaceInv'
<1>1. Elems(Tail(fifo[p])) = Elems(fifo[p]) \ {Head(fifo[p])}
  BY TailFacts DEF Fit, FrameInv, FifoInv, TypeInv, TypeOK
<1> SUFFICES ASSUME SwapHasRoom' # {}, NEW q \in Procs, NEW h \in Pages, OnT(pgd', q, h),
                    OnT(pgd, q, h), ~(q = p /\ h = Head(fifo[p]))
             PROVE  h \in Elems(fifo'[q])
  BY DEF ReplaceInv
<1>2. h \in Elems(fifo[q])
  BY DEF ReplaceInv
<1> QED BY <1>1, <1>2

(* The device an eviction takes, and the tables after it.                  *)
LEMMA EvictEffect ==
  ASSUME NEW p \in Procs, TypeInv, FrameInv, AllocEvict(p)
  PROVE  \E d \in Devices :
           LET g == Head(fifo[p])
               o == Head(swpFree[d])
           IN  /\ swpFree[d] # <<>> /\ swpFree' = [swpFree EXCEPT ![d] = Tail(@)]
               /\ g \in Pages /\ OnT(pgd, p, g) /\ pgd'[p][g] = SwappedTo(d, o)
               /\ \A q \in Procs, h \in Pages : ~(q = p /\ h = g) => pgd'[q][h] = pgd[q][h]
               /\ swp' = [swp EXCEPT ![d] = SwapOut(Fpn(pgd[p][g]), d, o)]
<1> DEFINE g == Head(fifo[p])
<1>1. PICK d \in Devices :
        /\ IsSwapDevice(d)
        /\ swp' = [swp EXCEPT ![d] = SwapOut(Fpn(pgd[p][g]), d, Head(swpFree[d]))]
        /\ pgd' = [pgd EXCEPT ![p][g] = SwappedTo(d, Head(swpFree[d]))]
        /\ swpFree' = [swpFree EXCEPT ![d] = Tail(@)]
  BY DEF AllocEvict
<1>2. /\ pgd \in Tables /\ fifo[p] \in Seq(Pages) /\ fifo[p] # <<>> /\ Fit(pgd, p, fifo[p])
      /\ swpFree[d] # <<>>
  BY <1>1 DEF AllocEvict, IsSwapDevice, SwapHasRoom, TypeInv, TypeOK, FrameInv, FifoInv, Tables
<1>3. OnT(pgd, p, g) /\ g \in Pages
  BY <1>2, FitTail
<1>4. /\ pgd'[p][g] = SwappedTo(d, Head(swpFree[d]))
      /\ \A q \in Procs, h \in Pages : ~(q = p /\ h = g) => pgd'[q][h] = pgd[q][h]
  BY <1>1, <1>2, <1>3 DEF Tables
<1> QED BY <1>1, <1>2, <1>3, <1>4

LEMMA EvictReplace ==
  ASSUME NEW p \in Procs, TypeInv, FrameInv, ReplaceInv, AllocEvict(p)
  PROVE  ReplaceInv'
<1> DEFINE g == Head(fifo[p])
<1>1. PICK d \in Devices :
        /\ swpFree[d] # <<>> /\ pgd'[p][g] = SwappedTo(d, Head(swpFree[d]))
        /\ \A q \in Procs, h \in Pages : ~(q = p /\ h = g) => pgd'[q][h] = pgd[q][h]
  BY EvictEffect
<1>2. /\ fifo[p] # <<>> /\ fifo'[p] = Tail(fifo[p])
      /\ \A q \in Procs : q # p => fifo'[q] = fifo[q]
  BY DEF AllocEvict, TypeInv, TypeOK
<1>3. SwapHasRoom # {}
  BY <1>1 DEF SwapHasRoom
<1>4. \A q \in Procs, h \in Pages : OnT(pgd', q, h) =>
        OnT(pgd, q, h) /\ ~(q = p /\ h = g)
  BY <1>1 DEF OnT, SwappedTo
<1> QED BY <1>2, <1>3, <1>4, VictimReplace

(* Mapping an area changes absent pages only, and enlists them.            *)
LEMMA MapEffect ==
  ASSUME NEW p \in Procs, TypeInv, FrameInv, AllocMap(p)
  PROVE  /\ \A q \in Procs, h \in Pages :
              \/ pgd'[q][h] = pgd[q][h]
              \/ ~pgd[q][h].present /\ ~pgd'[q][h].swapped /\ h \in Elems(fifo'[q])
         /\ \A q \in Procs : Elems(fifo[q]) \subseteq Elems(fifo'[q])
<1> DEFINE start == job.start
           n == Len(job.frames)
<1>1. /\ p \in allocating
      /\ pgd' = [pgd EXCEPT ![p] = Mapped(@, start, job.frames)]
      /\ fifo' = [fifo EXCEPT ![p] = @ \o PageRange(start, n)]
      /\ pgd \in Tables /\ fifo \in [Procs -> Seq(Pages)]
  BY DEF AllocMap, TypeInv, TypeOK, Tables
<1>2. /\ start \in Nat /\ n \in Nat /\ start + n = vmEnd[p] /\ vmEnd[p] <= MaxEnd
      /\ start + n <= MaxPages
  BY <1>1, PagingAssumption DEF AllocMap, TypeInv, TypeOK, JobInv
<1>3. \A g \in Pages : g >= start /\ g < start + n => ~pgd[p][g].present
  BY <1>1, <1>2 DEF FrameInv, AbsentInv
<1>4. PageRange(start, n) \in Seq(Pages)
      /\ Elems(PageRange(start, n)) = {h \in Pages : h >= start /\ h < start + n}
  BY <1>2, RangeFacts
<1>5. fifo'[p] = fifo[p] \o PageRange(start, n) /\ \A q \in Procs : q # p => fifo'[q] = fifo[q]
  BY <1>1
<1>6. Elems(fifo'[p]) = Elems(fifo[p]) \cup {h \in Pages : h >= start /\ h < start + n}
  BY <1>1, <1>4, <1>5, ConcatFacts
<1>7. ASSUME NEW q \in Procs, NEW h \in Pages
      PROVE  \/ pgd'[q][h] = pgd[q][h]
             \/ ~pgd[q][h].present /\ ~pgd'[q][h].swapped /\ h \in Elems(fifo'[q])
  <2>1. pgd'[q] = IF q = p THEN Mapped(pgd[p], start, job.frames) ELSE pgd[q]
    BY <1>1 DEF Tables
  <2>2. h \in start .. start + (n - 1) <=> h >= start /\ h < start + n
    BY <1>2 DEF Pages
  <2>3. CASE q = p /\ h >= start /\ h < start + n
    BY <1>3, <1>6, <2>1, <2>2, <2>3 DEF Mapped, OnlineAt
  <2>4. CASE ~(q = p /\ h >= start /\ h < start + n)
    BY <2>1, <2>2, <2>4 DEF Mapped
  <2> QED BY <2>3, <2>4
<1> QED BY <1>5, <1>6, <1>7

LEMMA MapReplace ==
  ASSUME NEW p \in Procs, TypeInv, FrameInv, ReplaceInv, AllocMap(p)
  PROVE  ReplaceInv'
<1>1. SwapHasRoom' = SwapHasRoom
  BY DEF AllocMap, SwapHasRoom
<1> QED BY <1>1, MapEffect DEF ReplaceInv, OnT

LEMMA FailReplace ==
  ASSUME NEW p \in Procs, TypeInv, ReplaceInv, AllocFail(p)
  PROVE  ReplaceInv'
<1>1. SwapHasRoom' = SwapHasRoom /\ pgd' = pgd
  BY DEF AllocFail, SwapHasRoom
<1>2. CASE SwapHasRoom = {}
  BY <1>1, <1>2 DEF ReplaceInv
<1>3. CASE fifo[p] = <<>>
  <2>1. fifo' = fifo
    BY <1>3 DEF AllocFail, RestOf, TypeInv, TypeOK
  <2> QED BY <1>1, <2>1 DEF ReplaceInv
<1> QED BY <1>2, <1>3 DEF AllocFail

LEMMA EvictClean ==
  ASSUME NEW p \in Procs, TypeInv, FrameInv, CleanInv, AllocEvict(p)
  PROVE  CleanInv'
<1> DEFINE g == Head(fifo[p])
           f == Fpn(pgd[p][g])
<1>1. PICK d \in Devices :
        /\ swpFree[d] # <<>> /\ swpFree' = [swpFree EXCEPT ![d] = Tail(@)]
        /\ g \in Pages /\ OnT(pgd, p, g) /\ pgd'[p][g] = SwappedTo(d, Head(swpFree[d]))
        /\ \A q \in Procs, h \in Pages : ~(q = p /\ h = g) => pgd'[q][h] = pgd[q][h]
        /\ swp' = [swp EXCEPT ![d] = SwapOut(f, d, Head(swpFree[d]))]
  BY EvictEffect
<1> DEFINE o == Head(swpFree[d])
<1>2. ram' = ram /\ want' = want /\ seen' = seen /\ grab' = grab /\ DOMAIN swp = Devices
  BY DEF AllocEvict, TypeInv, TypeOK
<1>3. o \in Elems(swpFree[d]) /\ o \in 0 .. SwapFrames[d] - 1 /\ o \in Nat /\ d \in 0 .. 31
  <2>1. /\ swpFree[d] \in Seq(Nat) /\ Elems(swpFree[d]) \subseteq 0 .. SwapFrames[d] - 1
    BY DEF CleanInv, SwapInv, SwapLists, TypeInv, TypeOK
  <2> QED BY <1>1, <2>1, TailFacts, PagingAssumption
<1>4. SwapInv' /\ ReplaceInv'
  <2>1. SwapInv'
    BY <1>1, TakeSlot DEF CleanInv
  <2> QED BY <2>1, EvictReplace DEF CleanInv
<1>5. DataInv'
  <2> SUFFICES ASSUME NEW q \in Procs, NEW h \in Pages, want[q][h] # Junk
               PROVE  pgd'[q][h].present /\ Stored(q, h)' = want[q][h]
    BY <1>2 DEF DataInv
  <2>1. pgd[q][h].present /\ Stored(q, h) = want[q][h]
    BY DEF CleanInv, DataInv
  <2>2. /\ swp'[d] = Put(swp[d], o, At(ram, f)) /\ \A e \in Devices : e # d => swp'[e] = swp[e]
        /\ DOMAIN swp[d] = 0 .. SwapFrames[d] - 1
    BY <1>1, <1>2 DEF SwapOut, TypeInv, TypeOK
  <2>3. pgd'[p][g] = SwappedTo(d, o)
    BY <1>1
  <2> HIDE DEF o
  <2>4. /\ At(swp'[d], o) = At(ram, f)
        /\ \A i : i # o => At(swp'[d], i) = At(swp[d], i)
    BY <1>3, <2>2 DEF Put, At
  <2>5. CASE q = p /\ h = g
    <3>1. Stored(p, g) = At(ram, f)
      BY <1>1 DEF Stored, Frame, OnT
    <3>2. /\ pgd'[q][h].swapped /\ pgd'[q][h].present
          /\ SwpType(pgd'[q][h]) = d /\ SwpOffset(pgd'[q][h]) = o
      BY <1>3, <2>3, <2>5, SwappedBits
    <3>3. Stored(q, h)' = At(swp'[d], o)
      BY <3>2 DEF Stored
    <3> QED BY <2>1, <2>4, <2>5, <3>1, <3>2, <3>3
  <2>6. CASE ~(q = p /\ h = g)
    <3>1. pgd'[q][h] = pgd[q][h]
      BY <1>1, <2>6
    <3>2. CASE pgd[q][h].swapped
      <4>1. /\ SwpType(pgd[q][h]) \in Devices
            /\ ~(SwpType(pgd[q][h]) = d /\ SwpOffset(pgd[q][h]) = o)
        BY <1>3, <3>2 DEF CleanInv, SwapInv, SwapOwn
      <4>2. At(swp'[SwpType(pgd[q][h])], SwpOffset(pgd[q][h]))
              = At(swp[SwpType(pgd[q][h])], SwpOffset(pgd[q][h]))
        BY <2>2, <2>4, <4>1
      <4> QED BY <2>1, <3>1, <3>2, <4>2 DEF Stored
    <3>3. CASE ~pgd[q][h].swapped
      BY <1>2, <2>1, <3>1, <3>3 DEF Stored, Frame
    <3> QED BY <3>2, <3>3
  <2> QED BY <2>5, <2>6
<1>6. NoFault' /\ ReadYourWrites'
  BY <1>2 DEF CleanInv, NoFault, ReadYourWrites
<1> QED BY <1>4, <1>5, <1>6 DEF CleanInv

LEMMA MapClean ==
  ASSUME NEW p \in Procs, TypeInv, FrameInv, CleanInv, AllocMap(p)
  PROVE  CleanInv'
<1>1. UNCHANGED <<ram, swp, swpFree, want, seen, grab>>
  BY DEF AllocMap
<1>2. \A q \in Procs, h \in Pages :
        \/ pgd'[q][h] = pgd[q][h]
        \/ ~pgd[q][h].present /\ ~pgd'[q][h].swapped
  BY MapEffect
<1>3. SwapInv' /\ ReplaceInv'
  <2>1. SwapInv'
    BY <1>1, <1>2, KeepSlots DEF CleanInv
  <2> QED BY <2>1, MapReplace DEF CleanInv
<1>4. DataInv'
  <2> SUFFICES ASSUME NEW q \in Procs, NEW h \in Pages, want[q][h] # Junk
               PROVE  pgd'[q][h].present /\ Stored(q, h)' = want[q][h]
    BY <1>1 DEF DataInv
  <2>1. pgd[q][h].present /\ Stored(q, h) = want[q][h]
    BY DEF CleanInv, DataInv
  <2>2. pgd'[q][h] = pgd[q][h]
    BY <1>2, <2>1
  <2> QED BY <1>1, <2>1, <2>2 DEF Stored, Frame
<1>5. NoFault' /\ ReadYourWrites'
  BY <1>1 DEF CleanInv, NoFault, ReadYourWrites
<1> QED BY <1>3, <1>4, <1>5 DEF CleanInv

(* A write to an online page is in its frame and in no other's.            *)
LEMMA WriteClean ==
  ASSUME NEW p \in Procs, NEW g \in Pages, NEW v \in Values, Workload = "online",
         TypeInv, FrameInv, CleanInv, Write(p, g, v)
  PROVE  CleanInv'
<1>1. /\ OnT(pgd, p, g) /\ ram' = Put(ram, FrameT(pgd, p, g), v)
      /\ want' = [want EXCEPT ![p][g] = v] /\ want \in [Procs -> [Pages -> Mem]]
      /\ DOMAIN ram = 0 .. RamFrames - 1
      /\ pgd' = pgd /\ fifo' = fifo /\ swp' = swp /\ swpFree' = swpFree /\ seen' = seen /\ grab' = grab
  BY DEF Write, Touches, Online, OnT, Frame, FrameT, TypeInv, TypeOK
<1>2. DataInv'
  <2> SUFFICES ASSUME NEW q \in Procs, NEW h \in Pages, want'[q][h] # Junk
               PROVE  pgd[q][h].present /\ Stored(q, h)' = want'[q][h]
    BY <1>1 DEF DataInv
  <2>1. CASE q = p /\ h = g
    <3>1. want'[q][h] = v
      BY <1>1, <2>1
    <3>2. FrameT(pgd, p, g) \in DOMAIN ram
      BY <1>1 DEF FrameInv, OwnInv, Own, OwnApart
    <3>3. At(ram', FrameT(pgd, p, g)) = v
      BY <1>1, <3>2 DEF At, Put
    <3> QED BY <1>1, <2>1, <3>1, <3>3 DEF Stored, Frame, FrameT, OnT
  <2>2. CASE ~(q = p /\ h = g)
    <3>1. want'[q][h] = want[q][h]
      BY <1>1, <2>2
    <3>2. pgd[q][h].present /\ Stored(q, h) = want[q][h]
      BY <3>1 DEF CleanInv, DataInv
    <3>3. CASE pgd[q][h].swapped
      BY <1>1, <3>1, <3>2, <3>3 DEF Stored
    <3>4. CASE ~pgd[q][h].swapped
      <4>1. FrameT(pgd, q, h) # FrameT(pgd, p, g)
        BY <1>1, <2>2, <3>2, <3>4 DEF OnT, FrameInv, OwnInv, Own, OwnOnce
      <4>2. At(ram', FrameT(pgd, q, h)) = At(ram, FrameT(pgd, q, h))
        BY <1>1, <4>1 DEF At, Put
      <4> QED BY <1>1, <3>1, <3>2, <3>4, <4>2 DEF Stored, Frame, FrameT
    <3> QED BY <3>3, <3>4
  <2> QED BY <2>1, <2>2
<1>3. SwapInv' /\ NoFault' /\ ReadYourWrites' /\ ReplaceInv'
  BY <1>1 DEF CleanInv, SwapInv, NoFault, ReadYourWrites, ReplaceInv, SwapHasRoom
<1> QED BY <1>2, <1>3 DEF CleanInv

LEMMA ReadClean ==
  ASSUME NEW p \in Procs, NEW g \in Pages, Workload = "online",
         TypeInv, FrameInv, CleanInv, Read(p, g)
  PROVE  CleanInv'
<1>1. /\ g \in Online(p) /\ seen' = [got |-> At(ram, Frame(p, g)), wanted |-> want[p][g]]
      /\ UNCHANGED <<ram, pgd, fifo, swp, swpFree, grab, want>>
  BY DEF Read, Touches
<1>2. Stored(p, g) = At(ram, Frame(p, g))
  BY <1>1 DEF Online, Stored
<1>3. ReadYourWrites'
  BY <1>1, <1>2 DEF ReadYourWrites, CleanInv, DataInv
<1>4. SwapInv' /\ NoFault' /\ ReplaceInv' /\ DataInv'
  BY <1>1 DEF CleanInv, SwapInv, NoFault, DataInv, ReplaceInv, SwapHasRoom, Stored, Frame
<1> QED BY <1>3, <1>4 DEF CleanInv

LEMMA FailClean ==
  ASSUME NEW p \in Procs, TypeInv, CleanInv, AllocFail(p)
  PROVE  CleanInv'
<1>1. UNCHANGED <<ram, pgd, swp, swpFree, grab, want, seen>>
  BY DEF AllocFail
<1>2. SwapInv' /\ NoFault' /\ DataInv' /\ ReadYourWrites'
  BY <1>1 DEF CleanInv, SwapInv, NoFault, DataInv, ReadYourWrites, Stored, Frame
<1>3. ReplaceInv'
  BY FailReplace DEF CleanInv
<1> QED BY <1>2, <1>3 DEF CleanInv

LEMMA NextClean ==
  Workload = "online" /\ TypeInv /\ FrameInv /\ CleanInv /\ [Next]_vars => CleanInv'
<1> SUFFICES ASSUME Workload = "online", TypeInv, FrameInv, CleanInv, [Next]_vars PROVE CleanInv'
  OBVIOUS
<1>1. ASSUME UNCHANGED <<ram, pgd, fifo, swp, swpFree, grab, want, seen>> PROVE CleanInv'
  BY <1>1 DEF CleanInv, SwapInv, NoFault, DataInv, ReadYourWrites, ReplaceInv, SwapHasRoom,
              Stored, Frame
<1>2. ASSUME NEW p \in Procs, ProcStep(p) PROVE CleanInv'
  <2>1. ASSUME NEW k \in 1 .. MaxAlloc, AllocStart(p, k) PROVE CleanInv'
    BY <1>1, <2>1 DEF AllocStart
  <2>2. CASE AllocFree(p)
    BY <1>1, <2>2 DEF AllocFree
  <2>3. CASE AllocEvict(p)
    BY <2>3, EvictClean
  <2>4. CASE AllocFail(p)
    BY <2>4, FailClean
  <2>5. CASE AllocMap(p)
    BY <2>5, MapClean
  <2>6. ASSUME NEW g \in Pages, Read(p, g) PROVE CleanInv'
    BY <2>6, ReadClean
  <2>7. ASSUME NEW g \in Pages, NEW v \in Values, Write(p, g, v) PROVE CleanInv'
    BY <2>7, WriteClean
  <2>8. ASSUME NEW g \in Pages, NEW v \in Values, WriteFault(p, g, v) PROVE FALSE
    BY <2>8, FaultHasVictim DEF WriteFault
  <2>9. ASSUME NEW g \in Pages, ReadGrab(p, g) PROVE FALSE
    BY <2>9, FaultHasVictim DEF ReadGrab
  <2>10. ASSUME ReadSwap(p) PROVE FALSE
    BY <2>10 DEF ReadSwap, CleanInv, NoFault
  <2> QED BY <1>2, <2>1, <2>2, <2>3, <2>4, <2>5, <2>6, <2>7, <2>8, <2>9, <2>10 DEF ProcStep
<1>3. ASSUME UNCHANGED vars PROVE CleanInv'
  BY <1>1, <1>3 DEF vars
<1> QED BY <1>2, <1>3 DEF Next

(* The invariant of programs that stay with online pages.                  *)
LEMMA CleanInduction ==
  ASSUME Workload = "online" PROVE Spec => [](TypeInv /\ FrameInv /\ CleanInv)
<1>1. Workload \in {"online", "apart"}
  OBVIOUS
<1>2. TypeInv /\ FrameInv /\ CleanInv /\ [Next]_vars => (TypeInv /\ FrameInv /\ CleanInv)'
  BY <1>1, NextType, NextFrames, NextClean
<1>3. Init => TypeInv /\ FrameInv /\ CleanInv
  BY InitType, InitFrames, InitClean
<1> QED BY <1>2, <1>3, PTL DEF Spec

LEMMA SwapMeaning == TypeInv /\ SwapInv => SwapExclusive
<1> SUFFICES ASSUME TypeInv, SwapInv, NEW p \in Procs, NEW g \in Pages, pgd[p][g].swapped
             PROVE  /\ \A i \in DOMAIN swpFree[SwpType(pgd[p][g])] :
                         swpFree[SwpType(pgd[p][g])][i] # SwpOffset(pgd[p][g])
                    /\ \A q \in Procs, h \in Pages :
                         pgd[q][h].swapped /\ SwapPlace(q, h) = SwapPlace(p, g)
                         => q = p /\ h = g
  BY DEF SwapExclusive, SwappedPages, SwapPlace
<1> QED BY DEF SwapInv, SwapOwn, SwapOnce, SwapPlace, Place, Elems

(* A frame of a swap device holds one page of one process, or is free.     *)
THEOREM SwapExclusiveAlways ==
  ASSUME Workload = "online" PROVE Spec => []SwapExclusive
<1>1. TypeInv /\ CleanInv => SwapExclusive
  BY SwapMeaning DEF CleanInv
<1> QED BY CleanInduction, <1>1, PTL

(* The last value written to a page is where its entry points to.          *)
THEOREM DataIntactAlways ==
  ASSUME Workload = "online" PROVE Spec => []DataIntact
<1>1. CleanInv => DataIntact
  BY DEF CleanInv, DataInv, DataIntact
<1> QED BY CleanInduction, <1>1, PTL

(* A read returns what was last written to the page.                       *)
THEOREM ReadYourWritesAlways ==
  ASSUME Workload = "online" PROVE Spec => []ReadYourWrites
<1>1. CleanInv => ReadYourWrites
  BY DEF CleanInv
<1> QED BY CleanInduction, <1>1, PTL

(* While a swap device has room every online page can become a victim.     *)
(* Full swap devices are left out: there pages do escape replacement.      *)
THEOREM AllReplaceableAlways ==
  ASSUME Workload = "online" PROVE Spec => []AllReplaceable
<1>1. CleanInv => AllReplaceable
  BY DEF CleanInv, ReplaceInv, AllReplaceable, Replaceable, Online, OnT, Listed, Elems
<1> QED BY CleanInduction, <1>1, PTL

------------------------------------------------------------------------------
(* No phantom memory, whatever programs touch.  Pages only ever become     *)
(* present, and as long as the areas fit in RAM the frames that are free   *)
(* are those that no area has claimed.                                     *)
Row(p, a, k) == {p} \X (a .. a + (k - 1))

LEMMA RowCardinality ==
  ASSUME NEW p \in Procs, NEW a \in Nat, NEW k \in Nat
  PROVE  IsFiniteSet(Row(p, a, k)) /\ Cardinality(Row(p, a, k)) = k
<1> DEFINE I == a .. a + (k - 1)
           row == {p} \X I
<1>1. IsFiniteSet(I) /\ Cardinality(I) = k
  <2>1. a \in Int /\ a + (k - 1) \in Int
    OBVIOUS
  <2>2. IsFiniteSet(I) /\ Cardinality(I) = IF a > a + (k - 1) THEN 0 ELSE (a + (k - 1)) - a + 1
    BY <2>1, FS_Interval
  <2> QED BY <2>2
<1>2. IsFiniteSet({p}) /\ Cardinality({p}) = 1
  BY FS_Singleton
<1>3. IsFiniteSet(row) /\ Cardinality(row) = 1 * k
  BY <1>1, <1>2, FS_Product
<1> QED BY <1>3 DEF Row

LEMMA AreaFinite ==
  ASSUME TypeInv
  PROVE  IsFiniteSet(AreaPages) /\ Cardinality(AreaPages) \in Nat
<1>1. IsFiniteSet(Pages)
  <2>1. 0 \in Int /\ MaxPages - 1 \in Int
    BY PagingAssumption
  <2> QED BY <2>1, FS_Interval DEF Pages
<1>2. IsFiniteSet(Procs \X Pages)
  BY <1>1, FS_Product, PagingAssumption
<1>3. IsFiniteSet(AreaPages)
  BY <1>2, FS_Subset DEF AreaPages
<1> QED BY <1>3, FS_CardinalityType

(* An allocation of k pages adds k pages to the areas.                     *)
LEMMA AreaGrows ==
  ASSUME NEW p \in Procs, NEW k \in 1 .. MaxAlloc, TypeInv, AllocStart(p, k)
  PROVE  /\ Cardinality(AreaPages)' = Cardinality(AreaPages) + k
         /\ AreaPages' = AreaPages \cup Row(p, vmEnd[p], k)
<1> DEFINE row == Row(p, vmEnd[p], k)
<1>1. /\ vmEnd[p] \in Nat /\ k \in Nat /\ vmEnd[p] + k <= MaxPages
      /\ vmEnd'[p] = vmEnd[p] + k /\ \A q \in Procs : q # p => vmEnd'[q] = vmEnd[q]
  BY PagingAssumption DEF AllocStart, TypeInv, TypeOK
<1>2. AreaPages' = AreaPages \cup row
  <2>1. vmEnd[p] .. vmEnd[p] + (k - 1) \subseteq Pages
    BY <1>1, PagingAssumption DEF Pages
  <2>2. \A g \in Pages : g < vmEnd[p] + k <=> g < vmEnd[p] \/ g \in vmEnd[p] .. vmEnd[p] + (k - 1)
    BY <1>1 DEF Pages
  <2>3. \A x \in Procs \X Pages : x \in AreaPages' <=> x \in AreaPages \/ x \in row
    BY <1>1, <2>2 DEF AreaPages, Row
  <2>4. row \subseteq Procs \X Pages /\ AreaPages' \subseteq Procs \X Pages
        /\ AreaPages \subseteq Procs \X Pages
    BY <2>1 DEF AreaPages, Row
  <2> HIDE DEF row
  <2> QED BY <2>3, <2>4
<1>3. AreaPages \cap row = {}
  <2>1. \A g \in vmEnd[p] .. vmEnd[p] + (k - 1) : ~(g < vmEnd[p])
    BY <1>1
  <2> QED BY <2>1 DEF AreaPages, Row
<1>4. IsFiniteSet(row) /\ Cardinality(row) = k
  <2>1. vmEnd[p] \in Nat /\ k \in Nat
    BY <1>1
  <2> QED BY <2>1, RowCardinality
<1>5. IsFiniteSet(AreaPages) /\ Cardinality(AreaPages) \in Nat
  BY AreaFinite
<1>6. Cardinality(AreaPages \cap row) = 0
  BY <1>3, FS_EmptySet
<1> HIDE DEF row
<1>7. Cardinality(AreaPages \cup row) = Cardinality(AreaPages) + Cardinality(row) - Cardinality(AreaPages \cap row)
  BY <1>4, <1>5, FS_Union
<1>8. Cardinality(AreaPages \cup row) = Cardinality(AreaPages) + k
  BY <1>1, <1>4, <1>5, <1>6, <1>7
<1> QED BY <1>2, <1>8 DEF row

Secured(p, g) == pgd[p][g].present \/ (p \in allocating /\ g >= job.start)

PhantomInv ==
  Cardinality(AreaPages) <= RamFrames =>
    /\ Len(ramFree) + Cardinality(AreaPages) = RamFrames + job.need
    /\ \A x \in AreaPages : Secured(x[1], x[2])

LEMMA InitPhantom == Init => PhantomInv
<1> SUFFICES ASSUME Init PROVE PhantomInv
  OBVIOUS
<1>1. AreaPages = {}
  BY DEF Init, AreaPages, Pages
<1>2. Cardinality(AreaPages) = 0
  BY <1>1, FS_EmptySet
<1>3. Len(ramFree) = RamFrames /\ job.need = 0
  BY FormattedFacts, PagingAssumption DEF Init, NoJob
<1> QED BY <1>1, <1>2, <1>3, PagingAssumption DEF PhantomInv

(* Presence is for ever.                                                   *)
Remains == \A p \in Procs, g \in Pages : pgd[p][g].present => pgd'[p][g].present

LEMMA FaultRemains ==
  ASSUME NEW p \in Procs, NEW g \in Pages, NEW vic \in Pages, NEW o,
         TypeInv, SwapIn(p, g, vic, o)
  PROVE  Remains
<1>1. /\ pgd'[p] = TableAfter(pgd[p], g, vic, o) /\ \A q \in Procs : q # p => pgd'[q] = pgd[q]
      /\ pgd[p] \in [Pages -> PTEs]
  BY DEF SwapIn, TypeInv, TypeOK
<1>2. SwappedTo(0, o).present /\ \A f : OnlineAt(f).present
  BY DEF SwappedTo, OnlineAt
<1> QED BY <1>1, <1>2 DEF Remains, TableAfter

LEMMA QuietPhantom ==
  ASSUME TypeInv, PhantomInv, Remains,
         UNCHANGED <<ramFree, vmEnd, allocating, job>>
  PROVE  PhantomInv'
<1>1. AreaPages' = AreaPages
  BY DEF AreaPages
<1>2. \A p \in Procs, g \in Pages : Secured(p, g) => Secured(p, g)'
  BY DEF Secured, Remains
<1>3. AreaPages \subseteq Procs \X Pages
  BY DEF AreaPages
<1> QED BY <1>1, <1>2, <1>3 DEF PhantomInv

LEMMA AllocPhantom ==
  ASSUME NEW p \in Procs, TypeInv, PhantomInv,
         \/ \E k \in 1 .. MaxAlloc : AllocStart(p, k)
         \/ AllocFree(p) \/ AllocEvict(p) \/ AllocFail(p) \/ AllocMap(p)
  PROVE  PhantomInv'
<1>1. /\ IsFiniteSet(AreaPages) /\ Cardinality(AreaPages) \in Nat /\ RamFrames \in Nat
      /\ ramFree \in Seq(0 .. RamFrames - 1) /\ Len(ramFree) \in Nat /\ job.need \in Nat
      /\ AreaPages \subseteq Procs \X Pages
  <2>1. IsFiniteSet(AreaPages) /\ Cardinality(AreaPages) \in Nat
    BY AreaFinite
  <2>2. ramFree \in Seq(0 .. RamFrames - 1) /\ job.need \in Nat
    BY DEF TypeInv, TypeOK
  <2>3. Len(ramFree) \in Nat
    BY <2>2
  <2>4. RamFrames \in Nat /\ AreaPages \subseteq Procs \X Pages
    BY PagingAssumption DEF AreaPages
  <2> QED BY <2>1, <2>2, <2>3, <2>4
<1>2. ASSUME NEW k \in 1 .. MaxAlloc, AllocStart(p, k) PROVE PhantomInv'
  <2> DEFINE row == Row(p, vmEnd[p], k)
  <2>1. /\ job.need = 0 /\ job'.need = k /\ job'.start = vmEnd[p] /\ k \in Nat
        /\ allocating = {} /\ allocating' = {p} /\ ramFree' = ramFree /\ pgd' = pgd
        /\ vmEnd[p] \in Nat
    BY <1>2, PagingAssumption DEF AllocStart, TypeInv, TypeOK, JobInv, NoJob
  <2>2. Cardinality(AreaPages)' = Cardinality(AreaPages) + k /\ AreaPages' = AreaPages \cup row
    BY <1>2, AreaGrows
  <2>3. \A x \in row : x[1] = p /\ x[2] >= vmEnd[p]
    BY <2>1 DEF Row
  <2> HIDE DEF row
  <2> SUFFICES ASSUME Cardinality(AreaPages)' <= RamFrames
               PROVE  /\ Len(ramFree') + Cardinality(AreaPages)' = RamFrames + job'.need
                      /\ \A x \in AreaPages' : Secured(x[1], x[2])'
    BY DEF PhantomInv
  <2>4. Cardinality(AreaPages) <= RamFrames
    BY <1>1, <2>1, <2>2
  <2>5. Len(ramFree) + (Cardinality(AreaPages) + k) = RamFrames + k
    <3>1. Len(ramFree) + Cardinality(AreaPages) = RamFrames + 0
      BY <2>1, <2>4 DEF PhantomInv
    <3>2. \A a, b, c, d \in Int : a + b = c + 0 => a + (b + d) = c + d
      OBVIOUS
    <3>3. /\ Len(ramFree) \in Int /\ Cardinality(AreaPages) \in Int
          /\ RamFrames \in Int /\ k \in Int
      BY <1>1, <2>1
    <3> QED BY <3>1, <3>2, <3>3
  <2>6. ASSUME NEW x \in AreaPages' PROVE Secured(x[1], x[2])'
    <3>1. CASE x \in row
      BY <2>1, <2>3, <3>1 DEF Secured
    <3>2. CASE x \in AreaPages
      <4>1. Secured(x[1], x[2])
        BY <2>4, <3>2 DEF PhantomInv
      <4> QED BY <2>1, <4>1 DEF Secured
    <3> QED BY <2>2, <2>6, <3>1, <3>2
  <2> QED BY <2>1, <2>2, <2>5, <2>6
<1>3. CASE AllocFree(p)
  <2>1. /\ Len(ramFree') = Len(ramFree) - 1 /\ job'.need = job.need - 1 /\ job'.start = job.start
        /\ allocating' = allocating /\ pgd' = pgd /\ vmEnd' = vmEnd
    BY <1>1, <1>3, TailFacts DEF AllocFree, FreeAfter, Obtained, TypeInv, TypeOK
  <2>2. AreaPages' = AreaPages
    BY <2>1 DEF AreaPages
  <2>3. \A q \in Procs, g \in Pages : Secured(q, g) => Secured(q, g)'
    BY <2>1 DEF Secured
  <2>4. \A a, b, c, d \in Int : a + b = c + d => (a - 1) + b = c + (d - 1)
    OBVIOUS
  <2>5. Cardinality(AreaPages) <= RamFrames =>
          Len(ramFree') + Cardinality(AreaPages) = RamFrames + job'.need
    BY <1>1, <2>1, <2>4 DEF PhantomInv
  <2> QED BY <1>1, <2>2, <2>3, <2>5 DEF PhantomInv
<1>4. CASE AllocEvict(p) \/ AllocFail(p)
  <2>1. ramFree = <<>> /\ job.need > 0 /\ vmEnd' = vmEnd
    BY <1>4 DEF AllocEvict, AllocFail
  <2>2. AreaPages' = AreaPages
    BY <2>1 DEF AreaPages
  <2>3. ~(Cardinality(AreaPages) <= RamFrames)
    BY <1>1, <2>1 DEF PhantomInv
  <2> QED BY <2>2, <2>3 DEF PhantomInv
<1>5. CASE AllocMap(p)
  <2>1. /\ p \in allocating /\ allocating \subseteq {p} /\ allocating' = {} /\ job'.need = 0
        /\ job.need = 0 /\ ramFree' = ramFree /\ vmEnd' = vmEnd
        /\ pgd' = [pgd EXCEPT ![p] = Mapped(@, job.start, job.frames)]
        /\ pgd \in [Procs -> [Pages -> PTEs]]
    BY <1>5 DEF AllocMap, Released, NoJob, TypeInv, TypeOK
  <2>2. /\ job.start \in Nat /\ Len(job.frames) \in Nat /\ vmEnd[p] \in Nat
        /\ job.start + Len(job.frames) = vmEnd[p]
    BY <2>1, PagingAssumption DEF TypeInv, TypeOK, JobInv
  <2>3. AreaPages' = AreaPages
    BY <2>1 DEF AreaPages
  <2>4. \A f : OnlineAt(f).present
    BY DEF OnlineAt
  <2>5. \A q \in Procs, g \in Pages :
          pgd[q][g].present \/ (q = p /\ g \in job.start .. job.start + (Len(job.frames) - 1))
          => pgd'[q][g].present
    BY <2>1, <2>4 DEF Mapped
  <2>6. ASSUME NEW x \in AreaPages, Secured(x[1], x[2]) PROVE Secured(x[1], x[2])'
    <3>1. x[1] \in Procs /\ x[2] \in Pages /\ x[2] < vmEnd[x[1]] /\ x[2] \in Nat
      BY <2>6 DEF AreaPages, Pages
    <3>2. CASE pgd[x[1]][x[2]].present
      BY <2>5, <3>1, <3>2 DEF Secured
    <3>3. CASE x[1] \in allocating /\ x[2] >= job.start
      <4>1. x[1] = p /\ x[2] < vmEnd[p]
        BY <2>1, <3>1, <3>3
      <4>2. x[2] \in job.start .. job.start + (Len(job.frames) - 1)
        BY <2>2, <3>1, <3>3, <4>1
      <4> QED BY <2>5, <3>1, <4>1, <4>2 DEF Secured
    <3> QED BY <2>6, <3>2, <3>3 DEF Secured
  <2> QED BY <2>1, <2>3, <2>6 DEF PhantomInv
<1> QED BY <1>2, <1>3, <1>4, <1>5

LEMMA NextPhantom == TypeInv /\ PhantomInv /\ [Next]_vars => PhantomInv'
<1> SUFFICES ASSUME TypeInv, PhantomInv, [Next]_vars PROVE PhantomInv'
  OBVIOUS
<1>1. ASSUME UNCHANGED <<pgd, ramFree, vmEnd, allocating, job>> PROVE PhantomInv'
  BY <1>1, QuietPhantom DEF Remains
<1>2. ASSUME NEW p \in Procs, ProcStep(p) PROVE PhantomInv'
  <2>1. ASSUME NEW g \in Pages, NEW v \in Values, Write(p, g, v) PROVE PhantomInv'
    BY <1>1, <2>1 DEF Write
  <2>2. ASSUME NEW g \in Pages, Read(p, g) PROVE PhantomInv'
    BY <1>1, <2>2 DEF Read
  <2>3. ASSUME NEW g \in Pages, ReadGrab(p, g) PROVE PhantomInv'
    BY <1>1, <2>3 DEF ReadGrab
  <2>4. ASSUME NEW g \in Pages, NEW v \in Values, WriteFault(p, g, v) PROVE PhantomInv'
    <3>1. PICK vic \in Victims(p), o \in SwapSlots : SwapIn(p, g, vic, o)
      BY <2>4 DEF WriteFault
    <3>2. vic \in Pages
      BY ChoiceTypes DEF TypeInv
    <3>3. Remains
      BY <3>1, <3>2, FaultRemains
    <3> QED BY <2>4, <3>3, QuietPhantom DEF WriteFault
  <2>5. CASE ReadSwap(p)
    <3>1. grab[p].page \in Pages /\ grab[p].victim \in Pages
      BY <2>5 DEF ReadSwap, TypeInv, TypeOK
    <3>2. SwapIn(p, grab[p].page, grab[p].victim, grab[p].slot)
      BY <2>5 DEF ReadSwap
    <3>3. Remains
      BY <3>1, <3>2, FaultRemains
    <3> QED BY <2>5, <3>3, QuietPhantom DEF ReadSwap
  <2> QED BY <1>2, <2>1, <2>2, <2>3, <2>4, <2>5, AllocPhantom DEF ProcStep
<1>3. ASSUME UNCHANGED vars PROVE PhantomInv'
  BY <1>1, <1>3 DEF vars
<1> QED BY <1>2, <1>3 DEF Next

(* As long as all areas fit in RAM, every page of an area is mapped once   *)
(* its allocation is over, whatever pages programs touch meanwhile.        *)
THEOREM NoPhantomAlways == Spec => []NoPhantom
<1>1. TypeInv /\ PhantomInv /\ [Next]_vars => (TypeInv /\ PhantomInv)'
  BY NextType, NextPhantom
<1>2. Init => TypeInv /\ PhantomInv
  BY InitType, InitPhantom
<1>3. PhantomInv => NoPhantom
  BY DEF PhantomInv, NoPhantom, Secured, Backed
<1> QED BY <1>1, <1>2, <1>3, PTL DEF Spec

------------------------------------------------------------------------------
(* Paging implements PageStore.                                            *)
LEMMA HeldIsWant ==
  ASSUME TypeInv, CleanInv
  PROVE  [p \in Procs |-> [g \in Pages |-> Held(p, g)]] = want
<1>1. \A p \in Procs, g \in Pages : Held(p, g) = want[p][g]
  BY DEF Held, CleanInv, DataInv
<1>2. want = [p \in Procs |-> [g \in Pages |-> want[p][g]]]
  BY DEF TypeInv, TypeOK
<1> QED BY <1>1, <1>2

(* An access is the same access to private memory, and no other step shows. *)
LEMMA StoreStep ==
  ASSUME Workload = "online", TypeInv, FrameInv, CleanInv, CleanInv', [Next]_vars
  PROVE  [Store!Next]_<<[p \in Procs |-> [g \in Pages |-> Held(p, g)]], seen.got>>
<1> DEFINE m == [p \in Procs |-> [g \in Pages |-> Held(p, g)]]
<1>1. m = want
  BY HeldIsWant
<1>2. m' = want'
  <2>1. TypeInv'
    BY NextType
  <2>2. \A p \in Procs, g \in Pages : Held(p, g)' = want'[p][g]
    BY DEF Held, CleanInv, DataInv
  <2>3. want' = [p \in Procs |-> [g \in Pages |-> want'[p][g]]]
    BY <2>1 DEF TypeInv, TypeOK
  <2> QED BY <2>2, <2>3
<1> HIDE DEF m
<1> SUFFICES [Store!Next]_<<m, seen.got>>
  BY DEF m
<1>3. ASSUME UNCHANGED <<want, seen>> PROVE UNCHANGED <<m, seen.got>>
  BY <1>1, <1>2, <1>3
<1>4. ASSUME NEW p \in Procs, NEW g \in Pages, NEW v \in Values, Write(p, g, v)
      PROVE  Store!Next
  <2>1. want' = [want EXCEPT ![p][g] = v] /\ seen' = seen
    BY <1>4 DEF Write
  <2>2. Store!Write(p, g, v)
    BY <1>1, <1>2, <2>1 DEF Store!Write, m
  <2> QED BY <2>2 DEF Store!Next
<1>5. ASSUME NEW p \in Procs, NEW g \in Pages, Read(p, g) PROVE Store!Next
  <2>1. /\ seen' = [got |-> At(ram, Frame(p, g)), wanted |-> want[p][g]] /\ want' = want
        /\ g \in Online(p)
    BY <1>5 DEF Read, Touches
  <2>2. seen'.got = Stored(p, g) /\ seen'.got \in Mem
    BY <2>1 DEF Stored, Online, At, Mem, TypeInv, TypeOK
  <2>3. want[p][g] # Junk => seen'.got = want[p][g]
    BY <2>2 DEF CleanInv, DataInv
  <2>4. Store!Read(p, g)
    BY <1>1, <1>2, <2>1, <2>2, <2>3 DEF Store!Read, Mem, m
  <2> QED BY <2>4 DEF Store!Next
<1>6. ASSUME NEW p \in Procs, ProcStep(p) PROVE [Store!Next]_<<m, seen.got>>
  <2>1. CASE \/ \E k \in 1 .. MaxAlloc : AllocStart(p, k)
             \/ AllocFree(p) \/ AllocEvict(p) \/ AllocFail(p) \/ AllocMap(p)
    <3>1. UNCHANGED <<want, seen>>
      BY <2>1 DEF AllocStart, AllocFree, AllocEvict, AllocFail, AllocMap
    <3> QED BY <1>3, <3>1
  <2>2. ASSUME NEW g \in Pages, NEW v \in Values, WriteFault(p, g, v) PROVE FALSE
    BY <2>2, FaultHasVictim DEF WriteFault
  <2>3. ASSUME NEW g \in Pages, ReadGrab(p, g) PROVE FALSE
    BY <2>3, FaultHasVictim DEF ReadGrab
  <2>4. ASSUME ReadSwap(p) PROVE FALSE
    BY <2>4 DEF ReadSwap, CleanInv, NoFault
  <2> QED BY <1>4, <1>5, <1>6, <2>1, <2>2, <2>3, <2>4 DEF ProcStep
<1>7. CASE UNCHANGED vars
  BY <1>3, <1>7 DEF vars
<1> QED BY <1>6, <1>7 DEF Next

(* Programs that stay with pages that were never swapped out see private   *)
(* memory, for any number of frames, devices and processes.                *)
THEOREM ImplementsStore ==
  ASSUME Workload = "online" PROVE Spec => StoreSpec
<1>1. Init => Store!Init
  BY DEF Init, Store!Init, Held
<1>2. TypeInv /\ FrameInv /\ CleanInv /\ (TypeInv /\ FrameInv /\ CleanInv)' /\ [Next]_vars
        => [Store!Next]_<<[p \in Procs |-> [g \in Pages |-> Held(p, g)]], seen.got>>
  BY StoreStep
<1> QED BY CleanInduction, <1>1, <1>2, PTL DEF Spec, StoreSpec, Store!Spec
==============================================================================
