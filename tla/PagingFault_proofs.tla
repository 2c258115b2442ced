-------------------------- MODULE PagingFault_proofs --------------------------
(***************************************************************************)
(* Swap frames when programs fault in pages that are not mapped, in their  *)
(* areas or beyond them, but do not allocate over those ("apart").         *)
(*                                                                         *)
(* A fault hands the head of the active device's free list to its victim,  *)
(* but a read does so in two halves and without mmvm_lock.  What is proved *)
(* here holds as long as nobody changes that list between the halves       *)
(* (Undisturbed), which one process alone cannot do (UndisturbedAlone);    *)
(* MCPagingRace shows what two processes do to each other.                 *)
(***************************************************************************)
EXTENDS Paging_proofs

(* The active device's free list does not change while a read holds a      *)
(* frame it has fetched from it.                                           *)
ListStays ==
  \A p \in Procs : grab[p] # None /\ grab'[p] # None => swpFree'[Active] = swpFree[Active]
Undisturbed == [][ListStays]_vars

------------------------------------------------------------------------------
(* What a read has fetched is still what the list says.                    *)
RestInv == \A p \in Procs : grab[p] # None => grab[p].rest = RestOf(swpFree[Active])
HeadInv ==
  \A p \in Procs : grab[p] # None =>
    swpFree[Active] # <<>> /\ grab[p].slot = Head(swpFree[Active])

(* Every frame taken from the active device holds a page: the free ones    *)
(* and the pages in swap are at least its frames.                          *)
RoomInv ==
  /\ \A p \in Procs, g \in Pages : pgd[p][g].swapped => pgd[p][g].present
  /\ Len(swpFree[Active]) + Cardinality(SwappedPages) >= SwapFrames[Active]

EveryPageFits == SwapFrames[Active] >= Cardinality(Procs) * MaxPages

LEMMA PagesFinite ==
  /\ IsFiniteSet(Procs \X Pages)
  /\ Cardinality(Procs \X Pages) = Cardinality(Procs) * MaxPages
  /\ Cardinality(Procs) * MaxPages \in Nat
<1>1. IsFiniteSet(Pages) /\ Cardinality(Pages) = MaxPages
  <2>1. 0 \in Int /\ MaxPages - 1 \in Int /\ MaxPages \in Nat
    BY PagingAssumption
  <2>2. /\ IsFiniteSet(0 .. MaxPages - 1)
        /\ Cardinality(0 .. MaxPages - 1) = IF 0 > MaxPages - 1 THEN 0 ELSE (MaxPages - 1) - 0 + 1
    BY <2>1, FS_Interval
  <2> QED BY <2>1, <2>2 DEF Pages
<1>2. /\ IsFiniteSet(Procs \X Pages)
      /\ Cardinality(Procs \X Pages) = Cardinality(Procs) * Cardinality(Pages)
  BY <1>1, FS_Product, PagingAssumption
<1> QED BY <1>1, <1>2, FS_CardinalityType

LEMMA SwappedFinite ==
  IsFiniteSet(SwappedPages) /\ Cardinality(SwappedPages) \in Nat /\ SwappedPages \subseteq Procs \X Pages
<1>1. SwappedPages \subseteq Procs \X Pages
  BY DEF SwappedPages
<1>2. IsFiniteSet(SwappedPages)
  BY <1>1, PagesFinite, FS_Subset
<1> QED BY <1>1, <1>2, FS_CardinalityType

LEMMA ActiveTypes ==
  /\ Active \in Devices /\ SwapFrames[Active] \in Nat
  /\ TypeInv => swpFree[Active] \in Seq(Nat) /\ Len(swpFree[Active]) \in Nat
<1>1. Active \in Devices /\ SwapFrames[Active] \in Nat
  BY PagingAssumption, SlotCount
<1>2. TypeInv => swpFree[Active] \in Seq(Nat)
  BY <1>1 DEF TypeInv, TypeOK
<1>3. \A s \in Seq(Nat) : Len(s) \in Nat
  OBVIOUS
<1> QED BY <1>1, <1>2, <1>3

(* A process that faults finds a free frame if every page has one.         *)
LEMMA RoomForFault ==
  ASSUME EveryPageFits, TypeInv, RoomInv, NEW p \in Procs, NEW g \in Pages, ~pgd[p][g].present
  PROVE  swpFree[Active] # <<>>
<1>1. <<p, g>> \in Procs \X Pages /\ <<p, g>> \notin SwappedPages
  BY DEF RoomInv, SwappedPages
<1>2. /\ Cardinality(SwappedPages) <= Cardinality(Procs \X Pages)
      /\ Cardinality(Procs \X Pages) = Cardinality(SwappedPages) => Procs \X Pages = SwappedPages
  BY PagesFinite, SwappedFinite, FS_Subset
<1>3. Cardinality(SwappedPages) < Cardinality(Procs) * MaxPages
  BY <1>1, <1>2, PagesFinite, SwappedFinite
<1>4. Len(swpFree[Active]) > 0
  BY <1>3, ActiveTypes, SwappedFinite, PagesFinite DEF RoomInv, EveryPageFits
<1> QED BY <1>4, ActiveTypes

(* A page that enters swap takes one frame.                                *)
LEMMA SlotTaken ==
  ASSUME NEW p \in Procs, NEW g \in Pages, NEW d \in Devices, TypeInv, RoomInv,
         swpFree[d] # <<>>, swpFree' = [swpFree EXCEPT ![d] = Tail(@)],
         <<p, g>> \notin SwappedPages, SwappedPages' = SwappedPages \cup {<<p, g>>},
         \A q \in Procs, h \in Pages : pgd'[q][h].swapped => pgd'[q][h].present
  PROVE  RoomInv'
<1>1. Cardinality(SwappedPages') = Cardinality(SwappedPages) + 1
  BY SwappedFinite, FS_AddElement
<1>2. swpFree \in [Devices -> Seq(Nat)]
  BY DEF TypeInv, TypeOK
<1>3. Len(swpFree'[Active]) >= Len(swpFree[Active]) - 1 /\ Len(swpFree'[Active]) \in Int
  <2>1. CASE d = Active
    <3>1. swpFree'[Active] = Tail(swpFree[Active])
      BY <1>2, <2>1, ActiveTypes
    <3>2. Len(Tail(swpFree[Active])) = Len(swpFree[Active]) - 1
      BY <2>1, ActiveTypes, TailFacts
    <3> QED BY <3>1, <3>2, ActiveTypes
  <2>2. CASE d # Active
    <3>1. swpFree'[Active] = swpFree[Active]
      BY <1>2, <2>2, ActiveTypes
    <3> QED BY <3>1, ActiveTypes
  <2> QED BY <2>1, <2>2
<1>4. Len(swpFree'[Active]) + Cardinality(SwappedPages') >= SwapFrames[Active]
  <2>1. Len(swpFree[Active]) + Cardinality(SwappedPages) >= SwapFrames[Active]
    BY DEF RoomInv
  <2> QED BY <1>1, <1>3, <2>1, SwappedFinite, ActiveTypes
<1> QED BY <1>4 DEF RoomInv

------------------------------------------------------------------------------
(* What a fault does to the page table and the FIFO of its process.        *)
LEMMA FaultEffect ==
  ASSUME NEW p \in Procs, NEW g \in Pages, NEW vic, NEW o,
         TypeInv, FrameInv, Faulting(p, g, vic), SwapIn(p, g, vic, o)
  PROVE  /\ vic \in Pages /\ OnT(pgd, p, vic) /\ vic # g
         /\ pgd'[p][vic] = SwappedTo(0, o) /\ ~pgd'[p][g].swapped
         /\ \A q \in Procs, h \in Pages : ~(q = p /\ h \in {g, vic}) => pgd'[q][h] = pgd[q][h]
         /\ fifo[p] # <<>> /\ vic = Head(fifo[p]) /\ fifo'[p] = Append(Tail(fifo[p]), g)
         /\ Tail(fifo[p]) \in Seq(Pages) /\ \A q \in Procs : q # p => fifo'[q] = fifo[q]
<1>1. /\ pgd \in Tables /\ fifo[p] \in Seq(Pages) /\ fifo[p] # <<>> /\ vic = Head(fifo[p])
      /\ Fit(pgd, p, fifo[p]) /\ ~pgd[p][g].present /\ fifo \in [Procs -> Seq(Pages)]
  BY DEF TypeInv, TypeOK, FrameInv, FifoInv, Faulting, Tables
<1>2. OnT(pgd, p, vic) /\ vic \in Pages /\ vic # g
  <2>1. OnT(pgd, p, vic) /\ vic \in Pages
    BY <1>1, FitTail
  <2> QED BY <1>1, <2>1 DEF OnT
<1>3. /\ pgd' = [pgd EXCEPT ![p] = TableAfter(@, g, vic, o)]
      /\ fifo' = [fifo EXCEPT ![p] = FifoAfter(@, g)]
  BY DEF SwapIn
<1>4. pgd'[p][vic] = SwappedTo(0, o) /\ ~pgd'[p][g].swapped
  BY <1>1, <1>2, <1>3 DEF TableAfter, Tables, OnlineAt
<1>5. \A q \in Procs, h \in Pages : ~(q = p /\ h \in {g, vic}) => pgd'[q][h] = pgd[q][h]
  BY <1>1, <1>3 DEF TableAfter, Tables
<1>6. fifo'[p] = Append(Tail(fifo[p]), g) /\ \A q \in Procs : q # p => fifo'[q] = fifo[q]
  BY <1>1, <1>3 DEF FifoAfter
<1>7. Tail(fifo[p]) \in Seq(Pages)
  BY <1>1, TailFacts
<1> QED BY <1>1, <1>2, <1>4, <1>5, <1>6, <1>7

LEMMA FaultReplace ==
  ASSUME NEW p \in Procs, NEW g \in Pages, NEW vic, NEW o,
         TypeInv, FrameInv, ReplaceInv, Faulting(p, g, vic), SwapIn(p, g, vic, o),
         SwapHasRoom' # {} => SwapHasRoom # {}
  PROVE  ReplaceInv'
<1>1. /\ fifo[p] # <<>> /\ vic = Head(fifo[p]) /\ Tail(fifo[p]) \in Seq(Pages)
      /\ fifo'[p] = Append(Tail(fifo[p]), g) /\ \A q \in Procs : q # p => fifo'[q] = fifo[q]
      /\ pgd'[p][vic] = SwappedTo(0, o)
      /\ \A q \in Procs, h \in Pages : ~(q = p /\ h \in {g, vic}) => pgd'[q][h] = pgd[q][h]
  BY FaultEffect
<1>2. Elems(fifo'[p]) = Elems(Tail(fifo[p])) \cup {g}
  <2>1. fifo'[p] = Tail(fifo[p]) \o <<g>> /\ <<g>> \in Seq(Pages)
    BY <1>1
  <2>2. Elems(<<g>>) = {g}
    BY DEF Elems
  <2>3. \A t \in Seq(Pages) : Elems(t \o <<g>>) = Elems(t) \cup Elems(<<g>>)
    <3>1. <<g>> \in Seq(Pages)
      OBVIOUS
    <3> QED BY <3>1, ConcatFacts
  <2> QED BY <1>1, <2>1, <2>2, <2>3
<1>3. ASSUME NEW q \in Procs, NEW h \in Pages, OnT(pgd', q, h)
      PROVE  (OnT(pgd, q, h) /\ ~(q = p /\ h = vic)) \/ h \in Elems(fifo'[q])
  <2>1. CASE q = p /\ h = g
    BY <1>2, <2>1
  <2>2. CASE q = p /\ h = vic
    BY <1>1, <1>3, <2>2 DEF OnT, SwappedTo
  <2>3. CASE ~(q = p /\ h \in {g, vic})
    BY <1>1, <1>3, <2>3 DEF OnT
  <2> QED BY <2>1, <2>2, <2>3
<1> QED BY <1>1, <1>2, <1>3, VictimReplace

(* A fault that takes the head of the active device's list.                *)
LEMMA FaultSlot ==
  ASSUME NEW p \in Procs, NEW g \in Pages, NEW vic, TypeInv, FrameInv, SwapInv, RoomInv,
         Faulting(p, g, vic), SwapIn(p, g, vic, Head(swpFree[Active])),
         swpFree[Active] # <<>>, swpFree' = [swpFree EXCEPT ![Active] = Tail(@)]
  PROVE  SwapInv' /\ RoomInv'
<1> DEFINE o == Head(swpFree[Active])
<1>1. /\ vic \in Pages /\ OnT(pgd, p, vic) /\ vic # g
      /\ pgd'[p][vic] = SwappedTo(0, o) /\ ~pgd'[p][g].swapped
      /\ \A q \in Procs, h \in Pages : ~(q = p /\ h \in {g, vic}) => pgd'[q][h] = pgd[q][h]
  BY FaultEffect
<1>2. Active \in Devices /\ Active = 0
  BY PagingAssumption DEF Active
<1>3. ~pgd[p][g].swapped /\ ~pgd[p][vic].swapped
  BY <1>1 DEF Faulting, RoomInv, OnT
<1>4. \A q \in Procs, h \in Pages : ~(q = p /\ h = vic) /\ pgd'[q][h].swapped => pgd'[q][h] = pgd[q][h]
  BY <1>1
<1>5. SwapInv'
  BY <1>1, <1>2, <1>4, TakeSlot
<1>6. pgd'[p][vic].swapped /\ pgd'[p][vic].present
  BY <1>1 DEF SwappedTo
<1>7. \A q \in Procs, h \in Pages :
        /\ pgd'[q][h].swapped <=> pgd[q][h].swapped \/ (q = p /\ h = vic)
        /\ pgd'[q][h].swapped => pgd'[q][h].present
  BY <1>1, <1>3, <1>6 DEF RoomInv
<1>8. SwappedPages' = SwappedPages \cup {<<p, vic>>} /\ <<p, vic>> \notin SwappedPages
  BY <1>1, <1>3, <1>7 DEF SwappedPages
<1>9. RoomInv'
  BY <1>1, <1>2, <1>7, <1>8, SlotTaken
<1> QED BY <1>5, <1>9

------------------------------------------------------------------------------
(* A read that has fetched a frame keeps what it fetched.                  *)
LEMMA GrabSteps ==
  ASSUME TypeInv, Next, NEW q \in Procs, grab'[q] # None
  PROVE  \/ grab[q] # None /\ grab'[q] = grab[q]
         \/ \E g \in Pages : ReadGrab(q, g) /\ \E o \in SwapSlots :
              /\ grab'[q].slot = o /\ grab'[q].rest = RestOf(swpFree[Active])
<1>1. ASSUME grab' = grab PROVE grab[q] # None /\ grab'[q] = grab[q]
  BY <1>1
<1>2. PICK p \in Procs : ProcStep(p)
  BY DEF Next
<1>3. ASSUME NEW g \in Pages, ReadGrab(p, g)
      PROVE  \/ grab[q] # None /\ grab'[q] = grab[q]
             \/ ReadGrab(q, g) /\ \E o \in SwapSlots :
                  /\ grab'[q].slot = o /\ grab'[q].rest = RestOf(swpFree[Active])
  <2>1. PICK vic \in Victims(p), o \in SwapSlots :
          grab' = [grab EXCEPT ![p] = [page |-> g, victim |-> vic, slot |-> o,
                                       rest |-> RestOf(swpFree[Active])]]
    BY <1>3 DEF ReadGrab
  <2>2. grab \in [Procs -> {None} \cup
                    [page : Pages, victim : Pages, slot : Nat, rest : Seq(Nat)]]
    BY DEF TypeInv, TypeOK
  <2>3. CASE q = p
    <3>1. grab'[q].slot = o /\ grab'[q].rest = RestOf(swpFree[Active])
      BY <2>1, <2>2, <2>3
    <3> QED BY <1>3, <2>3, <3>1
  <2>4. CASE q # p
    BY <2>1, <2>2, <2>4
  <2> QED BY <2>3, <2>4
<1>4. ASSUME ReadSwap(p) PROVE grab[q] # None /\ grab'[q] = grab[q]
  BY <1>4 DEF ReadSwap, TypeInv, TypeOK
<1>5. ASSUME NEW k \in 1 .. MaxAlloc, AllocStart(p, k) PROVE grab' = grab
  BY <1>5 DEF AllocStart
<1>6. AllocFree(p) \/ AllocEvict(p) \/ AllocFail(p) \/ AllocMap(p) => grab' = grab
  BY DEF AllocFree, AllocEvict, AllocFail, AllocMap
<1>7. ASSUME NEW g \in Pages, Read(p, g) \/ \E v \in Values : Write(p, g, v) \/ WriteFault(p, g, v)
      PROVE  grab' = grab
  BY <1>7 DEF Read, Write, WriteFault
<1> QED BY <1>1, <1>2, <1>3, <1>4, <1>5, <1>6, <1>7 DEF ProcStep

LEMMA NextRest == TypeInv /\ RestInv /\ [Next]_vars /\ [ListStays]_vars => RestInv'
<1> SUFFICES ASSUME TypeInv, RestInv, [Next]_vars, [ListStays]_vars PROVE RestInv'
  OBVIOUS
<1>1. CASE UNCHANGED vars
  BY <1>1 DEF RestInv, vars
<1>2. CASE Next /\ ListStays
  <2> SUFFICES ASSUME NEW q \in Procs, grab'[q] # None
               PROVE  grab'[q].rest = RestOf(swpFree'[Active])
    BY DEF RestInv
  <2>1. CASE grab[q] # None /\ grab'[q] = grab[q]
    BY <1>2, <2>1 DEF RestInv, ListStays
  <2>2. ASSUME NEW g \in Pages, ReadGrab(q, g), grab'[q].rest = RestOf(swpFree[Active])
        PROVE  grab'[q].rest = RestOf(swpFree'[Active])
    BY <2>2 DEF ReadGrab
  <2> QED BY <1>2, <2>1, <2>2, GrabSteps
<1> QED BY <1>1, <1>2

LEMMA NextHead ==
  EveryPageFits /\ TypeInv /\ RoomInv /\ HeadInv /\ [Next]_vars /\ [ListStays]_vars => HeadInv'
<1> SUFFICES ASSUME EveryPageFits, TypeInv, RoomInv, HeadInv, [Next]_vars, [ListStays]_vars
             PROVE  HeadInv'
  OBVIOUS
<1>1. CASE UNCHANGED vars
  BY <1>1 DEF HeadInv, vars
<1>2. CASE Next /\ ListStays
  <2> SUFFICES ASSUME NEW q \in Procs, grab'[q] # None
               PROVE  swpFree'[Active] # <<>> /\ grab'[q].slot = Head(swpFree'[Active])
    BY DEF HeadInv
  <2>1. CASE grab[q] # None /\ grab'[q] = grab[q]
    BY <1>2, <2>1 DEF HeadInv, ListStays
  <2>2. ASSUME NEW g \in Pages, ReadGrab(q, g), NEW o \in SwapSlots, grab'[q].slot = o
        PROVE  swpFree'[Active] # <<>> /\ grab'[q].slot = Head(swpFree'[Active])
    <3>1. ~pgd[q][g].present /\ swpFree' = swpFree
      BY <2>2 DEF ReadGrab
    <3>2. swpFree[Active] # <<>>
      BY <3>1, RoomForFault
    <3> QED BY <2>2, <3>1, <3>2 DEF SwapSlots
  <2> QED BY <1>2, <2>1, <2>2, GrabSteps
<1> QED BY <1>1, <1>2

(* A process in the middle of a fault does not allocate.                   *)
GrabIdle == \A p \in Procs : grab[p] # None => p \notin allocating

LEMMA NextIdle == TypeInv /\ GrabIdle /\ [Next]_vars => GrabIdle'
<1> SUFFICES ASSUME TypeInv, GrabIdle, [Next]_vars PROVE GrabIdle'
  OBVIOUS
<1>1. CASE Next
  <2>1. PICK p \in Procs : ProcStep(p)
    BY <1>1 DEF Next
  <2>2. ASSUME NEW k \in 1 .. MaxAlloc, AllocStart(p, k) PROVE GrabIdle'
    BY <2>2 DEF AllocStart, GrabIdle
  <2>3. CASE AllocFree(p) \/ AllocEvict(p) \/ AllocFail(p) \/ AllocMap(p)
    BY <2>3 DEF AllocFree, AllocEvict, AllocFail, AllocMap, Released, GrabIdle
  <2>4. ASSUME NEW g \in Pages, Read(p, g) \/ \E v \in Values : Write(p, g, v) \/ WriteFault(p, g, v)
        PROVE  GrabIdle'
    BY <2>4 DEF Read, Write, WriteFault, GrabIdle
  <2>5. ASSUME NEW g \in Pages, ReadGrab(p, g) PROVE GrabIdle'
    <3>1. p \notin allocating /\ allocating' = allocating /\ \A q \in Procs : q # p => grab'[q] = grab[q]
      BY <2>5 DEF ReadGrab, Touches, TypeInv, TypeOK
    <3> QED BY <3>1 DEF GrabIdle
  <2>6. CASE ReadSwap(p)
    <3>1. allocating' = allocating /\ \A q \in Procs : grab'[q] # None => grab'[q] = grab[q]
      BY <2>6 DEF ReadSwap, TypeInv, TypeOK
    <3> QED BY <3>1 DEF GrabIdle
  <2> QED BY <2>1, <2>2, <2>3, <2>4, <2>5, <2>6 DEF ProcStep
<1>2. CASE UNCHANGED vars
  BY <1>2 DEF vars, GrabIdle
<1> QED BY <1>1, <1>2

(* One process alone, whatever it does: in the middle of a fault it does   *)
(* nothing else.                                                           *)
THEOREM UndisturbedAlone ==
  ASSUME \A p, q \in Procs : p = q PROVE Spec => Undisturbed
<1>1. TypeInv /\ GrabIdle /\ [Next]_vars => [ListStays]_vars
  <2> SUFFICES ASSUME TypeInv, GrabIdle, Next, NEW q \in Procs, grab[q] # None, grab'[q] # None
               PROVE  swpFree'[Active] = swpFree[Active]
    BY DEF ListStays
  <2>1. PICK p \in Procs : ProcStep(p)
    BY DEF Next
  <2>2. p = q /\ p \notin allocating
    BY DEF GrabIdle
  <2>3. \A g \in Pages : ~Touches(p, g)
    BY <2>2 DEF Touches
  <2>4. ~ReadSwap(p)
    BY <2>2 DEF ReadSwap, TypeInv, TypeOK
  <2> QED BY <2>1, <2>2, <2>3, <2>4
          DEF ProcStep, AllocStart, AllocFree, AllocEvict, AllocFail, AllocMap,
              Read, ReadGrab, Write, WriteFault
<1>2. TypeInv /\ GrabIdle /\ [Next]_vars => (TypeInv /\ GrabIdle)'
  BY NextType, NextIdle
<1>3. Init => TypeInv /\ GrabIdle
  <2>1. Init => GrabIdle
    BY DEF Init, GrabIdle
  <2> QED BY <2>1, InitType
<1> QED BY <1>1, <1>2, <1>3, PTL DEF Spec, Undisturbed

------------------------------------------------------------------------------
LEMMA NextReplace ==
  ASSUME Workload \in {"online", "apart"}
  PROVE  TypeInv /\ FrameInv /\ RestInv /\ ReplaceInv /\ [Next]_vars => ReplaceInv'
<1> SUFFICES ASSUME TypeInv, FrameInv, RestInv, ReplaceInv, [Next]_vars PROVE ReplaceInv'
  OBVIOUS
<1>1. ASSUME UNCHANGED <<pgd, fifo, swpFree>> PROVE ReplaceInv'
  BY <1>1 DEF ReplaceInv, SwapHasRoom
<1>2. ASSUME swpFree' = [swpFree EXCEPT ![Active] = RestOf(@)]
      PROVE  SwapHasRoom' # {} => SwapHasRoom # {}
  BY <1>2 DEF SwapHasRoom, RestOf, TypeInv, TypeOK
<1>3. ASSUME NEW p \in Procs, ProcStep(p) PROVE ReplaceInv'
  <2>1. ASSUME NEW k \in 1 .. MaxAlloc, AllocStart(p, k) PROVE ReplaceInv'
    BY <1>1, <2>1 DEF AllocStart
  <2>2. CASE AllocFree(p)
    BY <1>1, <2>2 DEF AllocFree
  <2>3. CASE AllocEvict(p)
    BY <2>3, EvictReplace
  <2>4. CASE AllocFail(p)
    BY <2>4, FailReplace
  <2>5. CASE AllocMap(p)
    BY <2>5, MapReplace
  <2>6. ASSUME NEW g \in Pages, Read(p, g) PROVE ReplaceInv'
    BY <1>1, <2>6 DEF Read
  <2>7. ASSUME NEW g \in Pages, NEW v \in Values, Write(p, g, v) PROVE ReplaceInv'
    BY <1>1, <2>7 DEF Write
  <2>8. ASSUME NEW g \in Pages, ReadGrab(p, g) PROVE ReplaceInv'
    BY <1>1, <2>8 DEF ReadGrab
  <2>9. ASSUME NEW g \in Pages, NEW v \in Values, WriteFault(p, g, v) PROVE ReplaceInv'
    <3>1. Faulting(p, g, Head(fifo[p])) /\ Victims(p) = {Head(fifo[p])}
      BY <2>9, FaultHasVictim DEF WriteFault
    <3>2. PICK o \in SwapSlots : SwapIn(p, g, Head(fifo[p]), o)
      BY <2>9, <3>1 DEF WriteFault
    <3>3. SwapHasRoom' # {} => SwapHasRoom # {}
      BY <1>2, <2>9 DEF WriteFault
    <3> QED BY <3>1, <3>2, <3>3, FaultReplace
  <2>10. CASE ReadSwap(p)
    <3>1. grab[p] # None /\ Faulting(p, grab[p].page, grab[p].victim) /\ grab[p].page \in Pages
      BY <2>10 DEF ReadSwap, FrameInv, GrabInv, TypeInv, TypeOK
    <3>2. SwapIn(p, grab[p].page, grab[p].victim, grab[p].slot)
      BY <2>10 DEF ReadSwap
    <3>3. swpFree' = [swpFree EXCEPT ![Active] = RestOf(@)]
      BY <2>10, <3>1 DEF ReadSwap, RestInv
    <3> QED BY <1>2, <3>1, <3>2, <3>3, FaultReplace
  <2> QED BY <1>3, <2>1, <2>2, <2>3, <2>4, <2>5, <2>6, <2>7, <2>8, <2>9, <2>10 DEF ProcStep
<1>4. ASSUME UNCHANGED vars PROVE ReplaceInv'
  BY <1>1, <1>4 DEF vars
<1> QED BY <1>3, <1>4 DEF Next

(* While a swap device has room every online page can become a victim,     *)
(* also when programs fault, provided no two faults share a frame of swap. *)
(* It says nothing of full swap devices, where pages do escape.            *)
THEOREM AllReplaceableFaults ==
  ASSUME Workload \in {"online", "apart"} PROVE Spec /\ Undisturbed => []AllReplaceable
<1> DEFINE Inv == TypeInv /\ FrameInv /\ RestInv /\ ReplaceInv
<1>1. Inv /\ [Next]_vars /\ [ListStays]_vars => Inv'
  BY NextType, NextFrames, NextRest, NextReplace
<1>2. Init => Inv
  <2>1. Init => RestInv
    BY DEF Init, RestInv
  <2> QED BY <2>1, InitType, InitFrames, InitClean DEF CleanInv
<1>3. Inv => AllReplaceable
  BY DEF ReplaceInv, AllReplaceable, Replaceable, Online, OnT, Listed, Elems
<1> QED BY <1>1, <1>2, <1>3, PTL DEF Spec, Undisturbed

------------------------------------------------------------------------------
LEMMA NextSlots ==
  ASSUME Workload \in {"online", "apart"}, EveryPageFits
  PROVE  TypeInv /\ FrameInv /\ SwapInv /\ RoomInv /\ HeadInv /\ RestInv /\ [Next]_vars
           => SwapInv' /\ RoomInv'
<1> SUFFICES ASSUME TypeInv, FrameInv, SwapInv, RoomInv, HeadInv, RestInv, [Next]_vars
             PROVE  SwapInv' /\ RoomInv'
  OBVIOUS
<1>1. ASSUME UNCHANGED <<pgd, swpFree>> PROVE SwapInv' /\ RoomInv'
  BY <1>1 DEF SwapInv, RoomInv, SwappedPages
<1>2. ASSUME NEW p \in Procs, ProcStep(p) PROVE SwapInv' /\ RoomInv'
  <2>1. ASSUME NEW k \in 1 .. MaxAlloc, AllocStart(p, k) PROVE SwapInv' /\ RoomInv'
    BY <1>1, <2>1 DEF AllocStart
  <2>2. CASE AllocFree(p) \/ AllocFail(p)
    BY <1>1, <2>2 DEF AllocFree, AllocFail
  <2>3. CASE AllocEvict(p)
    <3> DEFINE g == Head(fifo[p])
    <3>1. PICK d \in Devices :
            /\ swpFree[d] # <<>> /\ swpFree' = [swpFree EXCEPT ![d] = Tail(@)]
            /\ g \in Pages /\ OnT(pgd, p, g) /\ pgd'[p][g] = SwappedTo(d, Head(swpFree[d]))
            /\ \A q \in Procs, h \in Pages : ~(q = p /\ h = g) => pgd'[q][h] = pgd[q][h]
      BY <2>3, EvictEffect
    <3>2. SwapInv'
      BY <3>1, TakeSlot
    <3>3. ~pgd[p][g].swapped /\ pgd'[p][g].swapped /\ pgd'[p][g].present
      BY <3>1 DEF OnT, SwappedTo
    <3>4. \A q \in Procs, h \in Pages :
            /\ pgd'[q][h].swapped <=> pgd[q][h].swapped \/ (q = p /\ h = g)
            /\ pgd'[q][h].swapped => pgd'[q][h].present
      BY <3>1, <3>3 DEF RoomInv
    <3>5. SwappedPages' = SwappedPages \cup {<<p, g>>} /\ <<p, g>> \notin SwappedPages
      BY <3>1, <3>3, <3>4 DEF SwappedPages
    <3>6. RoomInv'
      BY <3>1, <3>4, <3>5, SlotTaken
    <3> QED BY <3>2, <3>6
  <2>4. CASE AllocMap(p)
    <3>1. \A q \in Procs, h \in Pages :
            pgd'[q][h] = pgd[q][h] \/ (~pgd[q][h].present /\ ~pgd'[q][h].swapped)
      BY <2>4, MapEffect
    <3>2. swpFree' = swpFree
      BY <2>4 DEF AllocMap
    <3>3. SwapInv'
      BY <3>1, <3>2, KeepSlots
    <3>4. SwappedPages' = SwappedPages
      BY <3>1 DEF SwappedPages, RoomInv
    <3> QED BY <3>1, <3>2, <3>3, <3>4 DEF RoomInv
  <2>5. ASSUME NEW g \in Pages, Read(p, g) \/ ReadGrab(p, g) \/ \E v \in Values : Write(p, g, v)
        PROVE  SwapInv' /\ RoomInv'
    BY <1>1, <2>5 DEF Read, ReadGrab, Write
  <2>6. ASSUME NEW g \in Pages, NEW v \in Values, WriteFault(p, g, v) PROVE SwapInv' /\ RoomInv'
    <3>1. Faulting(p, g, Head(fifo[p])) /\ Victims(p) = {Head(fifo[p])}
      BY <2>6, FaultHasVictim DEF WriteFault
    <3>2. swpFree[Active] # <<>>
      BY <2>6, RoomForFault DEF WriteFault
    <3>3. SwapIn(p, g, Head(fifo[p]), Head(swpFree[Active]))
      BY <2>6, <3>1, <3>2 DEF WriteFault, SwapSlots
    <3>4. swpFree' = [swpFree EXCEPT ![Active] = Tail(@)]
      BY <2>6, <3>2 DEF WriteFault, RestOf
    <3> QED BY <3>1, <3>2, <3>3, <3>4, FaultSlot
  <2>7. CASE ReadSwap(p)
    <3>1. grab[p] # None /\ Faulting(p, grab[p].page, grab[p].victim) /\ grab[p].page \in Pages
      BY <2>7 DEF ReadSwap, FrameInv, GrabInv, TypeInv, TypeOK
    <3>2. swpFree[Active] # <<>> /\ grab[p].slot = Head(swpFree[Active])
          /\ grab[p].rest = Tail(swpFree[Active])
      BY <3>1 DEF HeadInv, RestInv, RestOf
    <3>3. SwapIn(p, grab[p].page, grab[p].victim, Head(swpFree[Active]))
      BY <2>7, <3>2 DEF ReadSwap
    <3>4. swpFree' = [swpFree EXCEPT ![Active] = Tail(@)]
      BY <2>7, <3>2 DEF ReadSwap
    <3> QED BY <3>1, <3>2, <3>3, <3>4, FaultSlot
  <2> QED BY <1>2, <2>1, <2>2, <2>3, <2>4, <2>5, <2>6, <2>7 DEF ProcStep
<1>3. ASSUME UNCHANGED vars PROVE SwapInv' /\ RoomInv'
  BY <1>1, <1>3 DEF vars
<1> QED BY <1>2, <1>3 DEF Next

LEMMA InitSlots == Init => RestInv /\ HeadInv /\ RoomInv
<1> SUFFICES ASSUME Init PROVE RestInv /\ HeadInv /\ RoomInv
  OBVIOUS
<1>1. RestInv /\ HeadInv
  BY DEF Init, RestInv, HeadInv
<1>2. SwappedPages = {}
  BY DEF Init, Absent, SwappedPages
<1>3. Len(swpFree[Active]) = SwapFrames[Active]
  <2>1. swpFree[Active] = Formatted(SwapFrames[Active])
    BY ActiveTypes DEF Init
  <2> QED BY <2>1, ActiveTypes, FormattedFacts
<1>4. RoomInv
  BY <1>2, <1>3, ActiveTypes, FS_EmptySet DEF RoomInv, Init, Absent
<1> QED BY <1>1, <1>4

(* A frame of swap holds one page of one process, or is free, also when    *)
(* programs fault: if the active device has a frame for every page of the  *)
(* programs, and no two faults share one.                                  *)
THEOREM SwapExclusiveFaults ==
  ASSUME Workload \in {"online", "apart"}, EveryPageFits PROVE Spec /\ Undisturbed => []SwapExclusive
<1> DEFINE Inv == TypeInv /\ FrameInv /\ SwapInv /\ RoomInv /\ HeadInv /\ RestInv
<1>1. Inv /\ [Next]_vars /\ [ListStays]_vars => Inv'
  BY NextType, NextFrames, NextRest, NextHead, NextSlots
<1>2. Init => Inv
  BY InitType, InitFrames, InitClean, InitSlots DEF CleanInv
<1>3. Inv => SwapExclusive
  BY SwapMeaning
<1> QED BY <1>1, <1>2, <1>3, PTL DEF Spec, Undisturbed
==============================================================================
