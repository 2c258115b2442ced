---------------------------- MODULE KillAll_proofs ----------------------------
(***************************************************************************)
(* Proofs about KillAll.tla.  Its steps are those of Os.tla, for which the *)
(* lemmas of Os_proofs and OsSlot_proofs hold as they are, and those of    *)
(* the call itself (KStepCases).                                           *)
(*                                                                         *)
(* What holds whoever interferes with the sweep: the types, and that a     *)
(* process is put back where its priority says (SweepRanked).  With one    *)
(* CPU the slot policy follows, call or no call.                           *)
(*                                                                         *)
(* What needs the sweep to be undisturbed (Alone): that no process is lost *)
(* or doubled by it (SweepInv).                                            *)
(***************************************************************************)
EXTENDS KillAll, OsSlot_proofs, SequenceTheorems

(* The locals of killall.                                                  *)
KillType ==
  /\ kill \in [prio : 0 .. MaxPrio + 1, at : {"enter", "loop", "store"},
               proc : Procs \cup {None}, tmp : Seq(Procs)]
  /\ crashed \in BOOLEAN

\* steps of the call between its first and its last
SweepStep(c) ==
  KillSkip(c) \/ KillFetch(c) \/ KillTake(c) \/ KillLeave(c) \/ KillStore(c)

LEMMA KStepCases ==
  ASSUME [KNext]_kvars
  PROVE  \/ [Next]_vars /\ UNCHANGED killVars
         \/ \E c \in Cpus : KillBegin(c) \/ SweepStep(c) \/ KillEnd(c)
BY DEF KNext, KTimer, KLoader, KCpu, KExit, KillStep, SweepStep, PlainStep, Next, kvars

(* A step of the sweep leaves everything but the lists, killall's locals   *)
(* and the set of freed processes alone.                                   *)
LEMMA SweepFrame ==
  ASSUME NEW c \in Cpus, SweepStep(c)
  PROVE  /\ pc[c] = "kill" /\ kill.prio <= MaxPrio
         /\ UNCHANGED <<slot, scan, clockVars, cpuVars, ldVars, insn>>
BY DEF SweepStep, KillSkip, KillFetch, KillTake, KillLeave, KillStore, Killing, Sweep, vars, schedVars

LEMMA SweptSeq ==
  ASSUME TypeInv, KillType
  PROVE  Swept \in Seq(Procs)
BY MlqAssumption DEF TypeInv, SchedType, KillType, Swept, Prios

LEMMA SweepTypes ==
  ASSUME TypeInv, KillType, NEW list \in Seq(Procs), Sweep(list)
  PROVE  SchedType'
<1>1. kill.prio < MaxPrio => kill.prio \in Prios
  BY MlqAssumption DEF KillType, Prios
<1> QED BY <1>1 DEF Sweep, TypeInv, SchedType

LEMMA OnType ==
  ASSUME KillType, kill.prio <= MaxPrio
  PROVE  On \in [prio : 0 .. MaxPrio + 1, at : {"enter", "loop", "store"},
                 proc : Procs \cup {None}, tmp : Seq(Procs)]
<1>1. kill.prio + 1 \in 0 .. MaxPrio + 1
  BY MlqAssumption DEF KillType
<1>2. On = [prio |-> kill.prio + 1, at |-> "enter", proc |-> None, tmp |-> <<>>]
  BY DEF On, NoKill
<1> QED BY <1>1, <1>2

LEMMA BeginTypes ==
  ASSUME TypeInv, KillType, NEW c \in Cpus, KillBegin(c)
  PROVE  TypeInv' /\ KillType'
<1>1. /\ SchedType /\ ClockType /\ CpuType /\ ProcType /\ LoaderType
      /\ UNCHANGED <<schedVars, clockVars, ldVars, killVars, freed, proc, remaining, loaded>>
  BY DEF TypeInv, KillBegin
<1>2. SchedType' /\ ClockType' /\ LoaderType' /\ KillType'
  BY <1>1, ClockTypes DEF schedVars, clockVars, ldVars, killVars, SchedType, LoaderType, KillType
<1>3. ProcType'
  BY <1>1, KillAllAssumption DEF KillBegin, Execute, ProcType
<1>4. Grant(c) \in Int
  BY <1>1, OsAssumption DEF Grant, CpuType
<1>5. CpuType'
  BY <1>1, <1>4 DEF KillBegin, Spend, Goto, CpuType, Labels
<1> QED BY <1>2, <1>3, <1>5 DEF TypeInv

LEMMA EndTypes ==
  ASSUME TypeInv, KillType, NEW c \in Cpus, KillEnd(c)
  PROVE  TypeInv' /\ KillType'
<1>1. /\ SchedType /\ ClockType /\ CpuType /\ ProcType /\ LoaderType
      /\ UNCHANGED <<schedVars, ldVars, insn, freed, crashed>>
      /\ UNCHANGED <<proc, timeLeft, useTime, remaining, loaded>>
  BY DEF TypeInv, KillEnd
<1>2. SchedType' /\ ProcType' /\ LoaderType'
  BY <1>1 DEF schedVars, ldVars, SchedType, ProcType, LoaderType
<1>3. ClockType'
  BY <1>1, ClockTypes DEF KillEnd
<1>4. CpuType'
  BY <1>1 DEF KillEnd, Goto, CpuType, Labels
<1>5. KillType'
  BY <1>1, MlqAssumption DEF KillEnd, KillType, NoKill
<1> QED BY <1>2, <1>3, <1>4, <1>5 DEF TypeInv

LEMMA SweepStepTypes ==
  ASSUME TypeInv, KillType, NEW c \in Cpus, SweepStep(c)
  PROVE  TypeInv' /\ KillType'
<1>1. /\ SchedType /\ ClockType /\ CpuType /\ ProcType /\ LoaderType /\ kill.prio <= MaxPrio
      /\ UNCHANGED <<slot, scan, clockVars, cpuVars, ldVars, insn>>
  BY SweepFrame DEF TypeInv
<1>2. ClockType' /\ CpuType' /\ LoaderType'
  BY <1>1, ClockTypes DEF clockVars, cpuVars, ldVars, CpuType, LoaderType
<1>3. Swept \in Seq(Procs)
  BY SweptSeq
<1>4. CASE KillSkip(c) \/ KillFetch(c) \/ KillLeave(c)
  <2>1. SchedType' /\ ProcType' /\ crashed' = crashed
    BY <1>1, <1>4 DEF KillSkip, KillFetch, KillLeave, vars, schedVars, SchedType, ProcType
  <2> SUFFICES KillType'
    BY <1>2, <2>1 DEF TypeInv
  <2>2. CASE KillSkip(c)
    BY <1>1, <2>1, <2>2, OnType DEF KillSkip, KillType
  <2>3. CASE KillFetch(c)
    <3>1. Head(Swept) \in Procs
      BY <1>3, <2>3 DEF KillFetch
    <3> QED BY <2>1, <2>3, <3>1 DEF KillFetch, KillType
  <2>4. CASE KillLeave(c)
    BY <2>1, <2>4 DEF KillLeave, KillType
  <2> QED BY <1>4, <2>2, <2>3, <2>4
<1>5. CASE KillTake(c)
  <2>1. PICK matches \in Matches(kill.proc) :
          /\ Sweep(IF Swept = <<>> THEN <<>> ELSE Dequeued(Swept))
          /\ kill' = [kill EXCEPT !.proc = None, !.tmp = Kept(matches)]
          /\ freed' = IF matches THEN freed \cup {kill.proc} ELSE freed
          /\ crashed' = (Swept = <<>> \/ (matches /\ kill.proc \in freed))
    BY <1>5 DEF KillTake
  <2>2. kill.proc \in Procs /\ kill.tmp \in Seq(Procs)
    BY <1>5 DEF KillTake, KillType
  <2>3. SchedType'
    <3>1. (IF Swept = <<>> THEN <<>> ELSE Dequeued(Swept)) \in Seq(Procs)
      BY <1>3, DequeuedSeq
    <3> QED BY <2>1, <3>1, SweepTypes
  <2>4. ProcType'
    BY <1>1, <2>1, <2>2 DEF ProcType
  <2>5. Kept(matches) \in Seq(Procs)
    BY <2>2, EnqueueSeq DEF Kept
  <2>6. KillType'
    BY <2>1, <2>5 DEF KillType
  <2> QED BY <1>2, <2>3, <2>4, <2>6 DEF TypeInv
<1>6. CASE KillStore(c)
  <2>1. SchedType'
    BY <1>6, SweepTypes DEF KillStore, KillType
  <2>2. ProcType'
    BY <1>1, <1>6 DEF KillStore, ProcType
  <2>3. KillType'
    BY <1>1, <1>6, OnType DEF KillStore, KillType
  <2> QED BY <1>2, <2>1, <2>2, <2>3 DEF TypeInv
<1> QED BY <1>4, <1>5, <1>6 DEF SweepStep

LEMMA InitKill == KInit => TypeInv /\ KillType
<1>1. 0 \in 0 .. MaxPrio + 1 /\ <<>> \in Seq(Procs)
  BY MlqAssumption
<1> SUFFICES ASSUME KInit PROVE TypeInv /\ KillType
  OBVIOUS
<1>2. kill = NoKill /\ crashed = FALSE /\ TypeInv
  BY InitType DEF KInit
<1>3. crashed \in BOOLEAN
  BY <1>2, Zenon
<1> QED BY <1>1, <1>2, <1>3 DEF KillType, NoKill

LEMMA NextKillType == TypeInv /\ KillType /\ [KNext]_kvars => TypeInv' /\ KillType'
<1> SUFFICES ASSUME TypeInv, KillType, [KNext]_kvars PROVE TypeInv' /\ KillType'
  OBVIOUS
<1>1. CASE [Next]_vars /\ UNCHANGED killVars
  BY <1>1, NextType DEF killVars, KillType
<1> QED BY <1>1, KStepCases, BeginTypes, SweepStepTypes, EndTypes

(* Type correctness of the scheduler with killall in it, whatever other    *)
(* CPUs and the loader do to the lists during the call.                    *)
THEOREM KillTypeCorrect == KSpec => [](TypeOK /\ KillType)
<1>1. TypeInv => TypeOK
  BY DEF TypeInv, TypeOK, SchedType, ClockType, CpuType, ProcType, LoaderType
<1> QED
  BY <1>1, InitKill, NextKillType, PTL DEF KSpec

------------------------------------------------------------------------------
(* Whatever is in a ready queue, or on its way through killall's local     *)
(* queue, has the priority of that queue.                                  *)
SweepRanked ==
  /\ Ranked
  /\ kill.prio < MaxPrio =>
       /\ kill.proc # None => Prio[kill.proc] = kill.prio
       /\ \A i \in DOMAIN kill.tmp : Prio[kill.tmp[i]] = kill.prio

LEMMA SweptRanked ==
  ASSUME TypeInv, KillType, Ranked, kill.prio < MaxPrio, NEW list \in Seq(Procs), Sweep(list),
         \A i \in DOMAIN list : Prio[list[i]] = kill.prio
  PROVE  Ranked'
<1>1. kill.prio \in Prios /\ queue \in [Prios -> Seq(Procs)]
  BY MlqAssumption DEF KillType, TypeInv, SchedType, Prios
<1>2. queue'[kill.prio] = list /\ \A r \in Prios : r # kill.prio => queue'[r] = queue[r]
  BY <1>1 DEF Sweep
<1> SUFFICES ASSUME NEW r \in Prios, NEW i \in DOMAIN queue'[r] PROVE Prio[queue'[r][i]] = r
  BY DEF Ranked
<1>3. CASE r = kill.prio
  BY <1>2, <1>3
<1>4. CASE r # kill.prio
  BY <1>2, <1>4 DEF Ranked
<1> QED BY <1>3, <1>4

\* the local queue after a process has been kept or not
LEMMA KeptRanked ==
  ASSUME NEW p \in Procs, NEW l \in Seq(Procs), NEW k, Prio[p] = k,
         \A i \in DOMAIN l : Prio[l[i]] = k
  PROVE  \A i \in DOMAIN Enqueue(l, p) : Prio[Enqueue(l, p)[i]] = k
BY DEF Enqueue

LEMMA SweepStepRanked ==
  ASSUME TypeInv, KillType, SweepRanked, NEW c \in Cpus, SweepStep(c)
  PROVE  SweepRanked'
<1>1. Swept \in Seq(Procs) /\ kill.prio <= MaxPrio
  BY SweptSeq, SweepFrame
<1>2. kill.prio < MaxPrio => \A i \in DOMAIN Swept : Prio[Swept[i]] = kill.prio
  BY MlqAssumption DEF SweepRanked, Ranked, Swept, KillType, Prios
<1>3. CASE KillSkip(c)
  BY <1>3 DEF KillSkip, On, NoKill, SweepRanked, Ranked, vars, schedVars
<1>4. CASE KillLeave(c)
  <2>1. kill'.prio = kill.prio /\ kill'.proc = kill.proc /\ kill'.tmp = kill.tmp /\ queue' = queue
    BY <1>4 DEF KillLeave, vars, schedVars, KillType
  <2> QED BY <2>1 DEF SweepRanked, Ranked
<1>5. CASE KillFetch(c)
  <2>1. /\ kill'.prio = kill.prio /\ kill'.proc = Head(Swept) /\ kill'.tmp = kill.tmp /\ queue' = queue
        /\ Swept # <<>>
    BY <1>5 DEF KillFetch, vars, schedVars, KillType
  <2>2. Head(Swept) = Swept[1] /\ 1 \in DOMAIN Swept
    BY <1>1, <2>1
  <2> QED BY <1>2, <2>1, <2>2 DEF SweepRanked, Ranked
<1>6. CASE KillTake(c)
  <2> DEFINE list == IF Swept = <<>> THEN <<>> ELSE Dequeued(Swept)
  <2>1. /\ kill'.prio = kill.prio /\ kill'.proc = None /\ kill.proc \in Procs
        /\ kill'.tmp = kill.tmp \/ kill'.tmp = Enqueue(kill.tmp, kill.proc)
        /\ kill.tmp \in Seq(Procs) /\ Sweep(list)
    BY <1>6 DEF KillTake, Kept, KillType
  <2>2. list \in Seq(Procs)
    BY <1>1, DequeuedSeq
  <2>3. CASE kill.prio < MaxPrio
    <3>1. \A i \in DOMAIN list : Prio[list[i]] = kill.prio
      BY <1>1, <1>2, <2>3 DEF Dequeued
    <3>2. Ranked'
      <4> HIDE DEF list
      <4> QED BY <2>1, <2>2, <2>3, <3>1, SweptRanked DEF SweepRanked
    <3>3. \A i \in DOMAIN kill'.tmp : Prio[kill'.tmp[i]] = kill.prio
      <4>1. /\ Prio[kill.proc] = kill.prio /\ kill.tmp \in Seq(Procs)
            /\ \A i \in DOMAIN kill.tmp : Prio[kill.tmp[i]] = kill.prio
        BY <2>1, <2>3 DEF SweepRanked, None, Procs
      <4>2. \A i \in DOMAIN Enqueue(kill.tmp, kill.proc) :
              Prio[Enqueue(kill.tmp, kill.proc)[i]] = kill.prio
        BY <2>1, <4>1, KeptRanked
      <4> QED BY <2>1, <4>1, <4>2
    <3> QED BY <2>1, <3>2, <3>3 DEF SweepRanked
  <2>4. CASE ~(kill.prio < MaxPrio)
    BY <2>1, <2>4 DEF Sweep, SweepRanked, Ranked
  <2> QED BY <2>3, <2>4
<1>7. CASE KillStore(c)
  <2>1. kill.tmp \in Seq(Procs) /\ Sweep(kill.tmp) /\ kill'.tmp = <<>> /\ kill'.proc = None
    BY <1>7 DEF KillStore, KillType, On, NoKill
  <2>2. Ranked'
    <3>1. CASE kill.prio < MaxPrio
      BY <2>1, <3>1, SweptRanked DEF SweepRanked
    <3>2. CASE ~(kill.prio < MaxPrio)
      BY <2>1, <3>2 DEF Sweep, SweepRanked, Ranked
    <3> QED BY <3>1, <3>2
  <2> QED BY <2>1, <2>2 DEF SweepRanked
<1> QED BY <1>3, <1>4, <1>5, <1>6, <1>7 DEF SweepStep

LEMMA InitSweepRanked == KInit => SweepRanked
BY InitRanked DEF KInit, SweepRanked, NoKill

LEMMA NextSweepRanked ==
  TypeInv /\ KillType /\ SweepRanked /\ [KNext]_kvars => SweepRanked'
<1> SUFFICES ASSUME TypeInv, KillType, SweepRanked, [KNext]_kvars PROVE SweepRanked'
  OBVIOUS
<1>1. CASE [Next]_vars /\ UNCHANGED killVars
  BY <1>1, NextRanked DEF killVars, SweepRanked
<1>2. ASSUME NEW c \in Cpus, KillBegin(c) PROVE SweepRanked'
  BY <1>2 DEF KillBegin, schedVars, killVars, SweepRanked, Ranked
<1>3. ASSUME NEW c \in Cpus, KillEnd(c) PROVE SweepRanked'
  BY <1>3 DEF KillEnd, schedVars, NoKill, SweepRanked, Ranked
<1> QED BY <1>1, <1>2, <1>3, KStepCases, SweepStepRanked

------------------------------------------------------------------------------
(* The slot policy with killall in it, for one CPU: the call is one turn   *)
(* of the killer's slice, and no search is under way while it lasts.       *)
LEMMA InitKillSlots == KInit => SlotInv /\ LockInv /\ ScanInv /\ PassedInv
BY InitSlots, InitPassed, StartScan DEF KInit, Init, SchedInit, LockInv

LEMMA BeginSlots ==
  ASSUME OneCpu, TypeInv, SlotInv, NEW c \in Cpus, KillBegin(c)
  PROVE  SlotInv'
<1>1. AtRun(c) /\ Spend(c) /\ UNCHANGED <<slot, proc>> /\ Goto(c, "kill")
  BY DEF KillBegin, Calls, schedVars
<1>2. Budget(c)'
  BY <1>1, RunSlots
<1> QED BY <1>1, <1>2 DEF SlotInv, SlotBounds, OneCpu

LEMMA EndSlots ==
  ASSUME OneCpu, TypeInv, SlotInv, NEW c \in Cpus, KillEnd(c)
  PROVE  SlotInv'
<1>1. /\ pc[c] = "kill" /\ pc'[c] = "top"
      /\ UNCHANGED <<slot, proc, timeLeft, useTime, remaining, loaded>>
  BY DEF KillEnd, Goto, schedVars, TypeInv, CpuType
<1>2. Budget(c)'
  BY <1>1 DEF SlotInv, Budget, SlotOf
<1> QED BY <1>1, <1>2 DEF SlotInv, SlotBounds, OneCpu

LEMMA NextKillSlots ==
  OneCpu /\ TypeInv /\ SweepRanked /\ SlotInv /\ [KNext]_kvars => SlotInv'
<1> SUFFICES ASSUME OneCpu, TypeInv, SweepRanked, SlotInv, [KNext]_kvars PROVE SlotInv'
  OBVIOUS
<1>1. CASE [Next]_vars /\ UNCHANGED killVars
  BY <1>1, NextSlots DEF SweepRanked
<1>2. ASSUME NEW c \in Cpus, SweepStep(c) PROVE SlotInv'
  BY <1>2, SweepFrame DEF cpuVars, SlotInv, SlotBounds, Budget, SlotOf
<1> QED BY <1>1, <1>2, KStepCases, BeginSlots, EndSlots

\* whatever a step of the call changes, no search is disturbed by it
LEMMA NextKillScan ==
  OneCpu /\ TypeInv /\ LockInv /\ ScanInv /\ PassedInv /\ [KNext]_kvars
    => LockInv' /\ ScanInv' /\ PassedInv'
<1> SUFFICES ASSUME OneCpu, TypeInv, LockInv, ScanInv, PassedInv, [KNext]_kvars
             PROVE  LockInv' /\ ScanInv' /\ PassedInv'
  OBVIOUS
<1>1. CASE [Next]_vars /\ UNCHANGED killVars
  BY <1>1, NextScan, NextPassed
<1>2. ASSUME NEW c \in Cpus, KillBegin(c) \/ SweepStep(c) \/ KillEnd(c)
      PROVE  LockInv' /\ ScanInv' /\ PassedInv'
  <2>1. pc[c] # "locked" /\ pc'[c] # "locked" /\ scan' = scan
    BY <1>2, SweepFrame
       DEF KillBegin, Calls, AtRun, AtTop, KillEnd, Goto, schedVars, cpuVars, TypeInv, CpuType
  <2>2. scan' = ScanStart /\ \A d \in Cpus : pc'[d] # "locked"
    BY <2>1 DEF OneCpu, LockInv
  <2> QED BY <2>2, MlqAssumption DEF LockInv, ScanInv, PassedInv, ScanStart, Prios
<1> QED BY <1>1, <1>2, KStepCases

LEMMA OneCpuKept == OneCpu /\ [KNext]_kvars => OneCpu'
BY DEF OneCpu

(* With one CPU, and killall called at any point of any process and for    *)
(* any name: a priority is never charged for more turns than it had, nor   *)
(* refilled above its share.                                               *)
THEOREM SlotBoundsKill == OneCpu /\ KSpec => []SlotBounds
<1>1. SlotInv => SlotBounds
  BY DEF SlotInv
<1> QED
  BY <1>1, InitKill, NextKillType, InitSweepRanked, NextSweepRanked, InitKillSlots, NextKillSlots,
     OneCpuKept, PTL DEF KSpec

(* ... the time slice granted at dispatch stays within the slots that the  *)
(* priority has left.                                                      *)
THEOREM WithinBudgetKill == OneCpu /\ KSpec => []WithinBudget
<1>1. SlotInv => WithinBudget
  BY DEF SlotInv, Budget, WithinBudget
<1> QED
  BY <1>1, InitKill, NextKillType, InitSweepRanked, NextSweepRanked, InitKillSlots, NextKillSlots,
     OneCpuKept, PTL DEF KSpec

(* ... a process runs for one time slice at most between two dispatches.   *)
THEOREM WithinSliceKill == OneCpu /\ KSpec => []WithinSlice
<1>1. SlotInv => WithinSlice
  BY DEF SlotInv, Budget, WithinSlice
<1> QED
  BY <1>1, InitKill, NextKillType, InitSweepRanked, NextSweepRanked, InitKillSlots, NextKillSlots,
     OneCpuKept, PTL DEF KSpec

(* ... a dispatched process comes from the highest priority that has a     *)
(* ready process and turns left, also right after killall has put the      *)
(* survivors back.                                                         *)
THEOREM HighestFirstKill == OneCpu /\ KSpec => HighestFirst
<1>1. TypeInv /\ SweepRanked /\ PassedInv /\ [KNext]_kvars =>
        [\A c \in Cpus : pc'[c] = "got" /\ pc[c] # "got" /\ proc'[c] # None =>
           \A q \in Prios : q < Prio[proc'[c]] => queue[q] = <<>> \/ slot[q] <= 0]_vars
  <2> SUFFICES ASSUME TypeInv, SweepRanked, PassedInv, [KNext]_kvars,
                      NEW c \in Cpus, pc'[c] = "got", pc[c] # "got", proc'[c] # None
               PROVE  \A q \in Prios : q < Prio[proc'[c]] => queue[q] = <<>> \/ slot[q] <= 0
    OBVIOUS
  <2>1. ASSUME NEW d \in Cpus, KillBegin(d) \/ SweepStep(d) \/ KillEnd(d) PROVE FALSE
    BY <2>1, SweepFrame DEF KillBegin, KillEnd, Goto, cpuVars, TypeInv, CpuType
  <2> QED BY <2>1, KStepCases, HighestStep DEF SweepRanked
<1> QED
  BY <1>1, InitKill, NextKillType, InitSweepRanked, NextSweepRanked, InitKillSlots, NextKillScan,
     OneCpuKept, PTL DEF KSpec, HighestFirst

(* ... slots are refilled only when every priority with a ready process    *)
(* has used its own up: what killall removes or puts back refills none.    *)
THEOREM FairRefillKill == OneCpu /\ KSpec => FairRefill
<1>1. OneCpu /\ TypeInv /\ SlotInv /\ PassedInv /\ [KNext]_kvars =>
        [\A q \in Prios : slot'[q] > slot[q] =>
           \A r \in Prios : queue[r] = <<>> \/ slot[r] <= 0]_vars
  <2> SUFFICES ASSUME OneCpu, TypeInv, SlotInv, PassedInv, [KNext]_kvars,
                      NEW q \in Prios, slot'[q] > slot[q]
               PROVE  \A r \in Prios : queue[r] = <<>> \/ slot[r] <= 0
    OBVIOUS
  <2>1. ASSUME NEW d \in Cpus, KillBegin(d) \/ SweepStep(d) \/ KillEnd(d) PROVE FALSE
    <3>1. slot' = slot
      BY <2>1, SweepFrame DEF KillBegin, KillEnd, schedVars
    <3> QED BY <3>1 DEF TypeInv, SchedType
  <2> QED BY <2>1, KStepCases, RefillStep
<1> QED
  BY <1>1, InitKill, NextKillType, InitSweepRanked, NextSweepRanked, InitKillSlots, NextKillSlots,
     NextKillScan, OneCpuKept, PTL DEF KSpec, FairRefill

------------------------------------------------------------------------------
(* An undisturbed sweep: while a CPU is in killall no other CPU works, the *)
(* loader has nothing to load in this slot, and no CPU holds a process     *)
(* whose name matches.                                                     *)
Hit(p) == Loaded(Name[p]) = Target

Alone ==
  \A c \in Cpus : pc[c] = "kill" =>
    /\ \A d \in Cpus : d # c => ~Clock!Working(d)
    /\ ldpc # "add"
    /\ AtLoad => loading > NumProcs \/ time < StartTime[loading]
    /\ \A d \in Cpus : proc[d] # None => ~Hit(proc[d])

(* Where the sweep is: the head of the list is still there when it is      *)
(* taken, and nothing has come in when the local queue is stored.          *)
Sweeping ==
  /\ (\A c \in Cpus : pc[c] # "kill") => kill = NoKill
  /\ kill.at = "enter" => kill.proc = None /\ kill.tmp = <<>>
  /\ kill.at = "store" => kill.proc = None /\ Swept = <<>>
  /\ kill.proc # None => Swept # <<>> /\ kill.proc = Head(Swept)

\* in the local queue, on the way back to a ready queue
Held(p) == kill.prio < MaxPrio /\ \E i \in DOMAIN kill.tmp : kill.tmp[i] = p

(* A process in the local queue is nowhere else, and does not match.       *)
HeldInv ==
  kill.prio < MaxPrio =>
    /\ \A i, j \in DOMAIN kill.tmp :
         Prio[kill.tmp[i]] = kill.prio /\ (kill.tmp[i] = kill.tmp[j] => i = j)
    /\ \A p \in Procs : Held(p) =>
         /\ ~Hit(p) /\ p \notin freed /\ p < loading
         /\ ~Queued(p) /\ \A d \in Cpus : ~Owns(d, p)

(* The queues behind the sweep hold nothing that matches.                  *)
SweptClean ==
  \A q \in Prios : q < kill.prio => \A i \in DOMAIN queue[q] : ~Hit(queue[q][i])

(* What is in running_list has been loaded, or is just being.              *)
ListedFirst ==
  /\ \A i \in DOMAIN runningList :
       runningList[i] < loading \/ (runningList[i] = loading /\ ldpc = "add")
  /\ \A i \in DOMAIN kill.tmp : kill.tmp[i] < loading

SweepInv == PlaceInv /\ Busy /\ Sweeping /\ HeldInv /\ SweptClean /\ ListedFirst

(* During an undisturbed sweep nobody else moves, but for the loader that  *)
(* waits for the next slot or leaves.                                      *)
LEMMA AloneStep ==
  ASSUME TypeInv, Busy, Alone, [KNext]_kvars, NEW c \in Cpus, pc[c] = "kill"
  PROVE  \/ UNCHANGED kvars
         \/ (LoaderWait \/ LoaderDone) /\ UNCHANGED killVars
         \/ SweepStep(c) \/ KillEnd(c)
<1>1. /\ Clock!Working(c) /\ ldpc # "add"
      /\ AtLoad => loading > NumProcs \/ time < StartTime[loading]
      /\ \A d \in Cpus : d # c => ~Clock!Working(d) /\ pc[d] \in {"top", "stopped"}
  BY DEF Busy, Alone
<1>2. ~TimerTick
  BY <1>1 DEF TimerTick, Clock!Tick
<1>3. ~LoaderEnlist /\ ~LoaderAdd
  <2>1. /\ NumProcs \in Nat /\ loading \in Nat /\ time \in Nat
        /\ loading <= NumProcs => StartTime[loading] \in Nat
    BY MlqAssumption, OsAssumption DEF TypeInv, ClockType, LoaderType, Procs
  <2> QED BY <1>1, <2>1 DEF LoaderEnlist, LoaderAdd
<1>4. ASSUME NEW d \in Cpus PROVE ~CpuStep(d) /\ ~KillBegin(d)
  <2>1. ~AtTop(d) /\ pc[d] \in {"top", "stopped", "kill"}
    BY <1>1 DEF AtTop
  <2> QED BY <2>1 DEF CpuStep, FinishLoad, FinishStore, PutRunning, PutReady, PutLoad, PutStore,
          ScanTake, ScanPass, ScanNone, Scanning, GetSlot, Idle, Run, KillBegin, Calls, AtRun
<1>5. ASSUME NEW d \in Cpus, SweepStep(d) \/ KillEnd(d) PROVE d = c
  <2>1. pc[d] = "kill"
    BY <1>5, SweepFrame DEF KillEnd
  <2> QED BY <1>1, <2>1
<1>6. CASE [Next]_vars /\ UNCHANGED killVars
  <2>1. CASE UNCHANGED vars
    BY <1>6, <2>1 DEF kvars
  <2>2. CASE LoaderStep
    BY <1>3, <1>6, <2>2 DEF LoaderStep
  <2> QED BY <1>2, <1>4, <1>6, <2>1, <2>2 DEF Next, Exit
<1> QED BY <1>4, <1>5, <1>6, KStepCases

\* and when nobody is in killall only its first step is not one of Os.tla
LEMMA NoKillStep ==
  ASSUME Sweeping, [KNext]_kvars, \A c \in Cpus : pc[c] # "kill"
  PROVE  /\ kill = NoKill /\ UNCHANGED killVars
         /\ [Next]_vars \/ \E c \in Cpus : KillBegin(c)
BY KStepCases, SweepFrame DEF Sweeping, KillBegin, KillEnd

\* what enqueue leaves is what was there, and p
LEMMA EnqueueElements ==
  ASSUME NEW q \in Seq(Procs), NEW p \in Procs, NEW i \in DOMAIN Enqueue(q, p)
  PROVE  Enqueue(q, p)[i] = p \/ \E j \in DOMAIN q : Enqueue(q, p)[i] = q[j]
BY DEF Enqueue

(* The running list is fed with loaded processes.                          *)
LEMMA NextListed ==
  ASSUME TypeInv, KillType, PlaceInv, ListedFirst, [Next]_vars, UNCHANGED killVars
  PROVE  ListedFirst'
<1>0. /\ runningList \in Seq(Procs) /\ kill.tmp \in Seq(Procs) /\ kill' = kill
      /\ loading \in Nat
  BY DEF TypeInv, SchedType, LoaderType, KillType, killVars
<1>1. ASSUME runningList' = runningList, loading' = loading, ldpc' = ldpc \/ ldpc # "add"
      PROVE  ListedFirst'
  BY <1>0, <1>1 DEF ListedFirst
<1>2. CASE TimerTick \/ LoaderWait \/ LoaderDone \/ UNCHANGED vars
  BY <1>1, <1>2 DEF TimerTick, LoaderWait, LoaderDone, AtLoad, vars, schedVars, ldVars
<1>3. CASE LoaderEnlist
  <2>1. /\ loading \in Procs /\ runningList' = Enqueue(runningList, loading)
        /\ loading' = loading /\ ldpc' = "add" /\ ldpc # "add"
    BY <1>3, MlqAssumption DEF LoaderEnlist, AtLoad, EnlistRunning, TypeInv, LoaderType, Procs
  <2> QED BY <1>0, <2>1, EnqueueElements DEF ListedFirst
<1>4. CASE LoaderAdd
  <2>1. runningList' = runningList /\ loading' = loading + 1
    BY <1>4 DEF LoaderAdd, EnqueueReady
  <2>2. \A p \in Procs : p < loading \/ p = loading => p < loading'
    BY <1>0, <2>1 DEF Procs
  <2> QED BY <1>0, <2>1, <2>2 DEF ListedFirst
<1>5. ASSUME NEW c \in Cpus, CpuStep(c) PROVE ListedFirst'
  <2>1. CASE PutRunning(c)
    <3>1. /\ proc[c] \in Procs /\ runningList' = Enqueue(runningList, proc[c])
          /\ loading' = loading /\ ldpc' = ldpc
      BY <2>1 DEF PutRunning, EnlistRunning, ldVars, TypeInv, CpuType
    <3>2. proc[c] < loading
      BY <2>1, <3>1 DEF PutRunning, AtTop, Owns, PlaceInv, LoadedFirst
    <3> QED BY <1>0, <3>1, <3>2, EnqueueElements DEF ListedFirst
  <2>2. CASE ~PutRunning(c)
    BY <1>1, <1>5, <2>2 DEF CpuStep, FinishLoad, FinishStore, PutReady, PutLoad, PutStore,
       ScanTake, ScanPass, ScanNone, GetSlot, Idle, Run, EnqueueReady, StoreSlot, Take,
       PassSpent, PassEmpty, MoveOn, GiveUp, schedVars, ldVars
  <2> QED BY <2>1, <2>2
<1> QED BY <1>2, <1>3, <1>4, <1>5 DEF Next, Exit, LoaderStep

\* what a step takes from the list, and where it goes
LEMMA TakeFacts ==
  ASSUME TypeInv, KillType, Sweeping, NEW c \in Cpus, KillTake(c)
  PROVE  /\ kill.proc \in Procs /\ Swept \in Seq(Procs) /\ Swept # <<>> /\ kill.proc = Head(Swept)
         /\ Sweep(Dequeued(Swept))
         /\ kill'.prio = kill.prio /\ kill'.at = "loop" /\ kill'.proc = None
         /\ \/ /\ kill'.tmp = kill.tmp /\ freed' = freed \cup {kill.proc}
               /\ kill.proc \notin freed => Hit(kill.proc)
            \/ /\ kill'.tmp = Enqueue(kill.tmp, kill.proc) /\ freed' = freed
               /\ kill.proc \notin freed => ~Hit(kill.proc)
<1>1. kill.proc # None /\ kill.proc \in Procs
  BY DEF KillTake, KillType
<1>2. Swept \in Seq(Procs) /\ Swept # <<>> /\ kill.proc = Head(Swept) /\ kill.at = "loop"
  BY <1>1, SweptSeq DEF Sweeping, KillType
<1>3. PICK matches \in Matches(kill.proc) :
        /\ Sweep(IF Swept = <<>> THEN <<>> ELSE Dequeued(Swept))
        /\ kill' = [kill EXCEPT !.proc = None, !.tmp = Kept(matches)]
        /\ freed' = IF matches THEN freed \cup {kill.proc} ELSE freed
  BY DEF KillTake
<1>4. kill'.prio = kill.prio /\ kill'.at = kill.at /\ kill'.proc = None /\ kill'.tmp = Kept(matches)
  BY <1>3 DEF KillType
<1>5. kill.proc \notin freed => (matches <=> Hit(kill.proc))
  BY <1>3, Zenon DEF Matches, Hit
<1>6. CASE matches
  BY <1>1, <1>2, <1>3, <1>4, <1>5, <1>6 DEF Kept
<1>7. CASE ~matches
  BY <1>1, <1>2, <1>3, <1>4, <1>5, <1>7 DEF Kept
<1> QED BY <1>6, <1>7

LEMMA SweepFacts ==
  ASSUME TypeInv, KillType, NEW list \in Seq(Procs), Sweep(list)
  PROVE  /\ kill.prio < MaxPrio =>
              /\ kill.prio \in Prios /\ Swept = queue[kill.prio] /\ runningList' = runningList
              /\ queue' = [queue EXCEPT ![kill.prio] = list]
              /\ queue'[kill.prio] = list
              /\ \A q \in Prios : q # kill.prio => queue'[q] = queue[q]
         /\ ~(kill.prio < MaxPrio) =>
              Swept = runningList /\ queue' = queue /\ runningList' = list
<1>1. kill.prio < MaxPrio => kill.prio \in Prios
  BY MlqAssumption DEF KillType, Prios
<1> QED BY <1>1 DEF Sweep, Swept, TypeInv, SchedType

(* A process taken from a ready queue is nowhere else, be it freed or kept *)
(* (first what a step from a ready queue does, then one from running_list).*)
LEMMA TakeReady ==
  ASSUME TypeInv, KillType, SweepInv, NEW c \in Cpus, KillTake(c), kill.prio < MaxPrio
  PROVE  /\ PlaceInv' /\ HeldInv'
         /\ kill.proc \notin freed /\ kill.proc < loading /\ Queued(kill.proc)
         /\ kill.proc \in Procs /\ ~Held(kill.proc)
         /\ \A r \in Procs : Queued(r) => Queued(r)' \/ r = kill.proc
<1> USE DEF SweepInv
<1>0. PICK p \in Procs : p = kill.proc
  BY TakeFacts
<1>9. PICK l \in Prios : l = kill.prio
  BY MlqAssumption DEF KillType, Prios
<1>1. /\ queue[l] # <<>> /\ p = Head(queue[l])
      /\ queue' = [queue EXCEPT ![l] = Dequeued(@)]
      /\ kill'.prio = l /\ loading' = loading /\ proc' = proc /\ pc' = pc
      /\ \/ kill'.tmp = kill.tmp /\ freed' = freed \cup {p} /\ (p \notin freed => Hit(p))
         \/ kill'.tmp = Enqueue(kill.tmp, p) /\ freed' = freed /\ (p \notin freed => ~Hit(p))
  <2>1. Dequeued(Swept) \in Seq(Procs)
    BY TakeFacts, DequeuedSeq
  <2> QED BY <1>0, <1>9, <2>1, TakeFacts, SweepFacts DEF KillTake, cpuVars, ldVars, TypeInv, SchedType
<1>2. /\ Queued(p) /\ ~Queued(p)' /\ QueueOK' /\ \A r \in Procs : Queued(r)' => Queued(r)
  <2>1. QueueOK
    BY DEF PlaceInv, Exclusive, QueueOK
  <2> QED BY <1>1, <2>1, QueueTake
<1>3. \A r \in Procs : Queued(r) => Queued(r)' \/ r = p
  BY <1>1, QueueTakeKeeps
<1>4. p \notin freed /\ p < loading /\ ~Held(p) /\ Prio[p] = l /\ \A d \in Cpus : ~Owns(d, p)
  <2>1. p \notin freed /\ p < loading /\ ~Held(p) /\ \A d \in Cpus : ~Owns(d, p)
    BY <1>2, <1>9 DEF PlaceInv, Exclusive, HeldInv
  <2>3. queue[l] \in Seq(Procs) /\ 1 \in DOMAIN queue[l] /\ Head(queue[l]) = queue[l][1]
    BY <1>1 DEF TypeInv, SchedType
  <2>4. Prio[p] = l
    BY <1>1, <2>3 DEF PlaceInv, Exclusive
  <2> QED BY <2>1, <2>4
<1>5. \A d \in Cpus : \A r \in Procs : Owns(d, r)' <=> Owns(d, r)
  BY <1>1 DEF Owns
<1>6. PlaceInv'
  <2>1. \A r \in Procs : Queued(r)' => Queued(r) /\ r # p
    BY <1>2
  <2>2. \A d \in Cpus : \A r \in Procs : Owns(d, r)' => Owns(d, r) /\ r # p
    BY <1>4, <1>5
  <2>3. freed' = freed \/ freed' = freed \cup {p}
    BY <1>1
  <2> QED BY <1>1, <1>2, <1>4, <2>1, <2>2, <2>3 DEF PlaceInv, Exclusive, QueueOK, LoadedFirst
<1>7. HeldInv'
  <2>1. /\ kill.tmp \in Seq(Procs)
        /\ \A i, j \in DOMAIN kill.tmp :
             Prio[kill.tmp[i]] = l /\ (kill.tmp[i] = kill.tmp[j] => i = j)
        /\ \A i \in DOMAIN kill.tmp : kill.tmp[i] # p
    BY <1>4, <1>9 DEF KillType, HeldInv, Held
  <2>2. CASE kill'.tmp = kill.tmp /\ freed' = freed \cup {p}
    <3>1. \A r \in Procs : Held(r)' => Held(r) /\ r # p
      BY <1>1, <1>4, <1>9, <2>2 DEF Held
    <3>2. HeldInv'
      BY <1>1, <1>2, <1>4, <1>5, <2>1, <2>2, <3>1 DEF HeldInv
    <3> QED BY <3>2
  <2>3. CASE kill'.tmp = Enqueue(kill.tmp, p) /\ freed' = freed /\ ~Hit(p)
    <3>1. \A r \in Procs : Held(r)' => Held(r) \/ r = p
      BY <1>1, <1>9, <2>1, <2>3, EnqueueElements DEF Held
    <3>2. \A i, j \in DOMAIN kill'.tmp :
            Prio[kill'.tmp[i]] = l /\ (kill'.tmp[i] = kill'.tmp[j] => i = j)
      <4>1. kill'.tmp = kill.tmp \/ kill'.tmp = Append(kill.tmp, p)
        BY <2>3 DEF Enqueue
      <4>2. \A i, j \in DOMAIN Append(kill.tmp, p) :
              /\ Prio[Append(kill.tmp, p)[i]] = l
              /\ (Append(kill.tmp, p)[i] = Append(kill.tmp, p)[j] => i = j)
        BY <1>1, <1>4, <2>1
      <4> QED BY <2>1, <4>1, <4>2
    <3>3. \A r \in Procs : Held(r)' =>
            /\ ~Hit(r) /\ r \notin freed' /\ r < loading'
            /\ ~Queued(r)' /\ \A d \in Cpus : ~Owns(d, r)'
      <4> SUFFICES ASSUME NEW r \in Procs, Held(r)'
                   PROVE  /\ ~Hit(r) /\ r \notin freed' /\ r < loading'
                          /\ ~Queued(r)' /\ \A d \in Cpus : ~Owns(d, r)'
        OBVIOUS
      <4>1. CASE r = p
        BY <1>1, <1>2, <1>4, <1>5, <2>3, <4>1
      <4>2. CASE Held(r)
        BY <1>1, <1>2, <1>5, <1>9, <2>3, <4>2 DEF HeldInv
      <4> QED BY <3>1, <4>1, <4>2
    <3> QED BY <1>1, <3>2, <3>3 DEF HeldInv
  <2> QED BY <1>1, <1>4, <2>2, <2>3
<1> QED BY <1>0, <1>2, <1>3, <1>4, <1>6, <1>7

LEMMA TakeListed ==
  ASSUME TypeInv, KillType, SweepInv, Alone, NEW c \in Cpus, KillTake(c), ~(kill.prio < MaxPrio)
  PROVE  /\ PlaceInv' /\ HeldInv' /\ ListedFirst' /\ kill.proc \in Procs /\ queue' = queue
         /\ \A i \in DOMAIN kill'.tmp : kill'.tmp[i] < loading
         /\ kill.proc \notin freed /\ kill.proc \in freed' => ~Queued(kill.proc)
<1> USE DEF SweepInv
<1>0. PICK p \in Procs : p = kill.proc
  BY TakeFacts
<1>1. /\ runningList # <<>> /\ runningList \in Seq(Procs) /\ p = Head(runningList)
      /\ queue' = queue /\ runningList' = Tail(runningList)
      /\ kill'.prio = kill.prio /\ loading' = loading /\ proc' = proc /\ pc' = pc /\ ldpc' = ldpc
      /\ \/ kill'.tmp = kill.tmp /\ freed' = freed \cup {p} /\ (p \notin freed => Hit(p))
         \/ kill'.tmp = Enqueue(kill.tmp, p) /\ freed' = freed
  <2>1. Dequeued(Swept) \in Seq(Procs)
    BY TakeFacts, DequeuedSeq
  <2> QED BY <1>0, <2>1, TakeFacts, SweepFacts DEF KillTake, cpuVars, ldVars, TypeInv, SchedType, Dequeued
<1>2. pc[c] = "kill" /\ kill.prio = MaxPrio
  BY MlqAssumption DEF KillTake, Killing, KillType
<1>3. /\ ldpc # "add" /\ \A d \in Cpus : proc[d] # None => ~Hit(proc[d])
  BY <1>2 DEF Alone
<1>4. /\ DOMAIN runningList = 1 .. Len(runningList) /\ Len(runningList) \in Nat
      /\ 1 \in DOMAIN runningList /\ p = runningList[1]
      /\ DOMAIN Tail(runningList) = 1 .. Len(runningList) - 1
      /\ \A i \in 1 .. Len(runningList) - 1 : Tail(runningList)[i] = runningList[i + 1]
  BY <1>1
<1>5. \A i \in DOMAIN runningList : runningList[i] < loading
  BY <1>3 DEF ListedFirst
<1>6. p < loading
  BY <1>4, <1>5
\* nobody has it in a queue or on a CPU when it is freed
<1>7. Hit(p) => ~Queued(p) /\ \A d \in Cpus : ~Owns(d, p)
  <2>1. ASSUME Hit(p) PROVE ~Queued(p)
    <3>1. \A q \in Prios : q < kill.prio
      BY <1>2, MlqAssumption DEF Prios
    <3> QED BY <2>1, <3>1 DEF Queued, SweptClean
  <2>2. ASSUME Hit(p) PROVE \A d \in Cpus : ~Owns(d, p)
    BY <1>3, <2>2 DEF Owns, Procs, None
  <2> QED BY <2>1, <2>2
<1>8. PlaceInv'
  <2>1. QueueOK' /\ \A r \in Procs : Queued(r)' <=> Queued(r)
    BY <1>1 DEF PlaceInv, Exclusive, QueueOK, Queued
  <2>2. \A d \in Cpus : \A r \in Procs : Owns(d, r)' <=> Owns(d, r)
    BY <1>1 DEF Owns
  <2>3. freed' = freed \/ (freed' = freed \cup {p} /\ Hit(p))
    BY <1>1
  <2> QED BY <1>1, <1>6, <1>7, <2>1, <2>2, <2>3 DEF PlaceInv, Exclusive, QueueOK, LoadedFirst
<1>9. HeldInv'
  BY <1>1, <1>2 DEF HeldInv
<1>10. \A i \in DOMAIN kill'.tmp : kill'.tmp[i] < loading
  <2>1. kill.tmp \in Seq(Procs)
    BY DEF KillType
  <2> QED BY <1>1, <1>6, <2>1, EnqueueElements DEF ListedFirst
<1>11. ListedFirst'
  <2>1. \A i \in DOMAIN runningList' : runningList'[i] < loading'
    <3> SUFFICES ASSUME NEW i \in 1 .. Len(runningList) - 1 PROVE runningList[i + 1] < loading
      BY <1>1, <1>4
    <3>1. i + 1 \in DOMAIN runningList
      BY <1>4
    <3> QED BY <1>5, <3>1
  <2> QED BY <1>1, <1>10, <2>1 DEF ListedFirst
<1> QED BY <1>0, <1>1, <1>7, <1>8, <1>9, <1>10, <1>11

\* the next queue starts with an empty local queue
LEMMA OnHeld ==
  ASSUME KillType, NEW c \in Cpus, pc[c] = "kill", UNCHANGED pc, kill' = On
  PROVE  /\ Sweeping' /\ HeldInv' /\ kill'.prio = kill.prio + 1 /\ kill'.tmp = <<>>
         /\ \A p \in Procs : ~Held(p)'
<1>1. /\ kill'.prio = kill.prio + 1 /\ kill'.at = "enter" /\ kill'.proc = None /\ kill'.tmp = <<>>
  BY DEF On, NoKill
<1> QED BY <1>1 DEF Sweeping, HeldInv, Held

\* a step that leaves everything but killall's locals alone
LEMMA LocalsStep ==
  ASSUME TypeInv, PlaceInv, Busy, UNCHANGED vars
  PROVE  PlaceInv' /\ Busy'
BY NextPlaces, NextBusy

LEMMA SkipSweep ==
  ASSUME TypeInv, KillType, SweepInv, NEW c \in Cpus, KillSkip(c)
  PROVE  SweepInv'
<1> USE DEF SweepInv
<1>1. /\ pc[c] = "kill" /\ kill.prio <= MaxPrio /\ Swept = <<>> /\ kill' = On /\ UNCHANGED vars
      /\ UNCHANGED <<pc, queue, runningList, loading, ldpc>>
  BY DEF KillSkip, Killing, vars, schedVars, cpuVars, ldVars
<1>2. PlaceInv' /\ Busy'
  BY <1>1, LocalsStep
<1>3. Sweeping' /\ HeldInv' /\ kill'.prio = kill.prio + 1 /\ kill'.tmp = <<>>
  BY <1>1, OnHeld
<1>4. SweptClean'
  <2> SUFFICES ASSUME NEW q \in Prios, q < kill.prio + 1, NEW i \in DOMAIN queue[q]
               PROVE  ~Hit(queue[q][i])
    BY <1>1, <1>3 DEF SweptClean, Hit
  <2>1. q < kill.prio \/ (q = kill.prio /\ kill.prio < MaxPrio)
    BY MlqAssumption DEF Prios, KillType
  <2>2. CASE q = kill.prio /\ kill.prio < MaxPrio
    BY <1>1, <2>2 DEF Swept
  <2> QED BY <2>1, <2>2 DEF SweptClean
<1>5. ListedFirst'
  BY <1>1, <1>3 DEF ListedFirst
<1> QED BY <1>2, <1>3, <1>4, <1>5

LEMMA LookSweep ==
  ASSUME TypeInv, KillType, SweepInv, NEW c \in Cpus, KillFetch(c) \/ KillLeave(c)
  PROVE  SweepInv'
<1> USE DEF SweepInv
<1>1. /\ pc[c] = "kill" /\ UNCHANGED vars /\ kill'.prio = kill.prio /\ kill'.tmp = kill.tmp
      /\ UNCHANGED <<pc, proc, queue, runningList, freed, loading, ldpc>>
      /\ \/ kill'.at = "loop" /\ Swept # <<>> /\ kill'.proc = Head(Swept)
         \/ kill'.at = "store" /\ Swept = <<>> /\ kill'.proc = None
  BY DEF KillFetch, KillLeave, Killing, KillType, vars, schedVars, cpuVars, ldVars
<1>2. PlaceInv' /\ Busy'
  BY <1>1, LocalsStep
<1>3. Sweeping'
  BY <1>1 DEF Sweeping, Swept
<1>4. HeldInv' /\ SweptClean' /\ ListedFirst'
  BY <1>1 DEF HeldInv, Held, SweptClean, ListedFirst, Hit, Queued, Owns
<1> QED BY <1>2, <1>3, <1>4

LEMMA TakeSweep ==
  ASSUME TypeInv, KillType, SweepInv, Alone, NEW c \in Cpus, KillTake(c)
  PROVE  SweepInv'
<1> USE DEF SweepInv
<1>1. /\ pc[c] = "kill" /\ UNCHANGED <<clockVars, pc, loading, ldpc>>
      /\ kill'.prio = kill.prio /\ kill'.at = "loop" /\ kill'.proc = None
      /\ Dequeued(Swept) \in Seq(Procs) /\ Sweep(Dequeued(Swept))
  BY TakeFacts, DequeuedSeq DEF KillTake, Killing, cpuVars, ldVars
<1>2. Busy'
  BY <1>1 DEF Busy, clockVars, Clock!Working
<1>3. Sweeping'
  BY <1>1 DEF Sweeping
<1>4. CASE kill.prio < MaxPrio
  <2>1. PlaceInv' /\ HeldInv' /\ kill.proc < loading /\ kill.proc \in Procs
    BY <1>4, TakeReady
  <2>2. runningList' = runningList /\ \A q \in Prios : q # kill.prio => queue'[q] = queue[q]
    BY <1>1, <1>4, SweepFacts
  <2>3. SweptClean'
    BY <1>1, <2>2 DEF SweptClean, KillType, Prios, Hit
  <2>4. \A i \in DOMAIN kill'.tmp : kill'.tmp[i] < loading
    <3>1. kill.tmp \in Seq(Procs)
      BY DEF KillType
    <3> QED BY <2>1, <3>1, TakeFacts, EnqueueElements DEF ListedFirst
  <2>5. ListedFirst'
    BY <1>1, <2>2, <2>4 DEF ListedFirst
  <2> QED BY <1>2, <1>3, <2>1, <2>3, <2>5
<1>5. CASE ~(kill.prio < MaxPrio)
  <2>1. PlaceInv' /\ HeldInv' /\ ListedFirst' /\ queue' = queue
    BY <1>5, TakeListed
  <2>2. SweptClean'
    BY <1>1, <2>1 DEF SweptClean, Hit
  <2> QED BY <1>2, <1>3, <2>1, <2>2
<1> QED BY <1>4, <1>5

(* The local queue takes the place of an empty one.                        *)
LEMMA StoreFacts ==
  ASSUME TypeInv, KillType, SweepInv, NEW c \in Cpus, KillStore(c)
  PROVE  /\ pc[c] = "kill" /\ kill.prio <= MaxPrio /\ kill' = On
         /\ UNCHANGED <<clockVars, pc, proc, loading, ldpc, insn, freed>>
         /\ kill.prio < MaxPrio =>
              /\ kill.prio \in Prios /\ queue[kill.prio] = <<>> /\ runningList' = runningList
              /\ queue'[kill.prio] = kill.tmp
              /\ \A q \in Prios : q # kill.prio => queue'[q] = queue[q]
              /\ \A p \in Procs : Queued(p)' <=> Queued(p) \/ Held(p)
         /\ ~(kill.prio < MaxPrio) => queue' = queue /\ runningList' = kill.tmp
<1>1. /\ pc[c] = "kill" /\ kill.prio <= MaxPrio /\ kill' = On /\ kill.at = "store"
      /\ UNCHANGED <<clockVars, pc, proc, loading, ldpc, insn, freed>>
      /\ Sweep(kill.tmp) /\ kill.tmp \in Seq(Procs) /\ Swept = <<>>
  BY DEF KillStore, Killing, cpuVars, ldVars, KillType, SweepInv, Sweeping
<1>2. kill.prio < MaxPrio =>
        /\ kill.prio \in Prios /\ queue[kill.prio] = <<>> /\ runningList' = runningList
        /\ queue'[kill.prio] = kill.tmp
        /\ \A q \in Prios : q # kill.prio => queue'[q] = queue[q]
  BY <1>1, SweepFacts
<1>3. ~(kill.prio < MaxPrio) => queue' = queue /\ runningList' = kill.tmp
  BY <1>1, SweepFacts
<1>4. ASSUME kill.prio < MaxPrio, NEW p \in Procs PROVE Queued(p)' <=> Queued(p) \/ Held(p)
  <2>1. PICK l \in Prios : l = kill.prio
    BY <1>2, <1>4
  <2>2. /\ queue[l] = <<>> /\ queue'[l] = kill.tmp
        /\ \A q \in Prios : q # l => queue'[q] = queue[q]
    BY <1>2, <1>4, <2>1
  <2>3. Held(p) <=> \E i \in DOMAIN queue'[l] : queue'[l][i] = p
    BY <1>4, <2>2 DEF Held
  <2>4. ASSUME Queued(p)' PROVE Queued(p) \/ Held(p)
    <3>1. PICK q \in Prios : \E i \in DOMAIN queue'[q] : queue'[q][i] = p
      BY <2>4 DEF Queued
    <3>2. CASE q = l
      BY <2>3, <3>1, <3>2
    <3>3. CASE q # l
      BY <2>2, <3>1, <3>3 DEF Queued
    <3> QED BY <3>2, <3>3
  <2>5. ASSUME Queued(p) PROVE Queued(p)'
    <3>1. PICK q \in Prios : \E i \in DOMAIN queue[q] : queue[q][i] = p
      BY <2>5 DEF Queued
    <3>2. q # l
      BY <2>2, <3>1
    <3> QED BY <2>2, <3>1, <3>2 DEF Queued
  <2>6. Held(p) => Queued(p)'
    BY <2>3 DEF Queued
  <2> QED BY <2>4, <2>5, <2>6
<1> QED BY <1>1, <1>2, <1>3, <1>4

LEMMA StoreSweep ==
  ASSUME TypeInv, KillType, SweepInv, NEW c \in Cpus, KillStore(c)
  PROVE  SweepInv'
<1> USE DEF SweepInv
<1>1. /\ pc[c] = "kill" /\ kill.prio <= MaxPrio /\ kill' = On
      /\ UNCHANGED <<clockVars, pc, proc, loading, ldpc, insn, freed>>
  BY StoreFacts
<1>2. Busy'
  BY <1>1 DEF Busy, clockVars, Clock!Working
<1>3. Sweeping' /\ HeldInv' /\ kill'.prio = kill.prio + 1 /\ kill'.tmp = <<>>
  BY <1>1, OnHeld
<1>4. \A d \in Cpus : \A r \in Procs : Owns(d, r)' <=> Owns(d, r)
  BY <1>1 DEF Owns
<1>5. CASE kill.prio < MaxPrio
  <2>1. PICK l \in Prios : l = kill.prio
    BY <1>5, StoreFacts
  <2>2. /\ queue'[l] = kill.tmp /\ runningList' = runningList
        /\ \A q \in Prios : q # l => queue'[q] = queue[q]
        /\ \A p \in Procs : Queued(p)' <=> Queued(p) \/ Held(p)
    BY <1>5, <2>1, StoreFacts
  <2>3. /\ \A i, j \in DOMAIN kill.tmp :
             Prio[kill.tmp[i]] = l /\ (kill.tmp[i] = kill.tmp[j] => i = j)
        /\ \A p \in Procs : Held(p) =>
             /\ ~Hit(p) /\ p \notin freed /\ p < loading
             /\ ~Queued(p) /\ \A d \in Cpus : ~Owns(d, p)
        /\ kill.tmp \in Seq(Procs)
    BY <1>5, <2>1 DEF HeldInv, KillType
  <2>4. QueueOK'
    <3> SUFFICES ASSUME NEW q \in Prios, NEW i \in DOMAIN queue'[q], NEW j \in DOMAIN queue'[q]
                 PROVE  Prio[queue'[q][i]] = q /\ (queue'[q][i] = queue'[q][j] => i = j)
      BY DEF QueueOK
    <3>1. CASE q = l
      BY <2>2, <2>3, <3>1
    <3>2. CASE q # l
      BY <2>2, <3>2 DEF PlaceInv, Exclusive
    <3> QED BY <3>1, <3>2
  <2>5. PlaceInv'
    BY <1>1, <1>4, <2>2, <2>3, <2>4 DEF PlaceInv, Exclusive, QueueOK, LoadedFirst
  <2>6. SweptClean'
    <3> SUFFICES ASSUME NEW q \in Prios, q < kill.prio + 1, NEW i \in DOMAIN queue'[q]
                 PROVE  ~Hit(queue'[q][i])
      BY <1>3 DEF SweptClean, Hit
    <3>1. q < kill.prio \/ q = l
      BY <2>1 DEF Prios
    <3>2. CASE q = l
      BY <1>5, <2>2, <2>3, <3>2 DEF Held
    <3>3. CASE q < kill.prio /\ q # l
      BY <2>2, <3>3 DEF SweptClean
    <3> QED BY <3>1, <3>2, <3>3
  <2>7. ListedFirst'
    BY <1>1, <1>3, <2>2 DEF ListedFirst
  <2> QED BY <1>2, <1>3, <2>5, <2>6, <2>7
<1>6. CASE ~(kill.prio < MaxPrio)
  <2>1. queue' = queue /\ runningList' = kill.tmp /\ kill.prio = MaxPrio
    BY <1>1, <1>6, StoreFacts, MlqAssumption DEF KillType
  <2>2. QueueOK' /\ \A r \in Procs : Queued(r)' <=> Queued(r)
    BY <2>1 DEF PlaceInv, Exclusive, QueueOK, Queued
  <2>3. PlaceInv'
    BY <1>1, <1>4, <2>2 DEF PlaceInv, Exclusive, QueueOK, LoadedFirst
  <2>4. SweptClean'
    <3>1. \A q \in Prios : q < kill.prio
      BY <2>1, MlqAssumption DEF Prios
    <3> QED BY <2>1, <3>1 DEF SweptClean, Hit
  <2>5. ListedFirst'
    BY <1>1, <1>3, <2>1 DEF ListedFirst
  <2> QED BY <1>2, <1>3, <2>3, <2>4, <2>5
<1> QED BY <1>5, <1>6

LEMMA BeginSweep ==
  ASSUME TypeInv, KillType, SweepInv, NEW c \in Cpus, KillBegin(c), kill = NoKill
  PROVE  SweepInv'
<1> USE DEF SweepInv
<1>1. /\ UNCHANGED <<schedVars, clockVars, ldVars, freed, proc, killVars>>
      /\ pc' = [pc EXCEPT ![c] = "kill"] /\ pc \in [Cpus -> Labels]
      /\ pc[c] = "run" \/ (pc[c] = "top" /\ Clock!Working(c))
      /\ UNCHANGED <<queue, runningList, kill, loading, ldpc>>
  BY DEF KillBegin, Calls, AtRun, AtTop, Goto, TypeInv, CpuType, schedVars, ldVars, killVars
<1>2. \A d \in Cpus : \A r \in Procs : Owns(d, r)' <=> Owns(d, r)
  BY <1>1 DEF Owns
<1>3. PlaceInv'
  BY <1>1, <1>2, QueueKept, PlacesKept
<1>4. Busy'
  BY <1>1 DEF Busy, clockVars, Clock!Working
<1>5. Sweeping' /\ HeldInv' /\ SweptClean' /\ ListedFirst'
  BY <1>1 DEF NoKill, Sweeping, HeldInv, Held, SweptClean, ListedFirst, Prios
<1> QED BY <1>3, <1>4, <1>5

LEMMA EndSweep ==
  ASSUME TypeInv, KillType, SweepInv, NEW c \in Cpus, KillEnd(c)
  PROVE  SweepInv'
<1> USE DEF SweepInv
<1>1. /\ UNCHANGED <<schedVars, ldVars, freed, proc>> /\ kill' = NoKill
      /\ pc' = [pc EXCEPT ![c] = "top"] /\ pc \in [Cpus -> Labels] /\ pc[c] = "kill"
      /\ UNCHANGED <<queue, runningList, loading, ldpc>> /\ Clock!Arrive(c)
  BY DEF KillEnd, Goto, TypeInv, CpuType, schedVars, ldVars
<1>2. \A d \in Cpus : \A r \in Procs : Owns(d, r)' <=> Owns(d, r)
  BY <1>1 DEF Owns
<1>3. PlaceInv'
  BY <1>1, <1>2, QueueKept, PlacesKept
<1>4. Busy'
  BY <1>1 DEF Busy, Clock!Arrive, Clock!Working
<1>5. Sweeping' /\ HeldInv' /\ SweptClean' /\ ListedFirst'
  BY <1>1 DEF NoKill, Sweeping, HeldInv, Held, SweptClean, ListedFirst, Prios
<1> QED BY <1>3, <1>4, <1>5

LEMMA InitSweep == KInit => SweepInv
BY InitPlaces, InitBusy
   DEF KInit, Init, SchedInit, NoKill, SweepInv, Sweeping, HeldInv, Held, SweptClean, ListedFirst, Prios

LEMMA NextSweep ==
  TypeInv /\ KillType /\ SweepInv /\ Alone /\ [KNext]_kvars => SweepInv'
<1> SUFFICES ASSUME TypeInv, KillType, SweepInv, Alone, [KNext]_kvars PROVE SweepInv'
  OBVIOUS
<1>1. CASE \A c \in Cpus : pc[c] # "kill"
  <2>1. /\ kill = NoKill /\ UNCHANGED killVars
        /\ [Next]_vars \/ \E c \in Cpus : KillBegin(c)
    BY <1>1, NoKillStep DEF SweepInv
  <2>2. CASE [Next]_vars
    <3>1. PlaceInv' /\ Busy' /\ ListedFirst'
      BY <2>1, <2>2, NextPlaces, NextBusy, NextListed DEF SweepInv
    <3>2. Sweeping' /\ HeldInv' /\ SweptClean'
      BY <2>1 DEF killVars, NoKill, Sweeping, HeldInv, Held, SweptClean, Prios
    <3> QED BY <3>1, <3>2 DEF SweepInv
  <2> QED BY <2>1, <2>2, BeginSweep
<1>2. ASSUME NEW c \in Cpus, pc[c] = "kill" PROVE SweepInv'
  <2>1. CASE UNCHANGED kvars \/ ((LoaderWait \/ LoaderDone) /\ UNCHANGED killVars)
    <3>1. [Next]_vars /\ UNCHANGED killVars
      BY <2>1 DEF Next, LoaderStep, kvars
    <3>2. PlaceInv' /\ Busy' /\ ListedFirst'
      BY <3>1, NextPlaces, NextBusy, NextListed DEF SweepInv
    <3>3. UNCHANGED <<queue, runningList, pc, proc, kill, freed, loading>>
      BY <2>1 DEF LoaderWait, LoaderDone, kvars, vars, killVars, schedVars, cpuVars, ldVars
    <3>4. Sweeping' /\ HeldInv' /\ SweptClean'
      BY <3>3 DEF SweepInv, Sweeping, Swept, HeldInv, Held, SweptClean, Hit, Queued, Owns
    <3> QED BY <3>2, <3>4 DEF SweepInv
  <2> QED BY <1>2, <2>1, AloneStep, SkipSweep, LookSweep, TakeSweep, StoreSweep, EndSweep
          DEF SweepInv, SweepStep
<1> QED BY <1>1, <1>2

(* An undisturbed killall doubles no process: whatever it takes out of a   *)
(* list and puts back is, throughout, in one place.                        *)
THEOREM ExclusiveKill == KSpec /\ []Alone => []Exclusive
<1>1. SweepInv => Exclusive
  BY DEF SweepInv, PlaceInv
<1> QED
  BY <1>1, InitKill, NextKillType, InitSweep, NextSweep, PTL DEF KSpec

------------------------------------------------------------------------------
(* Freed processes: they have come to their end or match, and they run no  *)
(* further.                                                                *)
FreedWhy == FinDone /\ \A p \in freed : insn[p] = CodeSize[p] \/ Hit(p)

LEMMA KillFreed ==
  ASSUME TypeInv, KillType, SweepInv, Alone, FinDone, [KNext]_kvars
  PROVE  /\ FinDone'
         /\ \A p \in freed : p \in freed' /\ insn'[p] = insn[p]
         /\ \A p \in freed' \ freed : insn'[p] = CodeSize[p] \/ Hit(p)
<1>1. CASE [Next]_vars /\ UNCHANGED killVars
  BY <1>1, FreedStep DEF SweepInv
<1>2. ASSUME NEW c \in Cpus, KillBegin(c)
      PROVE  /\ FinDone' /\ freed' = freed
             /\ \A p \in freed : insn'[p] = insn[p]
  <2>1. /\ Killer \in Procs /\ proc[c] = Killer /\ Owns(c, Killer)
        /\ pc[c] # "fin" /\ pc' = [pc EXCEPT ![c] = "kill"] /\ proc' = proc /\ freed' = freed
    BY <1>2, KillAllAssumption DEF KillBegin, Calls, AtRun, AtTop, Owns, Goto
  <2>2. Killer \notin freed /\ \A d \in Cpus : pc[d] = "fin" => proc[d] # Killer
    BY <2>1 DEF SweepInv, PlaceInv, Exclusive, Owns
  <2>3. \A r \in Procs : r # Killer => insn'[r] = insn[r]
    BY <1>2 DEF KillBegin, Execute, TypeInv, ProcType
  <2> QED BY <2>1, <2>2, <2>3 DEF FinDone, TypeInv, CpuType, ProcType
<1>3. ASSUME NEW c \in Cpus, SweepStep(c)
      PROVE  /\ FinDone'
             /\ \A p \in freed : p \in freed' /\ insn'[p] = insn[p]
             /\ \A p \in freed' \ freed : Hit(p)
  <2>1. insn' = insn /\ pc' = pc /\ proc' = proc
    BY <1>3, SweepFrame DEF cpuVars
  <2>2. CASE KillTake(c)
    BY <2>1, <2>2, TakeFacts DEF FinDone, SweepInv
  <2>3. CASE ~KillTake(c)
    BY <1>3, <2>1, <2>3
       DEF SweepStep, KillSkip, KillFetch, KillLeave, KillStore, FinDone, vars
  <2> QED BY <2>2, <2>3
<1>4. ASSUME NEW c \in Cpus, KillEnd(c)
      PROVE  FinDone' /\ freed' = freed /\ insn' = insn
  BY <1>4 DEF KillEnd, Goto, FinDone, TypeInv, CpuType
<1> QED BY <1>1, <1>2, <1>3, <1>4, KStepCases

LEMMA InitFreed == KInit => FreedWhy
BY DEF KInit, Init, FreedWhy, FinDone

LEMMA NextFreed ==
  TypeInv /\ KillType /\ SweepInv /\ FreedWhy /\ Alone /\ [KNext]_kvars => FreedWhy'
BY KillFreed DEF FreedWhy, Hit

(* A process freed by an undisturbed killall, or at its end, never         *)
(* executes another instruction.                                           *)
THEOREM KilledStopsAlone == KSpec /\ []Alone => KilledStops
<1>1. TypeInv /\ KillType /\ SweepInv /\ FreedWhy /\ Alone /\ [KNext]_kvars =>
        [\A p \in Procs : p \in freed => insn'[p] = insn[p]]_kvars
  BY KillFreed DEF FreedWhy
<1> QED
  BY <1>1, InitKill, NextKillType, InitSweep, NextSweep, InitFreed, NextFreed, PTL
     DEF KSpec, KilledStops

------------------------------------------------------------------------------
(* What load() stores of the names is enough to tell the named programs    *)
(* from the others.                                                        *)
NamesTold == \A p \in Procs : Hit(p) <=> Doomed(p)

(* When an undisturbed killall returns, no process of the name that was    *)
(* asked for and none that was freed is in a ready queue or with a CPU.    *)
THEOREM NamedGoneAlone == NamesTold /\ KSpec /\ []Alone => NamedGone
<1>1. NamesTold /\ TypeInv /\ KillType /\ SweepInv /\ Alone /\ [KNext]_kvars =>
        [\A c \in Cpus : pc[c] = "kill" /\ pc'[c] = "top" =>
           \A p \in Procs : Doomed(p) \/ p \in freed =>
             ~Queued(p) /\ \A d \in Cpus : ~Owns(d, p)]_kvars
  <2> SUFFICES ASSUME NamesTold, TypeInv, KillType, SweepInv, Alone, [KNext]_kvars,
                      NEW c \in Cpus, pc[c] = "kill", pc'[c] = "top",
                      NEW p \in Procs, Doomed(p) \/ p \in freed
               PROVE  ~Queued(p) /\ \A d \in Cpus : ~Owns(d, p)
    OBVIOUS
  <2>1. KillEnd(c)
    <3>1. ASSUME UNCHANGED pc PROVE FALSE
      BY <3>1
    <3> QED BY <3>1, AloneStep, SweepFrame DEF SweepInv, LoaderWait, LoaderDone, kvars, vars, cpuVars
  <2>2. \A q \in Prios : q < kill.prio
    BY <2>1, MlqAssumption DEF KillEnd, KillType, Prios
  <2>3. CASE Doomed(p)
    <3>1. Hit(p)
      BY <2>3 DEF NamesTold
    <3>2. ~Queued(p)
      BY <2>2, <3>1 DEF SweepInv, SweptClean, Queued
    <3>3. ASSUME NEW d \in Cpus, Owns(d, p) PROVE FALSE
      <4>1. proc[d] = p /\ p # None
        BY <3>3 DEF Owns, Procs, None
      <4> QED BY <3>1, <4>1 DEF Alone
    <3> QED BY <3>2, <3>3
  <2>4. CASE p \in freed
    BY <2>4 DEF SweepInv, PlaceInv, Exclusive
  <2> QED BY <2>3, <2>4
<1>2. NamesTold /\ [KNext]_kvars => NamesTold'
  BY DEF NamesTold, Hit, Doomed
<1> QED
  BY <1>1, <1>2, InitKill, NextKillType, InitSweep, NextSweep, PTL DEF KSpec, NamedGone

------------------------------------------------------------------------------
(* What waits is in a ready queue or in the local queue.                   *)
LEMMA WaitingSeq ==
  ASSUME TypeInv, KillType, NEW q \in Prios
  PROVE  /\ queue[q] \in Seq(Procs) /\ kill.tmp \in Seq(Procs) /\ Waiting(q) \in Seq(Procs)
         /\ kill.tmp = <<>> => Waiting(q) = queue[q]
<1>1. queue[q] \in Seq(Procs) /\ kill.tmp \in Seq(Procs)
  BY DEF TypeInv, SchedType, KillType
<1> QED BY <1>1, ConcatProperties, ConcatEmptySeq DEF Waiting

LEMMA ConcatElements ==
  ASSUME NEW s \in Seq(Procs), NEW t \in Seq(Procs), NEW p \in Procs
  PROVE  (\E i \in DOMAIN (s \o t) : (s \o t)[i] = p)
           <=> (\E i \in DOMAIN s : s[i] = p) \/ (\E i \in DOMAIN t : t[i] = p)
<1>1. /\ Len(s) \in Nat /\ Len(t) \in Nat
      /\ DOMAIN s = 1 .. Len(s) /\ DOMAIN t = 1 .. Len(t)
      /\ DOMAIN (s \o t) = 1 .. Len(s) + Len(t)
      /\ \A i \in 1 .. Len(s) + Len(t) :
           (s \o t)[i] = IF i <= Len(s) THEN s[i] ELSE t[i - Len(s)]
  BY ConcatProperties, LenProperties
<1>2. ASSUME NEW i \in DOMAIN (s \o t), (s \o t)[i] = p
      PROVE  (\E j \in DOMAIN s : s[j] = p) \/ (\E j \in DOMAIN t : t[j] = p)
  <2>1. CASE i <= Len(s)
    BY <1>1, <1>2, <2>1
  <2>2. CASE ~(i <= Len(s))
    <3>1. i - Len(s) \in 1 .. Len(t) /\ t[i - Len(s)] = p
      BY <1>1, <1>2, <2>2
    <3> QED BY <1>1, <3>1
  <2> QED BY <2>1, <2>2
<1>3. ASSUME NEW i \in DOMAIN s, s[i] = p
      PROVE  \E j \in DOMAIN (s \o t) : (s \o t)[j] = p
  <2>1. i \in 1 .. Len(s) + Len(t) /\ i <= Len(s)
    BY <1>1
  <2> QED BY <1>1, <1>3, <2>1
<1>4. ASSUME NEW i \in DOMAIN t, t[i] = p
      PROVE  \E j \in DOMAIN (s \o t) : (s \o t)[j] = p
  <2>1. PICK k \in 1 .. Len(s) + Len(t) : k = i + Len(s)
    BY <1>1
  <2>2. ~(k <= Len(s)) /\ k - Len(s) = i
    BY <1>1, <2>1
  <2> QED BY <1>1, <1>4, <2>2
<1> QED BY <1>2, <1>3, <1>4

LEMMA WaitsPlaces ==
  ASSUME TypeInv, KillType, NEW p \in Procs
  PROVE  Waits(p) <=> Queued(p) \/ Held(p)
<1>1. ASSUME NEW q \in Prios
      PROVE  (\E i \in DOMAIN Waiting(q) : Waiting(q)[i] = p)
               <=> \/ \E i \in DOMAIN queue[q] : queue[q][i] = p
                   \/ kill.prio = q /\ \E i \in DOMAIN kill.tmp : kill.tmp[i] = p
  <2>1. queue[q] \in Seq(Procs) /\ kill.tmp \in Seq(Procs)
    BY WaitingSeq
  <2>2. CASE kill.prio = q
    BY <2>1, <2>2, ConcatElements DEF Waiting
  <2>3. CASE kill.prio # q
    BY <2>3 DEF Waiting
  <2> QED BY <2>2, <2>3
<1>2. \A q \in Prios : kill.prio = q => kill.prio < MaxPrio
  BY MlqAssumption DEF Prios
<1>3. kill.prio < MaxPrio => kill.prio \in Prios
  BY MlqAssumption DEF KillType, Prios
<1> QED BY <1>1, <1>2, <1>3 DEF Waits, Queued, Held

(* Taking the head of the one and appending it to the other keeps a        *)
(* concatenation; dropping it removes one element.                         *)
LEMMA MoveHead ==
  ASSUME NEW s \in Seq(Procs), NEW t \in Seq(Procs), t # <<>>
  PROVE  /\ Append(s, Head(t)) \o Tail(t) = s \o t
         /\ Len(s) + 1 \in DOMAIN (s \o t) /\ (s \o t)[Len(s) + 1] = Head(t)
         /\ s \o Tail(t) = Lists!RemoveAt(s \o t, Len(s) + 1)
<1>1. /\ Head(t) \in Procs /\ Tail(t) \in Seq(Procs) /\ Head(t) = t[1]
      /\ t = <<Head(t)>> \o Tail(t)
      /\ Len(s) \in Nat /\ Len(t) \in Nat \ {0} /\ Len(Tail(t)) = Len(t) - 1
  BY HeadTailProperties, LenProperties, EmptySeq, SeqEqual
<1>2. <<Head(t)>> \in Seq(Procs) /\ Append(s, Head(t)) = s \o <<Head(t)>>
  BY <1>1, AppendIsConcat
<1>3. Append(s, Head(t)) \o Tail(t) = s \o t
  BY <1>1, <1>2, ConcatAssociative
<1>4. /\ s \o t \in Seq(Procs) /\ Len(s \o t) = Len(s) + Len(t)
      /\ DOMAIN (s \o t) = 1 .. Len(s) + Len(t)
      /\ (s \o t)[Len(s) + 1] = t[1]
  BY <1>1, ConcatProperties, LenProperties
<1>5. SubSeq(s \o t, 1, Len(s)) = s
  <2> DEFINE u == SubSeq(s \o t, 1, Len(s))
  <2>1. \A i \in 1 .. Len(s) : (s \o t)[i] = s[i] /\ s[i] \in Procs
    BY <1>1, ConcatProperties, ElementOfSeq
  <2>2. u \in Seq(Procs) /\ Len(u) = Len(s) /\ \A i \in 1 .. Len(s) : u[i] = s[i]
    BY <1>1, <2>1, SubSeqProperties
  <2> QED BY <2>2, SeqEqual
<1>6. SubSeq(s \o t, Len(s) + 2, Len(s) + Len(t)) = Tail(t)
  <2> DEFINE u == SubSeq(s \o t, Len(s) + 2, Len(s) + Len(t))
  <2>1. \A i \in Len(s) + 2 .. Len(s) + Len(t) :
          (s \o t)[i] = t[i - Len(s)] /\ t[i - Len(s)] \in Procs
    BY <1>1, ConcatProperties, ElementOfSeq
  <2>2. /\ u \in Seq(Procs) /\ Len(u) = Len(t) - 1
        /\ \A i \in 1 .. Len(t) - 1 : u[i] = (s \o t)[Len(s) + 2 + i - 1]
    BY <1>1, <2>1, SubSeqProperties
  <2>3. \A i \in 1 .. Len(t) - 1 : u[i] = t[i + 1] /\ Tail(t)[i] = t[i + 1]
    <3> SUFFICES ASSUME NEW i \in 1 .. Len(t) - 1 PROVE u[i] = t[i + 1] /\ Tail(t)[i] = t[i + 1]
      OBVIOUS
    <3>0. Len(s) + 2 + i - 1 \in Len(s) + 2 .. Len(s) + Len(t)
      BY <1>1
    <3>1. PICK k \in Len(s) + 2 .. Len(s) + Len(t) : k = Len(s) + 2 + i - 1
      BY <3>0
    <3>2. u[i] = t[k - Len(s)] /\ k - Len(s) = i + 1
      BY <1>1, <2>1, <2>2, <3>1
    <3> QED BY <1>1, <3>2, HeadTailProperties
  <2> QED BY <1>1, <2>2, <2>3, SeqEqual
<1>7. Len(s) + 1 - 1 = Len(s) /\ Len(s) + 1 + 1 = Len(s) + 2 /\ Len(s) + 1 \in 1 .. Len(s) + Len(t)
  BY <1>1
<1>8. s \o Tail(t) = Lists!RemoveAt(s \o t, Len(s) + 1)
  <2> DEFINE u == s \o t
             n == Len(s) + 1
  <2>1. Lists!RemoveAt(u, n) = SubSeq(u, 1, n - 1) \o SubSeq(u, n + 1, Len(u))
    BY DEF Lists!RemoveAt
  <2>2. SubSeq(u, 1, n - 1) = s
    BY <1>5, <1>7
  <2>3. SubSeq(u, n + 1, Len(u)) = Tail(t)
    BY <1>4, <1>6, <1>7
  <2> HIDE DEF u, n
  <2>4. Lists!RemoveAt(u, n) = s \o Tail(t)
    BY <2>1, <2>2, <2>3
  <2> QED BY <2>4 DEF u, n
<1> QED BY <1>1, <1>3, <1>4, <1>7, <1>8

------------------------------------------------------------------------------
(* A loaded process is somewhere, at every moment of the sweep.            *)
HereInv == \A p \in Procs : p < loading => Somewhere(p) \/ Held(p)

\* with room in a queue for every process of a priority the local queue
\* takes what is kept
LEMMA KeptHeld ==
  ASSUME RoomForAll, TypeInv, KillType, SweepInv, NEW c \in Cpus, KillTake(c), kill.prio < MaxPrio
  PROVE  /\ \A r \in Procs : Held(r) => Held(r)'
         /\ \/ kill.proc \in freed' \ freed /\ kill'.tmp = kill.tmp
            \/ /\ kill'.tmp = Append(kill.tmp, kill.proc) /\ freed' = freed
               /\ \A r \in Procs : r = kill.proc => Held(r)'
<1>0. PICK p \in Procs : p = kill.proc
  BY TakeFacts DEF SweepInv
<1>1. /\ kill.tmp \in Seq(Procs) /\ kill'.prio = kill.prio /\ ~Held(p) /\ p \notin freed
      /\ \/ kill'.tmp = kill.tmp /\ freed' = freed \cup {p}
         \/ kill'.tmp = Enqueue(kill.tmp, p) /\ freed' = freed
  BY <1>0, TakeFacts, TakeReady DEF SweepInv, KillType
<1>2. Prio[p] = kill.prio
  <2>1. /\ kill.prio \in Prios /\ queue[kill.prio] \in Seq(Procs) /\ queue[kill.prio] # <<>>
        /\ p = Head(queue[kill.prio])
    BY <1>0, TakeFacts, MlqAssumption DEF SweepInv, Swept, KillType, Prios
  <2>2. 1 \in DOMAIN queue[kill.prio] /\ p = queue[kill.prio][1]
    BY <2>1
  <2> QED BY <2>1, <2>2 DEF SweepInv, PlaceInv, Exclusive
<1>3. CASE kill'.tmp = kill.tmp /\ freed' = freed \cup {p}
  BY <1>0, <1>1, <1>3 DEF Held
<1>4. CASE kill'.tmp = Enqueue(kill.tmp, p) /\ freed' = freed
  <2>1. /\ \A i, j \in DOMAIN kill.tmp :
             Prio[kill.tmp[i]] = Prio[p] /\ (kill.tmp[i] = kill.tmp[j] => i = j)
        /\ \A i \in DOMAIN kill.tmp : kill.tmp[i] # p
    BY <1>1, <1>2 DEF SweepInv, HeldInv, Held
  <2>2. Len(kill.tmp) < QueueCap
    BY <1>1, <2>1, RoomLeft
  <2>3. kill'.tmp = Append(kill.tmp, p)
    BY <1>1, <1>4, <2>1, <2>2, MlqAssumption DEF Enqueue
  <2>4. /\ \A i \in DOMAIN kill.tmp : i \in DOMAIN kill'.tmp /\ kill'.tmp[i] = kill.tmp[i]
        /\ \E i \in DOMAIN kill'.tmp : kill'.tmp[i] = p
    <3>1. /\ Len(kill'.tmp) = Len(kill.tmp) + 1 /\ kill'.tmp[Len(kill.tmp) + 1] = p
          /\ \A i \in 1 .. Len(kill.tmp) : kill'.tmp[i] = kill.tmp[i]
          /\ DOMAIN kill'.tmp = 1 .. Len(kill'.tmp) /\ DOMAIN kill.tmp = 1 .. Len(kill.tmp)
          /\ Len(kill.tmp) \in Nat
      BY <1>1, <2>3, AppendProperties, LenProperties
    <3>2. Len(kill.tmp) + 1 \in DOMAIN kill'.tmp /\ \A i \in DOMAIN kill.tmp : i \in DOMAIN kill'.tmp
      BY <3>1
    <3> QED BY <3>1, <3>2
  <2> QED BY <1>0, <1>1, <1>4, <2>3, <2>4 DEF Held
<1> QED BY <1>1, <1>3, <1>4

LEMMA InitHere == KInit => HereInv
BY DEF KInit, Init, HereInv, Procs

LEMMA NextHere ==
  RoomForAll /\ TypeInv /\ KillType /\ SweepInv /\ HereInv /\ Alone /\ [KNext]_kvars => HereInv'
<1> SUFFICES ASSUME RoomForAll, TypeInv, KillType, SweepInv, HereInv, Alone, [KNext]_kvars
             PROVE  HereInv'
  OBVIOUS
<1> USE DEF SweepInv
<1>1. CASE \A c \in Cpus : pc[c] # "kill"
  <2>1. /\ kill = NoKill /\ UNCHANGED killVars
        /\ [Next]_vars \/ \E c \in Cpus : KillBegin(c)
    BY <1>1, NoKillStep
  <2>2. \A p \in Procs : ~Held(p)
    BY <2>1 DEF NoKill, Held
  <2>3. CASE [Next]_vars
    <3>1. AllKept
      BY <2>2 DEF HereInv, AllKept
    <3> QED BY <2>3, <3>1, NextKept DEF HereInv, AllKept
  <2>4. ASSUME NEW c \in Cpus, KillBegin(c) PROVE HereInv'
    <3>1. /\ queue' = queue /\ freed' = freed /\ loading' = loading /\ proc' = proc
          /\ \A d \in Cpus : pc'[d] = pc[d] \/ pc'[d] = "kill"
      BY <2>4 DEF KillBegin, Goto, schedVars, ldVars, TypeInv, CpuType
    <3> QED BY <2>2, <3>1 DEF HereInv, Somewhere, Queued, Owns
  <2> QED BY <2>1, <2>3, <2>4
<1>2. ASSUME NEW c \in Cpus, pc[c] = "kill" PROVE HereInv'
  <2>1. CASE \/ UNCHANGED kvars \/ ((LoaderWait \/ LoaderDone) /\ UNCHANGED killVars)
             \/ KillFetch(c) \/ KillLeave(c)
    <3>1. /\ UNCHANGED <<queue, freed, loading, pc, proc>>
          /\ kill'.prio = kill.prio /\ kill'.tmp = kill.tmp
      BY <2>1 DEF KillFetch, KillLeave, LoaderWait, LoaderDone, KillType, kvars, vars, killVars,
         schedVars, cpuVars, ldVars
    <3> QED BY <3>1 DEF HereInv, Somewhere, Held, Queued, Owns
  <2>2. CASE KillSkip(c)
    <3>1. UNCHANGED <<queue, freed, loading, pc, proc>> /\ kill.tmp = <<>>
      BY <2>2 DEF KillSkip, Sweeping, vars, schedVars, cpuVars, ldVars
    <3> QED BY <3>1 DEF HereInv, Somewhere, Held, Queued, Owns
  <2>3. CASE KillTake(c)
    <3>1. UNCHANGED <<loading, pc, proc>> /\ kill'.prio = kill.prio
      BY <2>3, TakeFacts DEF KillTake, cpuVars, ldVars
    <3>2. freed \subseteq freed'
      BY <2>3, TakeFacts
    <3>3. CASE kill.prio < MaxPrio
      <4>1. PICK p \in Procs : p = kill.proc
        BY <2>3, TakeFacts
      <4>2. /\ \A r \in Procs : Held(r) => Held(r)'
            /\ p \in freed' \/ Held(p)'
        BY <2>3, <3>3, <4>1, KeptHeld
      <4>3. \A r \in Procs : Queued(r) => Queued(r)' \/ r = p
        BY <2>3, <3>3, <4>1, TakeReady
      <4> QED BY <3>1, <3>2, <4>2, <4>3 DEF HereInv, Somewhere, Owns
    <3>4. CASE ~(kill.prio < MaxPrio)
      <4>1. queue' = queue
        BY <2>3, <3>4, TakeListed
      <4> QED BY <3>1, <3>2, <3>4, <4>1 DEF HereInv, Somewhere, Held, Queued, Owns
    <3> QED BY <3>3, <3>4
  <2>4. CASE KillStore(c)
    <3>1. UNCHANGED <<freed, loading, pc, proc>>
      BY <2>4, StoreFacts
    <3>2. \A r \in Procs : Queued(r) \/ Held(r) => Queued(r)'
      BY <2>4, StoreFacts DEF Held, Queued
    <3> QED BY <3>1, <3>2 DEF HereInv, Somewhere, Owns
  <2>5. CASE KillEnd(c)
    <3>1. /\ UNCHANGED <<queue, freed, loading, proc>> /\ kill.prio > MaxPrio
          /\ \A d \in Cpus : pc'[d] = pc[d] \/ pc'[d] = "top"
      BY <2>5 DEF KillEnd, Goto, schedVars, ldVars, TypeInv, CpuType
    <3>2. \A r \in Procs : ~Held(r)
      BY <3>1, MlqAssumption DEF Held, KillType
    <3> QED BY <3>1, <3>2 DEF HereInv, Somewhere, Queued, Owns
  <2> QED BY <1>2, <2>1, <2>2, <2>3, <2>4, <2>5, AloneStep DEF SweepStep
<1> QED BY <1>1, <1>2

(* An undisturbed killall loses none of the processes it was not asked to  *)
(* kill: each of them waits, is with a CPU, or ran to its end.             *)
THEOREM SurvivorsKeptAlone == RoomForAll /\ NamesTold /\ KSpec /\ []Alone => []SurvivorsKept
<1>1. NamesTold /\ TypeInv /\ KillType /\ FreedWhy /\ HereInv => SurvivorsKept
  <2> SUFFICES ASSUME NamesTold, TypeInv, KillType, FreedWhy, HereInv,
                      NEW p \in 1 .. loading - 1
               PROVE  \/ Doomed(p) \/ Waits(p)
                      \/ \E c \in Cpus : Owns(c, p)
                      \/ p \in freed /\ insn[p] = CodeSize[p]
    BY DEF SurvivorsKept
  <2>1. p \in Procs /\ p < loading
    BY MlqAssumption DEF TypeInv, LoaderType, Procs
  <2> QED BY <2>1, WaitsPlaces DEF HereInv, Somewhere, FreedWhy, NamesTold
<1>2. (RoomForAll /\ [KNext]_kvars => RoomForAll') /\ (NamesTold /\ [KNext]_kvars => NamesTold')
  BY DEF RoomForAll, NamesTold, Hit, Doomed
<1> QED
  BY <1>1, <1>2, InitKill, NextKillType, InitSweep, NextSweep, InitFreed, NextFreed,
     InitHere, NextHere, PTL DEF KSpec

------------------------------------------------------------------------------
(* What a step of an undisturbed sweep does to what waits in one priority. *)
LEMMA SameOrder ==
  ASSUME NEW q \in Prios, UNCHANGED <<queue, kill>>
  PROVE  Waiting(q)' = Waiting(q)
BY DEF Waiting

\* between two queues the local queue is empty
LEMMA OnWaiting ==
  ASSUME TypeInv', KillType', kill'.tmp = <<>>, NEW q \in Prios
  PROVE  Waiting(q)' = queue'[q]
<1>1. queue'[q] \in Seq(Procs)
  BY DEF TypeInv, SchedType
<1> QED BY <1>1, ConcatEmptySeq DEF Waiting

LEMMA TakeOrder ==
  ASSUME RoomForAll, TypeInv, KillType, SweepInv, Alone,
         NEW c \in Cpus, KillTake(c), NEW q \in Prios
  PROVE  \/ Waiting(q)' = Waiting(q)
         \/ \E i \in DOMAIN Waiting(q) :
              /\ Waiting(q)[i] \in freed' \ freed
              /\ Waiting(q)' = Lists!RemoveAt(Waiting(q), i)
<1> USE DEF SweepInv
<1>1. kill'.prio = kill.prio
  BY TakeFacts
<1>2. CASE ~(kill.prio < MaxPrio)
  <2>1. queue' = queue /\ kill.prio # q
    BY <1>2, TakeListed, MlqAssumption DEF Prios
  <2> QED BY <1>1, <2>1 DEF Waiting
<1>3. CASE kill.prio < MaxPrio /\ kill.prio # q
  <2>1. Dequeued(Swept) \in Seq(Procs)
    BY TakeFacts, DequeuedSeq
  <2>2. queue'[q] = queue[q]
    BY <1>3, <2>1, TakeFacts, SweepFacts
  <2> QED BY <1>1, <1>3, <2>2 DEF Waiting
<1>4. CASE kill.prio = q
  <2> DEFINE s == kill.tmp
             t == queue[q]
  <2>0. kill.prio < MaxPrio
    BY <1>4, MlqAssumption DEF Prios
  <2>1. /\ s \in Seq(Procs) /\ t \in Seq(Procs) /\ t # <<>> /\ kill.proc = Head(t)
        /\ queue'[q] = Tail(t)
    <3>1. Dequeued(Swept) \in Seq(Procs)
      BY TakeFacts, DequeuedSeq
    <3> QED BY <1>4, <2>0, <3>1, WaitingSeq, TakeFacts, SweepFacts DEF Dequeued
  <2>2. Waiting(q) = s \o t /\ Waiting(q)' = kill'.tmp \o Tail(t)
    BY <1>1, <1>4, <2>1 DEF Waiting
  <2>3. CASE kill'.tmp = Append(kill.tmp, kill.proc)
    <3>1. Append(s, Head(t)) \o Tail(t) = s \o t
      BY <2>1, MoveHead
    <3> QED BY <2>1, <2>2, <2>3, <3>1
  <2>4. CASE kill.proc \in freed' \ freed /\ kill'.tmp = kill.tmp
    <3>1. PICK n \in DOMAIN (s \o t) : n = Len(s) + 1
      BY <2>1, MoveHead
    <3>2. (s \o t)[n] = Head(t) /\ s \o Tail(t) = Lists!RemoveAt(s \o t, n)
      BY <2>1, <3>1, MoveHead
    <3> HIDE DEF s, t
    <3>3. Waiting(q)' = Lists!RemoveAt(Waiting(q), n)
      BY <2>2, <2>4, <3>2 DEF s
    <3>4. n \in DOMAIN Waiting(q) /\ Waiting(q)[n] \in freed' \ freed
      BY <2>1, <2>2, <2>4, <3>1, <3>2
    <3> QED BY <3>3, <3>4
  <2> QED BY <2>0, <2>3, <2>4, KeptHeld
<1> QED BY <1>2, <1>3, <1>4

LEMMA SweepOrder ==
  ASSUME RoomForAll, TypeInv, KillType, SweepInv, Alone, [KNext]_kvars,
         NEW c \in Cpus, pc[c] = "kill", NEW q \in Prios
  PROVE  \/ Waiting(q)' = Waiting(q)
         \/ \E i \in DOMAIN Waiting(q) :
              /\ Waiting(q)[i] \in freed' \ freed
              /\ Waiting(q)' = Lists!RemoveAt(Waiting(q), i)
<1> USE DEF SweepInv
<1>0. TypeInv' /\ KillType'
  BY NextKillType
<1>1. CASE UNCHANGED kvars \/ ((LoaderWait \/ LoaderDone) /\ UNCHANGED killVars)
  <2>1. UNCHANGED <<queue, kill>>
    BY <1>1 DEF LoaderWait, LoaderDone, kvars, vars, killVars, schedVars
  <2> QED BY <2>1, SameOrder
<1>2. CASE KillFetch(c) \/ KillLeave(c)
  BY <1>2 DEF KillFetch, KillLeave, KillType, Waiting, vars, schedVars
<1>3. CASE KillSkip(c)
  <2>1. kill.tmp = <<>> /\ kill'.tmp = <<>> /\ queue' = queue
    BY <1>3 DEF KillSkip, On, NoKill, Sweeping, vars, schedVars
  <2> QED BY <1>0, <2>1, WaitingSeq, OnWaiting
<1>4. CASE KillStore(c)
  <2>1. kill'.tmp = <<>> /\ Waiting(q)' = queue'[q]
    BY <1>0, <1>4, StoreFacts, OnWaiting DEF On, NoKill
  <2>2. CASE kill.prio = q
    <3>1. kill.prio < MaxPrio
      BY <2>2, MlqAssumption DEF Prios
    <3>2. queue[q] = <<>> /\ queue'[q] = kill.tmp /\ kill.tmp \in Seq(Procs)
      BY <1>4, <2>2, <3>1, StoreFacts DEF KillType
    <3>3. Waiting(q) = kill.tmp
      BY <2>2, <3>2, ConcatEmptySeq DEF Waiting
    <3> QED BY <2>1, <3>2, <3>3
  <2>3. CASE kill.prio # q
    <3>1. queue'[q] = queue[q]
      BY <1>4, <2>3, StoreFacts
    <3> QED BY <2>1, <2>3, <3>1 DEF Waiting
  <2> QED BY <2>2, <2>3
<1>5. CASE KillEnd(c)
  <2>1. kill.prio # q /\ kill'.tmp = <<>> /\ queue' = queue
    BY <1>5, MlqAssumption DEF KillEnd, NoKill, KillType, Prios, schedVars
  <2> QED BY <1>0, <2>1, OnWaiting DEF Waiting
<1> QED BY <1>1, <1>2, <1>3, <1>4, <1>5, TakeOrder, AloneStep DEF SweepStep

\* nothing that waits, in the local queue or outside, has been freed
WaitsAlive == \A q \in Prios : \A i \in DOMAIN Waiting(q) : Waiting(q)[i] \notin freed

LEMMA WaitingAlive == TypeInv /\ KillType /\ SweepInv => WaitsAlive
<1> SUFFICES ASSUME TypeInv, KillType, SweepInv, NEW q \in Prios, NEW i \in DOMAIN Waiting(q)
             PROVE  Waiting(q)[i] \notin freed
  BY DEF WaitsAlive
<1>1. Waiting(q)[i] \in Procs
  BY WaitingSeq
<1>2. PICK p \in Procs : p = Waiting(q)[i]
  BY <1>1
<1>3. Queued(p) \/ Held(p)
  BY <1>2, WaitsPlaces DEF Waits
<1> QED BY <1>2, <1>3 DEF SweepInv, PlaceInv, Exclusive, HeldInv, Held

(* An undisturbed killall takes out of every ready queue what it frees,    *)
(* and nothing else, and does not change the order of the others.          *)
THEOREM OrderKeptAlone == RoomForAll /\ KSpec /\ []Alone => OrderKept
<1>1. RoomForAll /\ TypeInv /\ KillType /\ SweepInv /\ Alone /\ WaitsAlive' /\ [KNext]_kvars =>
        [\A c \in Cpus : pc[c] = "kill" /\ ~crashed' =>
           \A q \in Prios :
             /\ \A i \in DOMAIN Waiting(q)' : Waiting(q)'[i] \notin freed' \ freed
             /\ \/ UNCHANGED Waiting(q)
                \/ \E i \in DOMAIN Waiting(q) :
                     /\ Waiting(q)[i] \in freed' \ freed
                     /\ Waiting(q)' = Lists!RemoveAt(Waiting(q), i)]_kvars
  <2> SUFFICES ASSUME RoomForAll, TypeInv, KillType, SweepInv, Alone, WaitsAlive', [KNext]_kvars,
                      NEW c \in Cpus, pc[c] = "kill", NEW q \in Prios
               PROVE  /\ \A i \in DOMAIN Waiting(q)' : Waiting(q)'[i] \notin freed' \ freed
                      /\ \/ UNCHANGED Waiting(q)
                         \/ \E i \in DOMAIN Waiting(q) :
                              /\ Waiting(q)[i] \in freed' \ freed
                              /\ Waiting(q)' = Lists!RemoveAt(Waiting(q), i)
    OBVIOUS
  <2> QED BY SweepOrder DEF WaitsAlive
<1>2. RoomForAll /\ [KNext]_kvars => RoomForAll'
  BY DEF RoomForAll
<1> QED
  BY <1>1, <1>2, WaitingAlive, InitKill, NextKillType, InitSweep, NextSweep, PTL DEF KSpec, OrderKept

------------------------------------------------------------------------------
(* The others finish.  A CPU in killall will search again, so a process    *)
(* that waits meanwhile is not left behind, and no search is under way.    *)
LEMMA KillScan ==
  TypeInv /\ SweepInv /\ Alone /\ LockInv /\ ScanInv /\ [KNext]_kvars => LockInv' /\ ScanInv'
<1> SUFFICES ASSUME TypeInv, SweepInv, Alone, LockInv, ScanInv, [KNext]_kvars
             PROVE  LockInv' /\ ScanInv'
  OBVIOUS
<1>1. CASE [Next]_vars /\ UNCHANGED killVars
  BY <1>1, NextScan
<1>2. ASSUME NEW c \in Cpus, KillBegin(c) PROVE LockInv' /\ ScanInv'
  <2>1. /\ pc[c] # "locked" /\ pc'[c] = "kill" /\ UNCHANGED <<scan, queue>>
        /\ \A d \in Cpus : d # c => pc'[d] = pc[d]
    BY <1>2 DEF KillBegin, Calls, AtRun, AtTop, Goto, schedVars, TypeInv, CpuType
  <2> QED BY <2>1 DEF LockInv, ScanInv
<1>3. ASSUME NEW c \in Cpus, SweepStep(c) \/ KillEnd(c) PROVE LockInv' /\ ScanInv'
  <2>1. pc[c] = "kill" /\ scan' = scan
    BY <1>3, SweepFrame DEF KillEnd, schedVars
  <2>2. \A d \in Cpus : pc[d] # "locked"
    BY <2>1 DEF Alone, SweepInv, Busy
  <2>3. \A d \in Cpus : pc'[d] # "locked"
    BY <1>3, <2>2, SweepFrame DEF KillEnd, Goto, cpuVars, TypeInv, CpuType
  <2>4. scan' = ScanStart
    BY <2>1, <2>2 DEF LockInv
  <2> QED BY <2>3, <2>4, MlqAssumption DEF LockInv, ScanInv, ScanStart, Prios
<1> QED BY <1>1, <1>2, <1>3, KStepCases

LEMMA KillEnds == TypeInv /\ Ends /\ [KNext]_kvars => Ends'
<1> SUFFICES ASSUME TypeInv, Ends, [KNext]_kvars PROVE Ends'
  OBVIOUS
<1>1. CASE [Next]_vars /\ UNCHANGED killVars
  BY <1>1, NextEnds
<1>2. ASSUME NEW c \in Cpus, KillBegin(c) \/ SweepStep(c) \/ KillEnd(c) PROVE Ends'
  <2>1. UNCHANGED <<ldpc, loading, done, proc>> /\ \A d \in Cpus : pc'[d] = "stopped" => pc[d] = "stopped"
    BY <1>2, SweepFrame DEF KillBegin, KillEnd, Goto, cpuVars, ldVars, TypeInv, CpuType
  <2> QED BY <2>1 DEF Ends
<1> QED BY <1>1, <1>2, KStepCases

LEMMA KillServed ==
  Cpus # {} /\ TypeInv /\ SweepInv /\ Ends /\ ScanInv /\ Served /\ [KNext]_kvars => Served'
<1> SUFFICES ASSUME Cpus # {}, TypeInv, SweepInv, Ends, ScanInv, Served, [KNext]_kvars
             PROVE  Served'
  OBVIOUS
<1>1. CASE [Next]_vars /\ UNCHANGED killVars
  BY <1>1, NextServed DEF SweepInv
<1>2. ASSUME NEW c \in Cpus, KillBegin(c) \/ SweepStep(c) \/ KillEnd(c) PROVE Served'
  <2>1. pc'[c] \in {"kill", "top"}
    BY <1>2, SweepFrame DEF KillBegin, KillEnd, Goto, cpuVars, TypeInv, CpuType
  <2>2. Alive(c)'
    BY <2>1 DEF Alive
  <2> QED BY <2>2 DEF Served
<1> QED BY <1>1, <1>2, KStepCases

(* When every thread has left its loop, every process has been freed, and  *)
(* those that killall does not match have run to their last instruction.   *)
SurvivorsDone ==
  AllStopped => freed = Procs /\ \A p \in Procs : Hit(p) \/ insn[p] = CodeSize[p]

(* A killall takes no work away but what it kills: with an undisturbed one *)
(* everything else that was loaded still runs to its end.                  *)
THEOREM WorkFinishedKill ==
  Cpus # {} /\ RoomForAll /\ KSpec /\ []Alone => []SurvivorsDone
<1> DEFINE Inv == /\ TypeInv /\ KillType /\ SweepInv /\ FreedWhy /\ HereInv
                  /\ LockInv /\ ScanInv /\ Ends /\ Served
           Bounds == Cpus # {} /\ RoomForAll
<1>1. Inv => SurvivorsDone
  <2> SUFFICES ASSUME Inv, AllStopped
               PROVE  freed = Procs /\ \A p \in Procs : Hit(p) \/ insn[p] = CodeSize[p]
    BY DEF SurvivorsDone
  <2>1. \A c \in Cpus : ~Alive(c) /\ proc[c] = None /\ pc[c] # "kill"
    BY DEF AllStopped, Alive, Ends
  <2>2. \A p \in Procs : ~Queued(p)
    BY <2>1 DEF Served, AllStopped, Ends
  <2>3. \A p \in Procs : p < loading
    BY MlqAssumption DEF AllStopped, Ends, Procs
  <2>4. \A p \in Procs : ~Held(p)
    BY <2>1 DEF SweepInv, Sweeping, NoKill, Held
  <2>5. \A p \in Procs : p \in freed
    BY <2>1, <2>2, <2>3, <2>4 DEF HereInv, Somewhere, Owns, None, Procs
  <2> QED BY <2>5 DEF TypeInv, ProcType, FreedWhy
<1>2. KInit => Inv
  BY InitKill, InitSweep, InitFreed, InitHere, InitKillSlots, InitEnds DEF KInit
<1>3. Bounds /\ Inv /\ Alone /\ [KNext]_kvars => Inv'
  BY NextKillType, NextSweep, NextFreed, NextHere, KillScan, KillEnds, KillServed
<1>4. Bounds /\ [KNext]_kvars => Bounds'
  BY DEF RoomForAll
<1> QED BY <1>1, <1>2, <1>3, <1>4, PTL DEF KSpec

------------------------------------------------------------------------------
(* The call comes after the last process was loaded.                       *)
AfterLoading == \A c \in Cpus : pc[c] = "kill" => loading > NumProcs

CallInv ==
  /\ ldpc = "add" => loading <= NumProcs
  /\ \A c \in Cpus : pc[c] = "kill" => proc[c] = Killer

LEMMA InitCall == KInit => CallInv
BY DEF KInit, Init, CallInv

LEMMA NextCall == TypeInv /\ CallInv /\ [KNext]_kvars => CallInv'
<1> SUFFICES ASSUME TypeInv, CallInv, [KNext]_kvars PROVE CallInv'
  OBVIOUS
<1> USE DEF TypeInv, CpuType, Goto
<1>1. CASE TimerTick \/ LoaderStep \/ UNCHANGED vars
  BY <1>1 DEF TimerTick, LoaderStep, LoaderWait, LoaderEnlist, LoaderAdd, LoaderDone, AtLoad,
     vars, cpuVars, ldVars, CallInv
<1>2. ASSUME NEW c \in Cpus, CpuStep(c) PROVE CallInv'
  <2>1. /\ UNCHANGED ldVars /\ pc[c] # "kill" /\ pc'[c] # "kill"
        /\ \A d \in Cpus : d # c => pc'[d] = pc[d] /\ proc'[d] = proc[d]
    BY <1>2 DEF CpuStep, FinishLoad, FinishStore, PutRunning, PutReady, PutLoad, PutStore,
       ScanTake, ScanPass, ScanNone, Scanning, Got, GetSlot, Idle, Run, AtRun, AtTop
  <2> QED BY <2>1 DEF ldVars, CallInv
<1>3. ASSUME NEW c \in Cpus, KillBegin(c) PROVE CallInv'
  BY <1>3 DEF KillBegin, Calls, ldVars, CallInv
<1>4. ASSUME NEW c \in Cpus, SweepStep(c) PROVE CallInv'
  BY <1>4, SweepFrame DEF cpuVars, ldVars, CallInv
<1>5. ASSUME NEW c \in Cpus, KillEnd(c) PROVE CallInv'
  BY <1>5 DEF KillEnd, ldVars, CallInv
<1> QED BY <1>1, <1>2, <1>3, <1>4, <1>5, KStepCases DEF Next, Exit

(* When a sweep is undisturbed for certain: with one CPU, if the call      *)
(* comes after the last process was loaded and does not name its caller.   *)
THEOREM AloneOneCpu == OneCpu /\ ~Hit(Killer) /\ KSpec /\ []AfterLoading => []Alone
<1>1. OneCpu /\ ~Hit(Killer) /\ TypeInv /\ CallInv /\ AfterLoading => Alone
  <2> SUFFICES ASSUME OneCpu, ~Hit(Killer), TypeInv, CallInv, AfterLoading,
                      NEW c \in Cpus, pc[c] = "kill"
               PROVE  /\ \A d \in Cpus : d = c
                      /\ ldpc # "add" /\ loading > NumProcs
                      /\ ~Hit(proc[c])
    BY DEF Alone
  <2>1. loading \in Nat /\ NumProcs \in Nat
    BY MlqAssumption DEF TypeInv, LoaderType
  <2> QED BY <2>1 DEF OneCpu, CallInv, AfterLoading
<1>2. ~Hit(Killer) /\ [KNext]_kvars => (~Hit(Killer))'
  BY DEF Hit
<1> QED
  BY <1>1, <1>2, OneCpuKept, InitKill, NextKillType, InitCall, NextCall, PTL DEF KSpec
==============================================================================
