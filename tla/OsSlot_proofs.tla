----------------------------- MODULE OsSlot_proofs -----------------------------
(***************************************************************************)
(* The slot policy of sched.c in Os.tla, with one CPU and any number of    *)
(* processes, priorities and turns in a time slice.                        *)
(*                                                                         *)
(* slot[] is read by get_slot at dispatch and written by update_slot when  *)
(* the process leaves the CPU.  With one CPU nothing charges or refills a  *)
(* priority in between, so that what was read is still true (Budget); and  *)
(* nothing is enqueued or charged during a search, so that what it has     *)
(* passed stays passed (PassedInv).                                        *)
(***************************************************************************)
EXTENDS Os_proofs

OneCpu == \A c, d \in Cpus : c = d

(* A process waits in the queue of its priority.                           *)
Ranked == \A q \in Prios : \A i \in DOMAIN queue[q] : Prio[queue[q][i]] = q

LEMMA InitRanked == Init => Ranked
BY DEF Init, SchedInit, Ranked

LEMMA PutRanked ==
  ASSUME TypeInv, Ranked, NEW p \in Procs, EnqueueReady(p)
  PROVE  Ranked'
<1> DEFINE q == queue[Prio[p]]
<1>1. Prio[p] \in Prios /\ q \in Seq(Procs) /\ queue \in [Prios -> Seq(Procs)]
  BY MlqAssumption DEF TypeInv, SchedType
<1>2. \A i \in DOMAIN q : Prio[q[i]] = Prio[p]
  BY <1>1 DEF Ranked
<1>3. \A i \in DOMAIN Append(q, p) : Prio[Append(q, p)[i]] = Prio[p]
  <2> HIDE DEF q
  <2> QED BY <1>1, <1>2
<1>4. /\ queue'[Prio[p]] \in {q, Append(q, p)}
      /\ \A r \in Prios : r # Prio[p] => queue'[r] = queue[r]
  BY <1>1 DEF EnqueueReady, Enqueue
<1> HIDE DEF q
<1> QED BY <1>2, <1>3, <1>4 DEF Ranked

LEMMA TakeRanked ==
  ASSUME TypeInv, Ranked, NEW l \in Prios, queue[l] # <<>>,
         queue' = [queue EXCEPT ![l] = Dequeued(@)]
  PROVE  Ranked' /\ Head(queue[l]) \in Procs /\ Prio[Head(queue[l])] = l
<1> DEFINE q == queue[l]
<1>1. q \in Seq(Procs) /\ queue \in [Prios -> Seq(Procs)] /\ q # <<>>
  BY DEF TypeInv, SchedType
<1>2. \A i \in DOMAIN q : Prio[q[i]] = l
  BY DEF Ranked
<1>3. /\ \A i \in DOMAIN Tail(q) : Prio[Tail(q)[i]] = l
      /\ Head(q) \in Procs /\ Prio[Head(q)] = l
  <2> HIDE DEF q
  <2>1. /\ DOMAIN q = 1 .. Len(q) /\ Len(q) \in Nat /\ 1 \in DOMAIN q
        /\ DOMAIN Tail(q) = 1 .. Len(q) - 1 /\ Head(q) = q[1]
        /\ \A i \in 1 .. Len(q) - 1 : Tail(q)[i] = q[i + 1]
    BY <1>1
  <2> QED BY <1>1, <1>2, <2>1
<1>4. queue'[l] = Tail(q) /\ \A r \in Prios : r # l => queue'[r] = queue[r]
  BY <1>1 DEF Dequeued
<1> HIDE DEF q
<1>5. Ranked'
  <2> SUFFICES ASSUME NEW r \in Prios, NEW i \in DOMAIN queue'[r] PROVE Prio[queue'[r][i]] = r
    BY DEF Ranked
  <2>1. CASE r = l
    <3>1. queue'[r] = Tail(q)
      BY <1>4, <2>1
    <3> QED BY <1>3, <2>1, <3>1
  <2>2. CASE r # l
    BY <1>4, <2>2 DEF Ranked
  <2> QED BY <2>1, <2>2
<1> QED BY <1>3, <1>5 DEF q

LEMMA NextRanked == TypeInv /\ Ranked /\ [Next]_vars => Ranked'
<1> SUFFICES ASSUME TypeInv, Ranked, [Next]_vars PROVE Ranked'
  OBVIOUS
<1>1. ASSUME queue' = queue PROVE Ranked'
  BY <1>1 DEF Ranked
<1>2. CASE LoaderStep
  <2>1. CASE LoaderAdd
    <3>1. loading \in Procs
      BY <2>1, MlqAssumption DEF LoaderAdd, TypeInv, LoaderType, Procs
    <3> QED BY <2>1, <3>1, PutRanked DEF LoaderAdd
  <2> QED BY <1>1, <1>2, <2>1 DEF LoaderStep, LoaderWait, LoaderEnlist, LoaderDone,
                                  EnlistRunning, schedVars
<1>3. ASSUME NEW c \in Cpus, CpuStep(c) PROVE Ranked'
  <2>1. CASE PutReady(c)
    <3>1. proc[c] \in Procs
      BY <2>1 DEF PutReady, TypeInv, CpuType
    <3> QED BY <2>1, <3>1, PutRanked DEF PutReady
  <2>2. CASE ScanTake(c)
    <3>1. scan.prio \in Prios /\ queue[scan.prio] # <<>>
          /\ queue' = [queue EXCEPT ![scan.prio] = Dequeued(@)]
      BY <2>2 DEF ScanTake, Take, CanTake, TypeInv, SchedType
    <3> QED BY <3>1, TakeRanked
  <2>3. CASE ~PutReady(c) /\ ~ScanTake(c)
    BY <1>1, <1>3, <2>3 DEF CpuStep, FinishLoad, FinishStore, PutRunning, PutLoad, PutStore,
       ScanPass, ScanNone, GetSlot, Idle, Run, EnlistRunning, StoreSlot, PassSpent, PassEmpty,
       MoveOn, GiveUp, schedVars
  <2> QED BY <2>1, <2>2, <2>3
<1> QED BY <1>1, <1>2, <1>3 DEF Next, Exit, TimerTick, vars, schedVars

(* What the slots and times of a CPU satisfy, by where it is.  The process *)
(* has been given no more turns than its priority had left.                *)
Budget(c) ==
  /\ useTime[c] \in 0 .. TimeSlice
  /\ pc[c] \notin {"top", "fin", "kill"} => timeLeft[c] = 0
  /\ pc[c] \in {"top", "kill"} =>
       /\ timeLeft[c] >= 0
       /\ proc[c] = None => timeLeft[c] = 0
       /\ proc[c] # None => /\ useTime[c] + timeLeft[c] <= SlotOf(proc[c])
                            /\ useTime[c] + timeLeft[c] <= TimeSlice
  /\ pc[c] \in {"fin", "put", "charge", "store"} => useTime[c] <= SlotOf(proc[c])
  /\ pc[c] \in {"fin", "store"} => loaded[c] = SlotOf(proc[c])
  /\ pc[c] = "got" /\ proc[c] # None => SlotOf(proc[c]) > 0
  /\ pc[c] = "run" => remaining[c] = SlotOf(proc[c]) /\ remaining[c] > 0

SlotInv == SlotBounds /\ \A c \in Cpus : Budget(c)

LEMMA FullBounds ==
  \A q \in Prios : FullSlots[q] \in 0 .. MaxPrio - q
BY MlqAssumption DEF FullSlots, Prios

LEMMA InitSlots == Init => SlotInv
<1> SUFFICES ASSUME Init PROVE SlotInv
  OBVIOUS
<1>1. SlotBounds
  BY FullBounds DEF Init, SchedInit, SlotBounds
<1>2. \A c \in Cpus : Budget(c)
  BY OsAssumption DEF Init, Budget
<1> QED BY <1>1, <1>2 DEF SlotInv

(* What TypeInv says of one CPU.                                           *)
LEMMA CpuFacts ==
  ASSUME TypeInv, NEW c \in Cpus
  PROVE  /\ proc[c] \in Procs \cup {None}
         /\ pc[c] \in {"fin", "put", "charge", "store", "run"} => proc[c] \in Procs
         /\ timeLeft[c] \in Int /\ useTime[c] \in Int /\ remaining[c] \in Int /\ loaded[c] \in Int
         /\ \A p \in Procs : Prio[p] \in Prios /\ SlotOf(p) = slot[Prio[p]]
         /\ slot \in [Prios -> Int] /\ TimeSlice \in Nat /\ TimeSlice > 0
BY MlqAssumption, OsAssumption DEF TypeInv, CpuType, SchedType, SlotOf

(* update_slot takes what was used from what is left.                      *)
LEMMA StoreSlots ==
  ASSUME NEW c \in Cpus, TypeInv, SlotInv, FinishStore(c) \/ PutStore(c)
  PROVE  /\ SlotBounds' /\ Budget(c)'
         /\ \A q \in Prios : slot'[q] <= slot[q]
<1> DEFINE p == proc[c]
           q == Prio[p]
<1>1. /\ p \in Procs /\ loaded[c] = slot[q] /\ useTime[c] \in 0 .. TimeSlice /\ useTime[c] <= slot[q]
      /\ slot \in [Prios -> Int] /\ q \in Prios /\ slot[q] \in Int /\ timeLeft[c] \in Int
  BY CpuFacts DEF FinishStore, PutStore, SlotInv, Budget
<1>2. slot' = [slot EXCEPT ![q] = loaded[c] - useTime[c]]
  BY DEF FinishStore, PutStore, StoreSlot, Charged
<1>3. slot'[q] = slot[q] - useTime[c] /\ \A r \in Prios : r # q => slot'[r] = slot[r]
  BY <1>1, <1>2
<1>4. useTime[c] \in Nat /\ slot[q] \in 0 .. MaxPrio - q /\ MaxPrio - q \in Int
  BY <1>1, MlqAssumption DEF SlotInv, SlotBounds, Prios
<1>5. slot'[q] \in 0 .. MaxPrio - q /\ slot'[q] <= slot[q]
  <2> HIDE DEF q
  <2> QED BY <1>1, <1>3, <1>4
<1>6. SlotBounds' /\ \A r \in Prios : slot'[r] <= slot[r]
  <2>1. \A r \in Prios : slot[r] \in Int
    BY <1>1
  <2> QED BY <1>3, <1>5, <2>1 DEF SlotInv, SlotBounds
<1>7. pc'[c] = "get" /\ timeLeft'[c] = 0 /\ useTime'[c] \in 0 .. TimeSlice
  <2>1. pc[c] \in Labels /\ pc' = [pc EXCEPT ![c] = "get"] /\ pc \in [Cpus -> Labels]
        /\ timeLeft \in [Cpus -> Int] /\ useTime \in [Cpus -> Int]
    BY DEF FinishStore, PutStore, Goto, TypeInv, CpuType
  <2>2. CASE FinishStore(c)
    BY <2>1, <2>2, OsAssumption DEF FinishStore
  <2>3. CASE PutStore(c)
    BY <1>1, <2>1, <2>3 DEF PutStore, SlotInv, Budget
  <2> QED BY <2>2, <2>3
<1>8. Budget(c)'
  BY <1>7 DEF Budget
<1> QED BY <1>6, <1>8

(* A dispatched process comes from the queue of its priority, which has    *)
(* turns left.                                                             *)
LEMMA TakeSlots ==
  ASSUME NEW c \in Cpus, TypeInv, Ranked, ScanTake(c)
  PROVE  /\ proc'[c] \in Procs /\ Prio[proc'[c]] = scan.prio
         /\ slot[scan.prio] > 0 /\ slot' = slot /\ scan.prio \in Prios
<1>1. /\ queue[scan.prio] # <<>> /\ queue' = [queue EXCEPT ![scan.prio] = Dequeued(@)]
      /\ slot[scan.prio] > 0 /\ slot' = slot /\ scan.prio \in Prios
      /\ proc'[c] = Head(queue[scan.prio])
  BY DEF ScanTake, Take, CanTake, Got, Taken, TypeInv, SchedType, CpuType
<1> QED BY <1>1, TakeRanked

(* A turn on the CPU: the budget that is used and the one that is left     *)
(* add up to what was granted.                                             *)
LEMMA RunSlots ==
  ASSUME NEW c \in Cpus, TypeInv, SlotInv, AtRun(c), Spend(c), UNCHANGED <<slot, proc>>,
         Goto(c, "top") \/ Goto(c, "kill")
  PROVE  Budget(c)'
<1>1. /\ proc[c] \in Procs \cup {None} /\ timeLeft[c] \in Int /\ useTime[c] \in Int
      /\ remaining[c] \in Int /\ TimeSlice \in Nat /\ TimeSlice > 0
      /\ timeLeft \in [Cpus -> Int] /\ useTime \in [Cpus -> Int] /\ pc \in [Cpus -> Labels]
      /\ proc[c] # None => SlotOf(proc[c]) \in Int
  BY CpuFacts DEF TypeInv, CpuType, None
<1>2. proc[c] # None /\ proc' = proc /\ slot' = slot /\ pc'[c] \in {"top", "kill"}
  BY <1>1 DEF AtRun, Goto, TypeInv, CpuType
<1>3. /\ timeLeft'[c] = (IF timeLeft[c] = 0 THEN Grant(c) ELSE timeLeft[c]) - 1
      /\ useTime'[c] = (IF timeLeft[c] = 0 THEN 0 ELSE useTime[c]) + 1
  BY <1>1 DEF Spend
<1>4. CASE pc[c] = "run"
  <2>1. timeLeft[c] = 0 /\ remaining[c] = SlotOf(proc[c]) /\ remaining[c] > 0
    BY <1>4 DEF SlotInv, Budget
  <2>2. Grant(c) \in Int /\ Grant(c) <= TimeSlice /\ Grant(c) <= remaining[c] /\ Grant(c) >= 1
    BY <1>1, <2>1 DEF Grant
  <2>3. timeLeft'[c] = Grant(c) - 1 /\ useTime'[c] = 1
    BY <1>3, <2>1
  <2>4. /\ timeLeft'[c] >= 0 /\ useTime'[c] + timeLeft'[c] = Grant(c) /\ useTime'[c] \in 0 .. TimeSlice
    BY <1>1, <2>2, <2>3
  <2>5. useTime'[c] + timeLeft'[c] <= SlotOf(proc[c]) /\ useTime'[c] + timeLeft'[c] <= TimeSlice
    BY <2>1, <2>2, <2>4
  <2> QED BY <1>2, <2>4, <2>5 DEF Budget, SlotOf
<1>5. CASE pc[c] # "run"
  <2>1. /\ pc[c] = "top" /\ timeLeft[c] # 0 /\ timeLeft[c] >= 0
        /\ useTime[c] + timeLeft[c] <= SlotOf(proc[c])
        /\ useTime[c] + timeLeft[c] <= TimeSlice /\ useTime[c] \in 0 .. TimeSlice
    BY <1>2, <1>5 DEF AtRun, AtTop, SlotInv, Budget
  <2>2. timeLeft'[c] = timeLeft[c] - 1 /\ useTime'[c] = useTime[c] + 1
    BY <1>3, <2>1
  <2>3. /\ timeLeft'[c] >= 0 /\ useTime'[c] + timeLeft'[c] = useTime[c] + timeLeft[c]
        /\ useTime'[c] \in 0 .. TimeSlice
    BY <1>1, <2>1, <2>2
  <2> QED BY <1>2, <2>1, <2>3 DEF Budget, SlotOf
<1> QED BY <1>4, <1>5

(* The search: refills keep the bounds, and the CPU that searches has no   *)
(* time left.                                                              *)
LEMMA PassSlots ==
  ASSUME NEW c \in Cpus, TypeInv, SlotInv, ScanPass(c)
  PROVE  SlotBounds' /\ Budget(c)'
<1>1. slot' = FullSlots \/ slot' = slot
  BY DEF ScanPass, PassSpent, PassEmpty, MoveOn
<1>2. SlotBounds'
  BY <1>1, FullBounds DEF SlotInv, SlotBounds
<1>3. pc'[c] = "locked" /\ timeLeft' = timeLeft /\ useTime' = useTime
  BY DEF ScanPass, Goto, TypeInv, CpuType
<1>4. timeLeft[c] = 0 /\ useTime[c] \in 0 .. TimeSlice
  BY DEF ScanPass, Scanning, AtTop, SlotInv, Budget
<1>5. Budget(c)'
  BY <1>3, <1>4 DEF Budget
<1> QED BY <1>2, <1>5

(* Steps of the CPU that leave slot[] alone.                               *)
LEMMA OtherSlots ==
  ASSUME NEW c \in Cpus, TypeInv, Ranked, SlotInv,
         \/ FinishLoad(c) \/ PutRunning(c) \/ PutReady(c) \/ PutLoad(c)
         \/ ScanTake(c) \/ ScanNone(c) \/ GetSlot(c) \/ Idle(c)
  PROVE  slot' = slot /\ Budget(c)'
<1>1. /\ pc \in [Cpus -> Labels] /\ loaded \in [Cpus -> Int] /\ remaining \in [Cpus -> Int]
      /\ proc \in [Cpus -> Procs \cup {None}] /\ Budget(c)
      /\ timeLeft[c] \in Int /\ useTime[c] \in Int
      /\ \A p \in Procs : SlotOf(p) \in Int
  BY CpuFacts DEF TypeInv, CpuType, SlotInv
<1>2. CASE FinishLoad(c)
  <2>1. /\ pc'[c] = "fin" /\ loaded'[c] = SlotOf(proc[c]) /\ slot' = slot /\ proc' = proc
        /\ timeLeft' = timeLeft /\ useTime' = useTime /\ pc[c] = "top" /\ proc[c] \in Procs
    BY <1>1, <1>2 DEF FinishLoad, Goto, AtTop, schedVars
  <2>2. useTime[c] <= SlotOf(proc[c]) /\ useTime[c] \in 0 .. TimeSlice
    <3>1. useTime[c] + timeLeft[c] <= SlotOf(proc[c]) /\ timeLeft[c] >= 0 /\ useTime[c] \in 0 .. TimeSlice
      BY <1>1, <2>1 DEF Budget, None, Procs
    <3> QED BY <1>1, <2>1, <3>1
  <2> QED BY <2>1, <2>2 DEF Budget, SlotOf
<1>3. CASE PutRunning(c)
  <2>1. /\ pc'[c] = "put" /\ slot' = slot /\ proc' = proc
        /\ timeLeft' = timeLeft /\ useTime' = useTime /\ pc[c] = "top" /\ proc[c] # None
        /\ timeLeft[c] = 0 /\ proc[c] \in Procs
    BY <1>1, <1>3 DEF PutRunning, EnlistRunning, Goto, AtTop
  <2>2. useTime[c] + timeLeft[c] <= SlotOf(proc[c]) /\ useTime[c] \in 0 .. TimeSlice
    BY <1>1, <2>1 DEF Budget
  <2>3. useTime[c] <= SlotOf(proc[c])
    BY <1>1, <2>1, <2>2
  <2> QED BY <2>1, <2>2, <2>3 DEF Budget, SlotOf
<1>4. CASE PutReady(c)
  <2>1. /\ pc'[c] = "charge" /\ slot' = slot /\ proc' = proc
        /\ timeLeft' = timeLeft /\ useTime' = useTime /\ pc[c] = "put"
    BY <1>1, <1>4 DEF PutReady, EnqueueReady, Goto
  <2> QED BY <1>1, <2>1 DEF Budget, SlotOf
<1>5. CASE PutLoad(c)
  <2>1. /\ pc'[c] = "store" /\ slot' = slot /\ proc' = proc /\ loaded'[c] = SlotOf(proc[c])
        /\ timeLeft' = timeLeft /\ useTime' = useTime /\ pc[c] = "charge"
    BY <1>1, <1>5 DEF PutLoad, Goto, schedVars
  <2> QED BY <1>1, <2>1 DEF Budget, SlotOf
<1>6. CASE ScanTake(c)
  <2>1. /\ proc'[c] \in Procs /\ Prio[proc'[c]] = scan.prio /\ slot[scan.prio] > 0 /\ slot' = slot
    BY <1>6, TakeSlots
  <2>2. pc'[c] = "got" /\ timeLeft' = timeLeft /\ useTime' = useTime
    BY <1>1, <1>6 DEF ScanTake, Got, Goto
  <2>3. timeLeft[c] = 0 /\ useTime[c] \in 0 .. TimeSlice
    BY <1>1, <1>6 DEF ScanTake, Scanning, AtTop, Budget
  <2> QED BY <2>1, <2>2, <2>3 DEF Budget, SlotOf
<1>7. CASE ScanNone(c)
  <2>1. pc'[c] = "got" /\ proc'[c] = None /\ timeLeft' = timeLeft /\ useTime' = useTime /\ slot' = slot
    BY <1>1, <1>7 DEF ScanNone, GiveUp, Got, Goto
  <2>2. timeLeft[c] = 0 /\ useTime[c] \in 0 .. TimeSlice
    BY <1>1, <1>7 DEF ScanNone, Scanning, AtTop, Budget
  <2> QED BY <2>1, <2>2 DEF Budget
<1>8. CASE GetSlot(c)
  <2>1. /\ pc'[c] = "run" /\ remaining'[c] = SlotOf(proc[c]) /\ slot' = slot /\ proc' = proc
        /\ timeLeft' = timeLeft /\ useTime' = useTime /\ pc[c] = "got" /\ proc[c] # None
    BY <1>1, <1>8 DEF GetSlot, Goto, schedVars
  <2> QED BY <1>1, <2>1 DEF Budget, SlotOf
<1>9. CASE Idle(c)
  <2>1. /\ pc'[c] \in {"top", "stopped"} /\ proc[c] = None /\ slot' = slot /\ proc' = proc
        /\ timeLeft' = timeLeft /\ useTime' = useTime /\ pc[c] = "got"
    BY <1>1, <1>9 DEF Idle, Goto, schedVars
  <2> QED BY <1>1, <2>1 DEF Budget
<1> QED BY <1>2, <1>3, <1>4, <1>5, <1>6, <1>7, <1>8, <1>9

LEMMA NextSlots ==
  OneCpu /\ TypeInv /\ Ranked /\ SlotInv /\ [Next]_vars => SlotInv'
<1> SUFFICES ASSUME OneCpu, TypeInv, Ranked, SlotInv, [Next]_vars PROVE SlotInv'
  OBVIOUS
<1>1. ASSUME UNCHANGED <<slot, cpuVars>> PROVE SlotInv'
  BY <1>1 DEF SlotInv, SlotBounds, Budget, SlotOf, cpuVars
<1>2. CASE TimerTick \/ LoaderStep
  BY <1>1, <1>2 DEF TimerTick, LoaderStep, LoaderWait, LoaderEnlist, LoaderAdd, LoaderDone,
                    EnlistRunning, EnqueueReady, schedVars
<1>3. ASSUME NEW c \in Cpus, CpuStep(c) PROVE SlotInv'
  <2> SUFFICES SlotBounds' /\ Budget(c)'
    BY DEF SlotInv, OneCpu
  <2>1. CASE FinishStore(c) \/ PutStore(c)
    BY <2>1, StoreSlots
  <2>2. CASE ScanPass(c)
    BY <2>2, PassSlots
  <2>3. CASE Run(c)
    <3>1. slot' = slot
      BY <2>3 DEF Run, schedVars
    <3> QED BY <2>3, <3>1, RunSlots DEF Run, SlotInv, SlotBounds
  <2>4. CASE \/ FinishLoad(c) \/ PutRunning(c) \/ PutReady(c) \/ PutLoad(c)
             \/ ScanTake(c) \/ ScanNone(c) \/ GetSlot(c) \/ Idle(c)
    BY <2>4, OtherSlots DEF SlotInv, SlotBounds
  <2> QED BY <1>3, <2>1, <2>2, <2>3, <2>4 DEF CpuStep
<1>4. CASE UNCHANGED vars
  BY <1>1, <1>4 DEF vars, schedVars
<1> QED BY <1>2, <1>3, <1>4 DEF Next, Exit

(* With one CPU the slots of a priority stay between 0 and its share: it   *)
(* is never charged for more turns than it had.                            *)
THEOREM SlotBoundsOneCpu == OneCpu /\ Spec => []SlotBounds
<1>1. OneCpu /\ TypeInv /\ Ranked /\ SlotInv /\ [Next]_vars => SlotInv'
  BY NextSlots
<1>2. OneCpu /\ [Next]_vars => OneCpu'
  BY DEF OneCpu
<1>3. SlotInv => SlotBounds
  BY DEF SlotInv
<1> QED
  BY <1>1, <1>2, <1>3, InitType, NextType, InitRanked, NextRanked, InitSlots, PTL DEF Spec

(* With one CPU the time slice granted at dispatch stays within the slots  *)
(* that the priority has left.                                             *)
THEOREM WithinBudgetOneCpu == OneCpu /\ Spec => []WithinBudget
<1>1. OneCpu /\ TypeInv /\ Ranked /\ SlotInv /\ [Next]_vars => SlotInv'
  BY NextSlots
<1>2. OneCpu /\ [Next]_vars => OneCpu'
  BY DEF OneCpu
<1>3. SlotInv => WithinBudget
  BY DEF SlotInv, Budget, WithinBudget
<1> QED
  BY <1>1, <1>2, <1>3, InitType, NextType, InitRanked, NextRanked, InitSlots, PTL DEF Spec

(* With one CPU a process runs for one time slice at most between two      *)
(* dispatches.                                                             *)
THEOREM WithinSliceOneCpu == OneCpu /\ Spec => []WithinSlice
<1>1. OneCpu /\ TypeInv /\ Ranked /\ SlotInv /\ [Next]_vars => SlotInv'
  BY NextSlots
<1>2. OneCpu /\ [Next]_vars => OneCpu'
  BY DEF OneCpu
<1>3. SlotInv => WithinSlice
  BY DEF SlotInv, Budget, WithinSlice
<1> QED
  BY <1>1, <1>2, <1>3, InitType, NextType, InitRanked, NextRanked, InitSlots, PTL DEF Spec

------------------------------------------------------------------------------
(* What a search has passed is empty or has used its slots up.             *)
PassedInv == \A q \in Prios : q < scan.prio => queue[q] = <<>> \/ slot[q] <= 0

LEMMA NextPassed ==
  OneCpu /\ TypeInv /\ LockInv /\ PassedInv /\ [Next]_vars => PassedInv'
<1> SUFFICES ASSUME OneCpu, TypeInv, LockInv, PassedInv, [Next]_vars PROVE PassedInv'
  OBVIOUS
<1>1. ASSUME UNCHANGED <<queue, slot, scan>> PROVE PassedInv'
  BY <1>1 DEF PassedInv
<1>2. ASSUME scan' = ScanStart PROVE PassedInv'
  BY <1>2, MlqAssumption DEF PassedInv, ScanStart, Prios
<1>3. CASE TimerTick \/ LoaderStep
  <2>1. CASE LoaderAdd
    <3>1. scan = ScanStart /\ scan' = scan
      BY <2>1, OsAssumption DEF LoaderAdd, LockFreeFor, LockInv, EnqueueReady
    <3> QED BY <1>2, <3>1
  <2> QED BY <1>1, <1>3, <2>1 DEF TimerTick, LoaderStep, LoaderWait, LoaderEnlist, LoaderDone,
                                  EnlistRunning, schedVars
<1>4. ASSUME NEW c \in Cpus, CpuStep(c) PROVE PassedInv'
  <2>1. CASE FinishStore(c) \/ PutStore(c) \/ PutReady(c)
    <3>1. \A d \in Cpus : pc[d] # "locked"
      BY <2>1 DEF OneCpu, FinishStore, PutStore, PutReady
    <3>2. scan' = scan
      BY <2>1 DEF FinishStore, PutStore, PutReady, StoreSlot, EnqueueReady
    <3> QED BY <1>2, <3>1, <3>2 DEF LockInv
  <2>2. CASE ScanTake(c) \/ ScanNone(c)
    BY <1>2, <2>2 DEF ScanTake, ScanNone, Take, GiveUp
  <2>3. CASE ScanPass(c)
    <3>1. /\ scan.prio \in 0 .. MaxPrio - 1 /\ MaxPrio \in Nat /\ queue' = queue
          /\ queue[scan.prio] = <<>> \/ slot[scan.prio] <= 0
          /\ scan'.prio = NextPrio /\ slot' = IF NextPrio = 0 THEN FullSlots ELSE slot
      BY <2>3, MlqAssumption DEF ScanPass, PassSpent, PassEmpty, MoveOn, TypeInv, SchedType, Prios
    <3>2. NextPrio = IF scan.prio + 1 = MaxPrio THEN 0 ELSE scan.prio + 1
      BY <3>1, SMT DEF NextPrio
    <3>3. CASE NextPrio = 0
      BY <3>1, <3>3 DEF PassedInv, Prios
    <3>4. CASE NextPrio # 0
      <4>1. \A q \in Prios : q < scan.prio + 1 => q < scan.prio \/ q = scan.prio
        BY <3>1 DEF Prios
      <4>2. scan'.prio = scan.prio + 1 /\ slot' = slot
        BY <3>1, <3>2, <3>4
      <4> QED BY <3>1, <4>1, <4>2 DEF PassedInv
    <3> QED BY <3>3, <3>4
  <2>4. CASE FinishLoad(c) \/ PutRunning(c) \/ PutLoad(c) \/ GetSlot(c) \/ Idle(c) \/ Run(c)
    BY <1>1, <2>4 DEF FinishLoad, PutRunning, PutLoad, GetSlot, Idle, Run, EnlistRunning, schedVars
  <2> QED BY <1>4, <2>1, <2>2, <2>3, <2>4 DEF CpuStep
<1>5. CASE UNCHANGED vars
  BY <1>1, <1>5 DEF vars, schedVars
<1> QED BY <1>3, <1>4, <1>5 DEF Next, Exit

LEMMA InitPassed == Init => PassedInv
BY MlqAssumption DEF Init, SchedInit, ScanStart, PassedInv, Prios

(* Only a search that takes a process dispatches one.                      *)
LEMMA HighestStep ==
  ASSUME TypeInv, Ranked, PassedInv, [Next]_vars,
         NEW c \in Cpus, pc'[c] = "got", pc[c] # "got", proc'[c] # None
  PROVE  \A q \in Prios : q < Prio[proc'[c]] => queue[q] = <<>> \/ slot[q] <= 0
<1> USE DEF TypeInv, CpuType
<1>1. CpuStep(c)
  <2>1. CASE \E d \in Cpus : d # c /\ CpuStep(d)
    BY <2>1 DEF CpuStep, FinishLoad, FinishStore, PutRunning, PutReady, PutLoad, PutStore,
       ScanTake, ScanPass, ScanNone, GetSlot, Idle, Run, Got, Goto
  <2>2. CASE TimerTick \/ LoaderStep \/ UNCHANGED vars
    BY <2>2 DEF TimerTick, LoaderStep, LoaderWait, LoaderEnlist, LoaderAdd, LoaderDone, vars, cpuVars
  <2> QED
    BY <2>1, <2>2 DEF Next, Exit
<1>2. ScanTake(c)
  BY <1>1 DEF CpuStep, FinishLoad, FinishStore, PutRunning, PutReady, PutLoad, PutStore,
     ScanPass, ScanNone, GetSlot, Idle, Run, Goto, Got
<1>3. Prio[proc'[c]] = scan.prio
  BY <1>2, TakeSlots
<1> QED
  BY <1>3 DEF PassedInv

(* With one CPU a dispatched process comes from the highest priority that  *)
(* has a ready process and turns left.                                     *)
THEOREM HighestFirstOneCpu == OneCpu /\ Spec => HighestFirst
<1>1. OneCpu /\ TypeInv /\ LockInv /\ PassedInv /\ [Next]_vars => PassedInv'
  BY NextPassed
<1>2. OneCpu /\ [Next]_vars => OneCpu'
  BY DEF OneCpu
<1>3. TypeInv /\ Ranked /\ PassedInv /\ [Next]_vars =>
        [\A c \in Cpus : pc'[c] = "got" /\ pc[c] # "got" /\ proc'[c] # None =>
           \A q \in Prios : q < Prio[proc'[c]] => queue[q] = <<>> \/ slot[q] <= 0]_vars
  BY HighestStep
<1>4. Init => LockInv /\ ScanInv
  BY StartScan DEF Init, SchedInit, LockInv
<1>5. TypeInv /\ LockInv /\ ScanInv /\ [Next]_vars => LockInv' /\ ScanInv'
  BY NextScan
<1> QED
  BY <1>1, <1>2, <1>3, <1>4, <1>5, InitType, NextType, InitRanked, NextRanked, InitPassed, PTL
  DEF Spec, HighestFirst

(* Slots grow only when a search wraps around.                             *)
LEMMA RefillStep ==
  ASSUME OneCpu, TypeInv, SlotInv, PassedInv, [Next]_vars,
         NEW q \in Prios, slot'[q] > slot[q]
  PROVE  \A r \in Prios : queue[r] = <<>> \/ slot[r] <= 0
<1>1. slot[q] \in Int
  BY DEF TypeInv, SchedType
<1>2. slot' # slot
  BY <1>1
<1>3. PICK c \in Cpus : CpuStep(c)
  BY <1>2 DEF Next, Exit, TimerTick, LoaderStep, LoaderWait, LoaderEnlist, LoaderAdd, LoaderDone,
              EnlistRunning, EnqueueReady, vars, schedVars
<1>4. ~(FinishStore(c) \/ PutStore(c))
  <2>1. ASSUME FinishStore(c) \/ PutStore(c) PROVE slot'[q] <= slot[q] /\ slot'[q] \in Int
    <3>1. \A p \in Prios : slot'[p] <= slot[p]
      BY <2>1, StoreSlots
    <3>2. slot' \in [Prios -> Int]
      BY NextType DEF TypeInv, SchedType
    <3> QED BY <3>1, <3>2
  <2> QED BY <1>1, <2>1
<1>5. ScanPass(c)
  BY <1>2, <1>3, <1>4 DEF CpuStep, FinishLoad, PutRunning, PutReady, PutLoad, ScanTake, ScanNone,
     GetSlot, Idle, Run, EnlistRunning, EnqueueReady, Take, GiveUp, schedVars
<1>6. /\ scan.prio \in 0 .. MaxPrio - 1 /\ MaxPrio \in Nat /\ NextPrio = 0
      /\ queue[scan.prio] = <<>> \/ slot[scan.prio] <= 0
  BY <1>2, <1>5, MlqAssumption DEF ScanPass, PassSpent, PassEmpty, MoveOn, TypeInv, SchedType, Prios
<1>7. NextPrio = IF scan.prio + 1 = MaxPrio THEN 0 ELSE scan.prio + 1
  BY <1>6, SMT DEF NextPrio
<1>8. \A r \in Prios : r < scan.prio \/ r = scan.prio
  BY <1>6, <1>7 DEF Prios
<1> QED BY <1>6, <1>8 DEF PassedInv

(* With one CPU slots are refilled only when every priority with a ready   *)
(* process has used its own up.                                            *)
THEOREM FairRefillOneCpu == OneCpu /\ Spec => FairRefill
<1>1. OneCpu /\ TypeInv /\ LockInv /\ PassedInv /\ [Next]_vars => PassedInv'
  BY NextPassed
<1>2. OneCpu /\ TypeInv /\ Ranked /\ SlotInv /\ [Next]_vars => SlotInv'
  BY NextSlots
<1>3. OneCpu /\ [Next]_vars => OneCpu'
  BY DEF OneCpu
<1>4. OneCpu /\ TypeInv /\ SlotInv /\ PassedInv /\ [Next]_vars =>
        [\A q \in Prios : slot'[q] > slot[q] =>
           \A r \in Prios : queue[r] = <<>> \/ slot[r] <= 0]_vars
  BY RefillStep
<1>5. Init => LockInv /\ ScanInv
  BY StartScan DEF Init, SchedInit, LockInv
<1>6. TypeInv /\ LockInv /\ ScanInv /\ [Next]_vars => LockInv' /\ ScanInv'
  BY NextScan
<1> QED
  BY <1>1, <1>2, <1>3, <1>4, <1>5, <1>6, InitType, NextType, InitRanked, NextRanked, InitSlots,
     InitPassed, PTL
  DEF Spec, FairRefill
==============================================================================
