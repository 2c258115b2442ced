------------------------------- MODULE Os_proofs -------------------------------
(***************************************************************************)
(* Proofs about Os.tla for any number of CPUs, processes and priorities,   *)
(* any queue size and any time slice.                                      *)
(*                                                                         *)
(* The invariants build on each other: TypeInv; PlaceInv (a process is in  *)
(* one place); Busy and Calm (a process just put back is not freed in the  *)
(* same slot); AllKept (none is dropped, given room in the queues); LockInv   *)
(* and ScanInv (what get_mlq_proc knows under its lock); Ends, Served and  *)
(* Complete (no work is left when all threads have stopped).               *)
(***************************************************************************)
EXTENDS Os, FiniteSetTheorems, TLAPS

(* The types, part by part: ready queue, clock, CPUs, processes, loader.   *)
SchedType ==
  /\ queue \in [Prios -> Seq(Procs)] /\ runningList \in Seq(Procs)
  /\ slot \in [Prios -> Int]
  /\ scan \in [prio : Prios, empties : Nat]

ClockType ==
  /\ time \in Nat
  /\ arrived \subseteq Cpus \cup {Loader} /\ left \subseteq Cpus \cup {Loader}

\* where a CPU uses proc[c], it points to a process
CpuType ==
  /\ pc \in [Cpus -> Labels] /\ proc \in [Cpus -> Procs \cup {None}]
  /\ timeLeft \in [Cpus -> Int] /\ useTime \in [Cpus -> Int]
  /\ remaining \in [Cpus -> Int] /\ loaded \in [Cpus -> Int]
  /\ \A c \in Cpus : pc[c] \in {"fin", "put", "charge", "store", "run"} => proc[c] # None

ProcType == insn \in [Procs -> Nat] /\ freed \subseteq Procs

\* the loader adds only processes of the configuration
LoaderType ==
  /\ loading \in 1 .. NumProcs + 1
  /\ ldpc \in {"load", "add", "stopped"} /\ done \in BOOLEAN
  /\ ldpc = "add" => loading <= NumProcs

TypeInv == SchedType /\ ClockType /\ CpuType /\ ProcType /\ LoaderType

(* What enqueue does to the elements of a queue.                           *)
LEMMA EnqueueSeq ==
  ASSUME NEW q \in Seq(Procs), NEW p \in Procs
  PROVE  Enqueue(q, p) \in Seq(Procs)
BY DEF Enqueue

LEMMA DequeuedSeq ==
  ASSUME NEW q \in Seq(Procs), q # <<>>
  PROVE  Head(q) \in Procs /\ Dequeued(q) \in Seq(Procs)
BY DEF Dequeued

LEMMA InitType == Init => TypeInv
<1> SUFFICES ASSUME Init PROVE TypeInv
  OBVIOUS
<1> USE OsAssumption, MlqAssumption DEF Init, SchedInit
<1>1. queue \in [Prios -> Seq(Procs)] /\ runningList \in Seq(Procs)
  OBVIOUS
<1>2. slot \in [Prios -> Int] /\ scan \in [prio : Prios, empties : Nat]
  BY DEF FullSlots, ScanStart, Prios
<1>3. ClockType
  BY DEF Clock!ClockInit, ClockType
<1>4. CpuType
  BY DEF Labels, CpuType
<1>5. ProcType
  BY DEF ProcType
<1>6. loading \in 1 .. NumProcs + 1
  OBVIOUS
<1>7. ldpc = "load" /\ done \in BOOLEAN
  BY Zenon
<1> QED
  BY <1>1, <1>2, <1>3, <1>4, <1>5, <1>6, <1>7 DEF TypeInv, SchedType, LoaderType

(* The ready queue keeps its types under each of its operations.           *)
LEMMA PutTypes ==
  ASSUME SchedType, NEW p \in Procs, EnlistRunning(p) \/ EnqueueReady(p)
  PROVE  SchedType'
<1>1. CASE EnlistRunning(p)
  BY <1>1, EnqueueSeq DEF EnlistRunning, SchedType
<1>2. CASE EnqueueReady(p)
  <2>1. Prio[p] \in Prios
    BY MlqAssumption
  <2>2. Enqueue(queue[Prio[p]], p) \in Seq(Procs)
    BY <2>1, EnqueueSeq DEF SchedType
  <2> QED
    BY <1>2, <2>1, <2>2 DEF EnqueueReady, SchedType
<1> QED
  BY <1>1, <1>2

LEMMA MoveOnTypes ==
  ASSUME SchedType, NEW e \in Nat, MoveOn(e)
  PROVE  SchedType'
<1>1. NextPrio \in Prios
  BY MlqAssumption, SMT DEF SchedType, NextPrio, Prios
<1>2. FullSlots \in [Prios -> Int]
  BY MlqAssumption DEF FullSlots, Prios
<1>3. scan' \in [prio : Prios, empties : Nat]
  BY <1>1 DEF MoveOn
<1> QED
  BY <1>2, <1>3 DEF MoveOn, SchedType

LEMMA ScanTypes ==
  ASSUME SchedType, Take \/ PassSpent \/ PassEmpty \/ GiveUp
  PROVE  SchedType'
<1>0. scan.prio \in Prios /\ scan.empties \in Nat
  BY DEF SchedType
<1>5. ScanStart \in [prio : Prios, empties : Nat]
  BY MlqAssumption DEF ScanStart, Prios
<1>1. CASE Take
  <2>1. Dequeued(queue[scan.prio]) \in Seq(Procs)
    BY <1>0, <1>1, DequeuedSeq DEF Take, CanTake, SchedType
  <2> QED
    BY <1>0, <1>1, <1>5, <2>1 DEF Take, SchedType
<1>2. CASE PassSpent
  BY <1>0, <1>2, MoveOnTypes DEF PassSpent
<1>3. CASE PassEmpty
  <2>1. scan.empties + 1 \in Nat
    BY <1>0
  <2> QED
    BY <1>3, <2>1, MoveOnTypes DEF PassEmpty
<1>4. CASE GiveUp
  BY <1>4, <1>5 DEF GiveUp, SchedType
<1> QED
  BY <1>1, <1>2, <1>3, <1>4

LEMMA StoreTypes ==
  ASSUME SchedType, NEW p \in Procs, NEW v \in Int, StoreSlot(p, v)
  PROVE  SchedType'
BY DEF StoreSlot, SchedType

LEMMA ClockTypes ==
  ASSUME ClockType,
         \/ \E d \in Cpus \cup {Loader} : Clock!Arrive(d) \/ Clock!Leave(d)
         \/ Clock!Tick \/ UNCHANGED clockVars
  PROVE  ClockType'
BY DEF ClockType, Clock!Arrive, Clock!Leave, Clock!Tick, clockVars

LEMMA SlotType ==
  ASSUME SchedType, NEW p \in Procs
  PROVE  SlotOf(p) \in Int
BY MlqAssumption DEF SchedType, SlotOf

LEMMA CpuTypes ==
  ASSUME TypeInv, NEW c \in Cpus, CpuStep(c)
  PROVE  TypeInv'
<1> USE DEF TypeInv
<1>0. /\ SchedType /\ ClockType /\ CpuType /\ ProcType /\ LoaderType
      /\ c \in Cpus \cup {Loader}
  OBVIOUS
<1> SUFFICES SchedType' /\ ClockType' /\ CpuType' /\ ProcType' /\ LoaderType'
  OBVIOUS
<1> USE DEF Goto
<1>1. proc[c] # None => proc[c] \in Procs
  BY <1>0 DEF CpuType
<1>2. Charged(c) \in Int
  BY <1>0 DEF CpuType, Charged
<1>3. CASE FinishLoad(c)
  <2>1. SlotOf(proc[c]) \in Int
    BY <1>0, <1>1, <1>3, SlotType DEF FinishLoad
  <2>2. SchedType' /\ ClockType' /\ ProcType' /\ LoaderType'
    BY <1>0, <1>3, ClockTypes DEF FinishLoad, schedVars, clockVars, ldVars, SchedType, ProcType, LoaderType
  <2>3. CpuType'
    BY <1>0, <1>3, <2>1 DEF FinishLoad, CpuType, Labels
  <2> QED
    BY <2>2, <2>3
<1>4. CASE FinishStore(c)
  <2>1. proc[c] \in Procs
    BY <1>0, <1>1, <1>4 DEF FinishStore, CpuType
  <2>2. SchedType'
    BY <1>0, <1>2, <1>4, <2>1, StoreTypes DEF FinishStore
  <2>3. ClockType' /\ LoaderType'
    BY <1>0, <1>4, ClockTypes DEF FinishStore, clockVars, ldVars, LoaderType
  <2>4. ProcType'
    BY <1>0, <1>4, <2>1 DEF FinishStore, ProcType
  <2>5. CpuType'
    BY <1>0, <1>4 DEF FinishStore, CpuType, Labels
  <2> QED
    BY <2>2, <2>3, <2>4, <2>5
<1>5. CASE PutRunning(c) \/ PutReady(c)
  <2>1. proc[c] \in Procs
    BY <1>0, <1>1, <1>5 DEF PutRunning, PutReady, CpuType
  <2>2. SchedType'
    BY <1>0, <1>5, <2>1, PutTypes DEF PutRunning, PutReady
  <2>3. ClockType' /\ LoaderType' /\ ProcType'
    BY <1>0, <1>5, ClockTypes DEF PutRunning, PutReady, clockVars, ldVars, LoaderType, ProcType
  <2>4. CpuType'
    BY <1>0, <1>5, <2>1 DEF PutRunning, PutReady, CpuType, Labels, None, Procs
  <2> QED
    BY <2>2, <2>3, <2>4
<1>6. CASE PutLoad(c)
  <2>1. proc[c] # None
    BY <1>0, <1>6 DEF PutLoad, CpuType
  <2>2. SlotOf(proc[c]) \in Int
    BY <1>0, <1>1, <2>1, SlotType
  <2>3. SchedType' /\ ClockType' /\ ProcType' /\ LoaderType'
    BY <1>0, <1>6, ClockTypes DEF PutLoad, schedVars, clockVars, ldVars, SchedType, ProcType, LoaderType
  <2>4. CpuType'
    BY <1>0, <1>6, <2>1, <2>2 DEF PutLoad, CpuType, Labels
  <2> QED
    BY <2>3, <2>4
<1>7. CASE PutStore(c)
  <2>1. proc[c] \in Procs
    BY <1>0, <1>1, <1>7 DEF PutStore, CpuType
  <2>2. SchedType'
    BY <1>0, <1>2, <1>7, <2>1, StoreTypes DEF PutStore
  <2>3. ClockType' /\ LoaderType' /\ ProcType'
    BY <1>0, <1>7, ClockTypes DEF PutStore, clockVars, ldVars, LoaderType, ProcType
  <2>4. CpuType'
    BY <1>0, <1>7 DEF PutStore, CpuType, Labels
  <2> QED
    BY <2>2, <2>3, <2>4
<1>8. CASE ScanTake(c)
  <2>1. Taken \in Procs
    BY <1>0, <1>8, DequeuedSeq DEF ScanTake, Take, CanTake, Taken, SchedType
  <2>2. SchedType'
    BY <1>0, <1>8, ScanTypes DEF ScanTake
  <2>3. ClockType' /\ LoaderType' /\ ProcType'
    BY <1>0, <1>8, ClockTypes DEF ScanTake, clockVars, ldVars, LoaderType, ProcType
  <2>4. CpuType'
    BY <1>0, <1>8, <2>1 DEF ScanTake, Got, CpuType, Labels
  <2> QED
    BY <2>2, <2>3, <2>4
<1>9. CASE ScanPass(c) \/ ScanNone(c)
  <2>1. SchedType'
    BY <1>0, <1>9, ScanTypes DEF ScanPass, ScanNone
  <2>2. ClockType' /\ LoaderType' /\ ProcType'
    BY <1>0, <1>9, ClockTypes DEF ScanPass, ScanNone, clockVars, ldVars, LoaderType, ProcType
  <2>3. CpuType'
    BY <1>0, <1>9 DEF ScanPass, ScanNone, Got, CpuType, Labels
  <2> QED
    BY <2>1, <2>2, <2>3
<1>10. CASE GetSlot(c)
  <2>1. SlotOf(proc[c]) \in Int
    BY <1>0, <1>1, <1>10, SlotType DEF GetSlot
  <2>2. SchedType' /\ ClockType' /\ ProcType' /\ LoaderType'
    BY <1>0, <1>10, ClockTypes DEF GetSlot, schedVars, clockVars, ldVars, SchedType, ProcType, LoaderType
  <2>3. CpuType'
    BY <1>0, <1>10, <2>1 DEF GetSlot, CpuType, Labels
  <2> QED
    BY <2>2, <2>3
<1>11. CASE Idle(c)
  <2>1. ClockType'
    BY <1>0, <1>11, ClockTypes DEF Idle
  <2>2. SchedType' /\ ProcType' /\ LoaderType'
    BY <1>0, <1>11 DEF Idle, schedVars, ldVars, SchedType, ProcType, LoaderType
  <2>3. CpuType'
    BY <1>0, <1>11 DEF Idle, CpuType, Labels
  <2> QED
    BY <2>1, <2>2, <2>3
<1>12. CASE Run(c)
  <2>1. proc[c] \in Procs
    BY <1>0, <1>1, <1>12 DEF Run, AtRun, Spend, CpuType
  <2>2. ClockType'
    BY <1>0, <1>12, ClockTypes DEF Run, AtRun, Spend
  <2>3. SchedType' /\ LoaderType'
    BY <1>0, <1>12 DEF Run, AtRun, Spend, schedVars, ldVars, SchedType, LoaderType
  <2>4. ProcType'
    BY <1>0, <1>12, <2>1 DEF Run, AtRun, Spend, Execute, ProcType
  <2>5. Grant(c) \in Int
    BY <1>0, OsAssumption DEF Grant, CpuType
  <2>6. CpuType'
    BY <1>0, <1>12, <2>5 DEF Run, AtRun, Spend, CpuType, Labels
  <2> QED
    BY <2>2, <2>3, <2>4, <2>6
<1> QED
  BY <1>3, <1>4, <1>5, <1>6, <1>7, <1>8, <1>9, <1>10, <1>11, <1>12 DEF CpuStep

LEMMA LoaderTypes ==
  ASSUME TypeInv, LoaderStep
  PROVE  TypeInv'
<1> USE DEF TypeInv
<1>0. SchedType /\ ClockType /\ CpuType /\ ProcType /\ LoaderType
  OBVIOUS
<1>1. CASE LoaderWait \/ LoaderDone
  <2>1. ClockType'
    BY <1>0, <1>1, ClockTypes DEF LoaderWait, LoaderDone
  <2>2. SchedType' /\ CpuType' /\ ProcType' /\ LoaderType'
    BY <1>0, <1>1 DEF LoaderWait, LoaderDone, schedVars, cpuVars, ldVars, SchedType, CpuType, ProcType, LoaderType
  <2> QED
    BY <2>1, <2>2
<1>2. CASE LoaderEnlist
  <2>1. loading \in Procs
    BY <1>0, <1>2, MlqAssumption DEF LoaderEnlist, LoaderType, Procs
  <2>2. SchedType'
    BY <1>0, <1>2, <2>1, PutTypes DEF LoaderEnlist
  <2>3. ClockType' /\ CpuType' /\ ProcType' /\ LoaderType'
    BY <1>0, <1>2, ClockTypes DEF LoaderEnlist, clockVars, cpuVars, CpuType, ProcType, LoaderType
  <2> QED
    BY <2>2, <2>3
<1>3. CASE LoaderAdd
  <2>1. loading \in Procs /\ loading + 1 \in 1 .. NumProcs + 1
    BY <1>0, <1>3, MlqAssumption DEF LoaderAdd, LoaderType, Procs
  <2>2. SchedType'
    BY <1>0, <1>3, <2>1, PutTypes DEF LoaderAdd
  <2>3. ClockType'
    BY <1>0, <1>3, ClockTypes DEF LoaderAdd
  <2>4. CpuType' /\ ProcType' /\ LoaderType'
    BY <1>0, <1>3, <2>1 DEF LoaderAdd, cpuVars, CpuType, ProcType, LoaderType
  <2> QED
    BY <2>2, <2>3, <2>4
<1> QED
  BY <1>1, <1>2, <1>3 DEF LoaderStep

LEMMA NextType == TypeInv /\ [Next]_vars => TypeInv'
<1> SUFFICES ASSUME TypeInv, [Next]_vars PROVE TypeInv'
  OBVIOUS
<1>1. CASE TimerTick
  BY <1>1, ClockTypes
     DEF TypeInv, TimerTick, schedVars, cpuVars, ldVars, SchedType, CpuType, ProcType, LoaderType
<1>2. CASE UNCHANGED vars
  BY <1>2, ClockTypes
     DEF TypeInv, vars, schedVars, clockVars, cpuVars, ldVars, SchedType, CpuType, ProcType, LoaderType
<1> QED
  BY <1>1, <1>2, CpuTypes, LoaderTypes DEF Next, Exit

(* Type correctness of the scheduler and its threads.                      *)
THEOREM TypeCorrect == Spec => []TypeOK
<1>1. TypeInv => TypeOK
  BY DEF TypeInv, TypeOK, SchedType, ClockType, CpuType, ProcType, LoaderType
<1> QED
  BY <1>1, InitType, NextType, PTL DEF Spec

------------------------------------------------------------------------------
(* Exclusive is inductive once a process is known to be loaded before it   *)
(* can be with a CPU or freed.                                             *)
QueueOK ==
  \A q \in Prios : \A i, j \in DOMAIN queue[q] :
    Prio[queue[q][i]] = q /\ (queue[q][i] = queue[q][j] => i = j)

LoadedFirst ==
  /\ \A c \in Cpus : \A p \in Procs : Owns(c, p) => p < loading
  /\ \A p \in freed : p < loading

PlaceInv == Exclusive /\ LoadedFirst

LEMMA QueuePut ==
  ASSUME TypeInv, QueueOK, NEW p \in Procs, ~Queued(p), EnqueueReady(p)
  PROVE  QueueOK' /\ \A r \in Procs : Queued(r)' => Queued(r) \/ r = p
<1>0. Prio[p] \in Prios
  BY MlqAssumption
<1>1. /\ queue \in [Prios -> Seq(Procs)]
      /\ queue' = [queue EXCEPT ![Prio[p]] = Enqueue(@, p)]
  BY DEF TypeInv, SchedType, EnqueueReady
<1>2. \A i \in DOMAIN queue[Prio[p]] : queue[Prio[p]][i] # p
  BY <1>0 DEF Queued
<1>3. CASE queue'[Prio[p]] = queue[Prio[p]]
  <2>1. queue' = queue
    BY <1>0, <1>1, <1>3
  <2> QED
    BY <2>1 DEF QueueOK, Queued
<1>4. CASE queue'[Prio[p]] = Append(queue[Prio[p]], p)
  <2> DEFINE q == queue[Prio[p]]
  <2>1. q \in Seq(Procs)
    BY <1>0, <1>1
  <2>2. /\ DOMAIN Append(q, p) = 1 .. Len(q) + 1 /\ DOMAIN q = 1 .. Len(q) /\ Len(q) \in Nat
        /\ \A i \in 1 .. Len(q) : Append(q, p)[i] = q[i]
        /\ Append(q, p)[Len(q) + 1] = p
    BY <2>1
  <2>3. \A i, j \in DOMAIN Append(q, p) :
          /\ Prio[Append(q, p)[i]] = Prio[p]
          /\ (Append(q, p)[i] = Append(q, p)[j] => i = j)
    <3> SUFFICES ASSUME NEW i \in DOMAIN Append(q, p), NEW j \in DOMAIN Append(q, p)
                 PROVE  /\ Prio[Append(q, p)[i]] = Prio[p]
                        /\ (Append(q, p)[i] = Append(q, p)[j] => i = j)
      OBVIOUS
    <3>1. \A k, l \in 1 .. Len(q) : Prio[q[k]] = Prio[p] /\ (q[k] = q[l] => k = l)
      BY <1>0, <2>2 DEF QueueOK
    <3>2. \A k \in 1 .. Len(q) : q[k] # p
      BY <1>2, <2>2
    <3> HIDE DEF q
    <3> QED
      BY <2>2, <3>1, <3>2
  <2>4. \A r \in Prios : r # Prio[p] => queue'[r] = queue[r]
    BY <1>0, <1>1
  <2>5. QueueOK'
    <3> SUFFICES ASSUME NEW r \in Prios, NEW i \in DOMAIN queue'[r], NEW j \in DOMAIN queue'[r]
                 PROVE  Prio[queue'[r][i]] = r /\ (queue'[r][i] = queue'[r][j] => i = j)
      BY DEF QueueOK
    <3>1. CASE r = Prio[p]
      BY <1>4, <2>3, <3>1
    <3>2. CASE r # Prio[p]
      BY <2>4, <3>2 DEF QueueOK
    <3> QED
      BY <3>1, <3>2
  <2>6. \A r \in Procs : Queued(r)' => Queued(r) \/ r = p
    <3> SUFFICES ASSUME NEW r \in Procs, Queued(r)', r # p PROVE Queued(r)
      OBVIOUS
    <3>1. PICK l \in Prios : \E i \in DOMAIN queue'[l] : queue'[l][i] = r
      BY DEF Queued
    <3>2. CASE l # Prio[p]
      BY <2>4, <3>1, <3>2 DEF Queued
    <3>3. CASE l = Prio[p]
      <4>1. \E i \in 1 .. Len(q) + 1 : Append(q, p)[i] = r
        BY <1>4, <2>2, <3>1, <3>3
      <4>2. \E i \in 1 .. Len(q) : q[i] = r
        <5> HIDE DEF q
        <5> QED
          BY <2>2, <4>1
      <4> QED
        BY <1>0, <2>2, <4>2 DEF Queued
    <3> QED
      BY <3>2, <3>3
  <2> QED
    BY <2>5, <2>6
<1> QED
  BY <1>0, <1>1, <1>3, <1>4 DEF Enqueue

(* The process at the head of a ready queue leaves it.                     *)
LEMMA QueueTake ==
  ASSUME TypeInv, QueueOK, NEW l \in Prios, queue[l] # <<>>,
         queue' = [queue EXCEPT ![l] = Dequeued(@)]
  PROVE  \E p \in Procs :
           /\ p = Head(queue[l]) /\ Queued(p) /\ ~Queued(p)'
           /\ QueueOK' /\ \A r \in Procs : Queued(r)' => Queued(r)
<1> DEFINE q == queue[l]
<1>0. queue \in [Prios -> Seq(Procs)] /\ q \in Seq(Procs) /\ q # <<>>
  BY DEF TypeInv, SchedType
<1>1. /\ DOMAIN q = 1 .. Len(q) /\ Len(q) \in Nat /\ 1 \in DOMAIN q
      /\ DOMAIN Tail(q) = 1 .. Len(q) - 1
      /\ \A i \in 1 .. Len(q) - 1 : Tail(q)[i] = q[i + 1]
      /\ Head(q) = q[1]
  BY <1>0
<1>2. queue' = [queue EXCEPT ![l] = Tail(q)]
  BY <1>0 DEF Dequeued
<1>3. queue'[l] = Tail(q) /\ \A r \in Prios : r # l => queue'[r] = queue[r]
  BY <1>0, <1>2
<1>4. \A i, j \in DOMAIN q : Prio[q[i]] = l /\ (q[i] = q[j] => i = j)
  BY <1>0 DEF QueueOK
<1>5. \A i, j \in DOMAIN Tail(q) :
        /\ Prio[Tail(q)[i]] = l /\ (Tail(q)[i] = Tail(q)[j] => i = j)
        /\ Tail(q)[i] # Head(q)
  <2> HIDE DEF q
  <2> QED
    BY <1>1, <1>4
<1>6. QueueOK'
  <2> SUFFICES ASSUME NEW r \in Prios, NEW i \in DOMAIN queue'[r], NEW j \in DOMAIN queue'[r]
               PROVE  Prio[queue'[r][i]] = r /\ (queue'[r][i] = queue'[r][j] => i = j)
    BY DEF QueueOK
  <2>1. CASE r = l
    <3>1. queue'[r] = Tail(q)
      BY <1>3, <2>1
    <3> HIDE DEF q
    <3> QED
      BY <1>5, <2>1, <3>1
  <2>2. CASE r # l
    BY <1>3, <2>2 DEF QueueOK
  <2> QED
    BY <2>1, <2>2
<1>7. PICK p \in Procs : p = Head(q)
  BY <1>0
<1>8. Queued(p) /\ Prio[p] = l
  BY <1>0, <1>1, <1>4, <1>7 DEF Queued
<1>10. ~Queued(p)'
  <2> SUFFICES ASSUME NEW r \in Prios, NEW i \in DOMAIN queue'[r], queue'[r][i] = p
               PROVE  FALSE
    BY DEF Queued
  <2>1. r = l
    BY <1>6, <1>8 DEF QueueOK
  <2> QED
    BY <1>3, <1>5, <1>7, <2>1
<1>9. \A r \in Procs : Queued(r)' => Queued(r)
  <2> SUFFICES ASSUME NEW r \in Procs, NEW k \in Prios, NEW i \in DOMAIN queue'[k], queue'[k][i] = r
               PROVE  Queued(r)
    BY DEF Queued
  <2>1. CASE k # l
    BY <1>3, <2>1 DEF Queued
  <2>2. CASE k = l
    <3>1. i \in 1 .. Len(q) - 1 /\ q[i + 1] = r
      BY <1>1, <1>3, <2>2
    <3>2. i + 1 \in DOMAIN q
      BY <1>1, <3>1
    <3> QED
      BY <1>0, <3>1, <3>2 DEF Queued
  <2> QED
    BY <2>1, <2>2
<1> QED
  BY <1>6, <1>7, <1>8, <1>9, <1>10

(* A step after which nobody holds, queues or has freed more than before.  *)
LEMMA PlacesKept ==
  ASSUME PlaceInv, QueueOK', freed' = freed, loading' = loading,
         \A r \in Procs : Queued(r)' => Queued(r),
         \A d \in Cpus : \A r \in Procs : Owns(d, r)' => Owns(d, r)
  PROVE  PlaceInv'
BY DEF PlaceInv, Exclusive, QueueOK, LoadedFirst

\* the queue as it was
LEMMA QueueKept ==
  ASSUME PlaceInv, queue' = queue
  PROVE  QueueOK' /\ \A r \in Procs : Queued(r)' => Queued(r)
BY DEF PlaceInv, Exclusive, QueueOK, Queued

LEMMA InitPlaces == Init => PlaceInv
BY MlqAssumption, OsAssumption, SMT
   DEF Init, SchedInit, PlaceInv, Exclusive, LoadedFirst, Owns, Queued, Procs, None

(* Steps of a CPU that leave the ready queue alone and take no process.    *)
LEMMA LocalPlaces ==
  ASSUME TypeInv, PlaceInv, NEW c \in Cpus,
         \/ FinishLoad(c) \/ PutRunning(c) \/ PutLoad(c) \/ PutStore(c)
         \/ ScanPass(c) \/ ScanNone(c) \/ GetSlot(c) \/ Idle(c) \/ Run(c)
  PROVE  PlaceInv'
<1>1. queue' = queue /\ freed' = freed /\ loading' = loading
  BY DEF FinishLoad, PutRunning, PutLoad, PutStore, ScanPass, ScanNone, GetSlot, Idle, Run, AtRun, Spend,
         EnlistRunning, StoreSlot, PassSpent, PassEmpty, MoveOn, GiveUp, schedVars, ldVars
<1>2. \A d \in Cpus : \A r \in Procs : Owns(d, r)' => Owns(d, r)
  <2> USE DEF TypeInv, CpuType, Owns, Goto, None, Procs
  <2>1. CASE FinishLoad(c) \/ PutRunning(c) \/ PutLoad(c) \/ PutStore(c)
    BY <2>1 DEF FinishLoad, PutRunning, PutLoad, PutStore, AtTop
  <2>2. CASE ScanPass(c)
    BY <2>2 DEF ScanPass
  <2>3. CASE ScanNone(c)
    BY <2>3 DEF ScanNone, Got
  <2>4. CASE GetSlot(c) \/ Idle(c) \/ Run(c)
    BY <2>4 DEF GetSlot, Idle, Run, AtRun, Spend, AtTop
  <2> QED
    BY <2>1, <2>2, <2>3, <2>4
<1> QED
  BY <1>1, <1>2, QueueKept, PlacesKept

LEMMA FinishPlaces ==
  ASSUME TypeInv, PlaceInv, NEW c \in Cpus, FinishStore(c)
  PROVE  PlaceInv'
<1>1. PICK p \in Procs : p = proc[c]
  BY DEF FinishStore, TypeInv, CpuType
<1>2. Owns(c, p)
  BY <1>1 DEF Owns, FinishStore
<1>3. queue' = queue /\ loading' = loading /\ freed' = freed \cup {p}
  BY <1>1 DEF FinishStore, StoreSlot, ldVars
<1>4. QueueOK' /\ \A r \in Procs : Queued(r)' => Queued(r)
  BY <1>3, QueueKept
<1>5. \A d \in Cpus : \A r \in Procs : Owns(d, r)' => Owns(d, r) /\ r # p
  <2>1. \A d \in Cpus : Owns(d, p) => d = c
    BY <1>2 DEF PlaceInv, Exclusive
  <2> QED
    BY <1>1, <2>1 DEF Owns, FinishStore, Goto, TypeInv, CpuType
<1>6. ~Queued(p) /\ p < loading
  BY <1>2 DEF PlaceInv, Exclusive, LoadedFirst
<1> QED
  BY <1>3, <1>4, <1>5, <1>6 DEF PlaceInv, Exclusive, QueueOK, LoadedFirst

LEMMA ReadyPlaces ==
  ASSUME TypeInv, PlaceInv, NEW c \in Cpus, PutReady(c)
  PROVE  PlaceInv'
<1>1. PICK p \in Procs : p = proc[c]
  BY DEF PutReady, TypeInv, CpuType
<1>2. Owns(c, p)
  BY <1>1 DEF Owns, PutReady
<1>3. ~Queued(p) /\ p \notin freed /\ p < loading
  BY <1>2 DEF PlaceInv, Exclusive, LoadedFirst
<1>4. loading' = loading /\ freed' = freed /\ EnqueueReady(p)
  BY <1>1 DEF PutReady, ldVars
<1>5. QueueOK' /\ \A r \in Procs : Queued(r)' => Queued(r) \/ r = p
  BY <1>3, <1>4, QueuePut DEF PlaceInv, Exclusive, QueueOK
<1>6. \A d \in Cpus : \A r \in Procs : Owns(d, r)' => Owns(d, r) /\ r # p
  <2>1. \A d \in Cpus : Owns(d, p) => d = c
    BY <1>2 DEF PlaceInv, Exclusive
  <2> QED
    BY <1>1, <2>1 DEF Owns, PutReady, Goto, TypeInv, CpuType
<1> QED
  BY <1>3, <1>4, <1>5, <1>6 DEF PlaceInv, Exclusive, QueueOK, LoadedFirst

LEMMA TakePlaces ==
  ASSUME TypeInv, PlaceInv, NEW c \in Cpus, ScanTake(c)
  PROVE  PlaceInv'
<1>0. /\ scan.prio \in Prios /\ queue[scan.prio] # <<>>
      /\ queue' = [queue EXCEPT ![scan.prio] = Dequeued(@)]
  BY DEF ScanTake, Take, CanTake, TypeInv, SchedType
<1>1. PICK p \in Procs :
        /\ p = Taken /\ Queued(p) /\ ~Queued(p)'
        /\ QueueOK' /\ \A r \in Procs : Queued(r)' => Queued(r)
  BY <1>0, QueueTake DEF Taken, PlaceInv, Exclusive, QueueOK
<1>2. loading' = loading /\ freed' = freed /\ p \notin freed /\ p < loading
  BY <1>1 DEF ScanTake, ldVars, PlaceInv, Exclusive
<1>3. \A d \in Cpus : \A r \in Procs : Owns(d, r)' => Owns(d, r) \/ (d = c /\ r = p)
  BY <1>1 DEF ScanTake, Got, Goto, Owns, TypeInv, CpuType
<1>4. \A r \in Procs : Owns(c, r)' => r = p
  BY <1>1 DEF ScanTake, Got, Owns, TypeInv, CpuType
<1>5. \A d \in Cpus : ~Owns(d, p)
  BY <1>1 DEF PlaceInv, Exclusive
<1> QED
  BY <1>1, <1>2, <1>3, <1>4, <1>5 DEF PlaceInv, Exclusive, QueueOK, LoadedFirst

LEMMA LoaderPlaces ==
  ASSUME TypeInv, PlaceInv, LoaderStep
  PROVE  PlaceInv'
<1>1. CASE LoaderWait \/ LoaderEnlist \/ LoaderDone
  <2>1. queue' = queue /\ freed' = freed /\ loading' = loading
    BY <1>1 DEF LoaderWait, LoaderEnlist, LoaderDone, EnlistRunning, schedVars, ldVars
  <2>2. \A d \in Cpus : \A r \in Procs : Owns(d, r)' => Owns(d, r)
    BY <1>1 DEF LoaderWait, LoaderEnlist, LoaderDone, Owns, cpuVars
  <2> QED
    BY <2>1, <2>2, QueueKept, PlacesKept
<1>2. CASE LoaderAdd
  <2>1. PICK p \in Procs : p = loading
    BY <1>2, MlqAssumption DEF LoaderAdd, TypeInv, LoaderType, Procs
  <2>2. ~Queued(p) /\ p \notin freed /\ \A d \in Cpus : ~Owns(d, p)
    BY <2>1 DEF PlaceInv, Exclusive, LoadedFirst, Procs
  <2>3. loading' = loading + 1 /\ freed' = freed /\ EnqueueReady(p)
    BY <1>2, <2>1 DEF LoaderAdd
  <2>4. QueueOK' /\ \A r \in Procs : Queued(r)' => Queued(r) \/ r = p
    BY <2>2, <2>3, QueuePut DEF PlaceInv, Exclusive, QueueOK
  <2>5. \A d \in Cpus : \A r \in Procs : Owns(d, r)' <=> Owns(d, r)
    BY <1>2 DEF LoaderAdd, Owns, cpuVars
  <2>6. \A r \in Procs : r < loading => r < loading'
    BY <2>3 DEF TypeInv, LoaderType, Procs
  <2>7. p < loading'
    BY <2>1, <2>3 DEF Procs
  <2>8. freed \subseteq Procs
    BY DEF TypeInv, ProcType
  <2> QED
    BY <2>2, <2>3, <2>4, <2>5, <2>6, <2>7, <2>8 DEF PlaceInv, Exclusive, QueueOK, LoadedFirst
<1> QED
  BY <1>1, <1>2 DEF LoaderStep

LEMMA NextPlaces == TypeInv /\ PlaceInv /\ [Next]_vars => PlaceInv'
<1> SUFFICES ASSUME TypeInv, PlaceInv, [Next]_vars PROVE PlaceInv'
  OBVIOUS
<1>1. CASE TimerTick \/ UNCHANGED vars
  <2>1. queue' = queue /\ freed' = freed /\ loading' = loading
    BY <1>1 DEF TimerTick, vars, schedVars, ldVars
  <2>2. \A d \in Cpus : \A r \in Procs : Owns(d, r)' => Owns(d, r)
    BY <1>1 DEF TimerTick, vars, cpuVars, Owns
  <2> QED
    BY <2>1, <2>2, QueueKept, PlacesKept
<1>2. ASSUME NEW c \in Cpus, CpuStep(c) PROVE PlaceInv'
  BY <1>2, LocalPlaces, FinishPlaces, ReadyPlaces, TakePlaces DEF CpuStep
<1> QED
  BY <1>1, <1>2, LoaderPlaces DEF Next, Exit

(* A process is never in two places: not with two CPUs, not waiting while  *)
(* a CPU runs it, not waiting twice, not used after it was freed.          *)
THEOREM ProcessExclusive == Spec => []Exclusive
<1>1. PlaceInv => Exclusive
  BY DEF PlaceInv
<1> QED
  BY <1>1, InitType, NextType, InitPlaces, NextPlaces, PTL DEF Spec

------------------------------------------------------------------------------
(* Why a pointer kept across put_proc is still good: the CPU that holds it *)
(* works, so the slot cannot end; whoever took the process meanwhile has   *)
(* either not run it yet or waits for the end of that slot.                *)
Busy == \A c \in Cpus : pc[c] \notin {"top", "stopped"} => Clock!Working(c)

Taker(d) == pc[d] \in {"got", "run"} \/ (pc[d] = "top" /\ ~Clock!Working(d))

Resting(p) == p \notin freed /\ \A d \in Cpus : Owns(d, p) => Taker(d)

Calm ==
  \A c \in Cpus : \A p \in Procs : pc[c] = "charge" /\ proc[c] = p => Resting(p)

LEMMA InitBusy == Init => Busy /\ Calm
BY DEF Init, Busy, Calm

LEMMA NextBusy == TypeInv /\ Busy /\ [Next]_vars => Busy'
<1> SUFFICES ASSUME TypeInv, Busy, [Next]_vars PROVE Busy'
  OBVIOUS
<1> USE DEF Busy, Clock!Working, TypeInv, CpuType
<1>1. CASE TimerTick
  BY <1>1 DEF TimerTick, Clock!Tick, cpuVars
<1>2. CASE LoaderStep
  BY <1>2, OsAssumption
     DEF LoaderStep, LoaderWait, LoaderEnlist, LoaderAdd, LoaderDone, Clock!Arrive, Clock!Leave, cpuVars, clockVars
<1>3. ASSUME NEW c \in Cpus, CpuStep(c) PROVE Busy'
  <2> USE DEF Goto
  <2>1. CASE FinishLoad(c) \/ FinishStore(c) \/ PutRunning(c) \/ PutReady(c)
    BY <2>1 DEF FinishLoad, FinishStore, PutRunning, PutReady, AtTop, clockVars
  <2>2. CASE PutLoad(c) \/ PutStore(c) \/ GetSlot(c)
    BY <2>2 DEF PutLoad, PutStore, GetSlot, clockVars
  <2>3. CASE ScanTake(c) \/ ScanPass(c) \/ ScanNone(c)
    BY <2>3 DEF ScanTake, ScanPass, ScanNone, Scanning, AtTop, Got, clockVars
  <2>4. CASE Idle(c)
    BY <2>4 DEF Idle, Clock!Arrive, Clock!Leave
  <2>5. CASE Run(c)
    BY <2>5 DEF Run, AtRun, Spend, Clock!Arrive
  <2> QED
    BY <1>3, <2>1, <2>2, <2>3, <2>4, <2>5 DEF CpuStep
<1>4. CASE UNCHANGED vars
  BY <1>4 DEF vars, cpuVars, clockVars
<1> QED
  BY <1>1, <1>2, <1>3, <1>4 DEF Next, Exit

LEMMA CpuCalm ==
  ASSUME TypeInv, PlaceInv, Busy, Calm, NEW c \in Cpus, CpuStep(c)
  PROVE  Calm'
<1> USE DEF TypeInv, CpuType, Goto
<1>1. CASE PutReady(c)
  <2>1. PICK p \in Procs : p = proc[c]
    BY <1>1 DEF PutReady
  <2>2. Owns(c, p)
    BY <1>1, <2>1 DEF PutReady, Owns
  <2>3. p \notin freed /\ \A d \in Cpus : Owns(d, p) => d = c
    BY <2>2 DEF PlaceInv, Exclusive
  <2>4. Resting(p)'
    BY <1>1, <2>1, <2>3 DEF PutReady, Resting, Owns
  <2>5. \A r \in Procs : Resting(r) => Resting(r)'
    BY <1>1 DEF PutReady, Resting, Owns, Taker, Clock!Working, clockVars
  <2> QED
    BY <1>1, <2>1, <2>4, <2>5 DEF PutReady, Calm
<1>2. CASE ~PutReady(c)
  <2>1. \A b \in Cpus : pc'[b] = "charge" => pc[b] = "charge" /\ b # c /\ proc'[b] = proc[b]
    BY <1>2 DEF CpuStep, FinishLoad, FinishStore, PutRunning, PutLoad, PutStore,
           ScanTake, ScanPass, ScanNone, GetSlot, Idle, Run, AtRun, Spend, Got
  <2>2. ASSUME NEW b \in Cpus, NEW p \in Procs, Resting(p), b # c, pc[b] = "charge", proc[b] = p
        PROVE  Resting(p)'
    <3> USE DEF Resting, Owns, Taker, Clock!Working
    <3>1. CASE FinishLoad(c)
      BY <2>2, <3>1 DEF FinishLoad, AtTop, clockVars
    <3>2. CASE FinishStore(c)
      BY <2>2, <3>2 DEF FinishStore, clockVars
    <3>3. CASE PutRunning(c)
      BY <2>2, <3>3 DEF PutRunning, AtTop, clockVars
    <3>4. CASE PutLoad(c) \/ PutStore(c) \/ GetSlot(c)
      BY <2>2, <3>4 DEF PutLoad, PutStore, GetSlot, clockVars
    <3>5. CASE ScanTake(c) \/ ScanNone(c)
      BY <2>2, <3>5 DEF ScanTake, ScanNone, Got, clockVars
    <3>6. CASE ScanPass(c)
      BY <2>2, <3>6 DEF ScanPass, clockVars
    <3>7. CASE Idle(c)
      BY <2>2, <3>7 DEF Idle, Clock!Arrive, Clock!Leave, None, Procs
    <3>8. CASE Run(c)
      BY <2>2, <3>8 DEF Run, AtRun, Spend, Clock!Arrive
    <3> QED
      BY <1>2, <3>1, <3>2, <3>3, <3>4, <3>5, <3>6, <3>7, <3>8 DEF CpuStep
  <2> QED
    BY <2>1, <2>2 DEF Calm
<1> QED
  BY <1>1, <1>2

LEMMA NextCalm == TypeInv /\ PlaceInv /\ Busy /\ Calm /\ [Next]_vars => Calm'
<1> SUFFICES ASSUME TypeInv, PlaceInv, Busy, Calm, [Next]_vars PROVE Calm'
  OBVIOUS
<1>1. CASE TimerTick
  <2>1. \A c \in Cpus : pc[c] # "charge"
    BY <1>1 DEF TimerTick, Clock!Tick, Busy, Clock!Working
  <2> QED
    BY <1>1, <2>1 DEF TimerTick, cpuVars, Calm
<1>2. CASE LoaderStep \/ UNCHANGED vars
  <2>1. pc' = pc /\ proc' = proc /\ freed' = freed
    BY <1>2 DEF LoaderStep, LoaderWait, LoaderEnlist, LoaderAdd, LoaderDone, vars, cpuVars
  <2>2. \A d \in Cpus : ~Clock!Working(d) => ~Clock!Working(d)'
    BY <1>2 DEF LoaderStep, LoaderWait, LoaderEnlist, LoaderAdd, LoaderDone, vars, clockVars,
           Clock!Working, Clock!Arrive, Clock!Leave
  <2> QED
    BY <2>1, <2>2 DEF Calm, Resting, Owns, Taker
<1> QED
  BY <1>1, <1>2, CpuCalm DEF Next, Exit

(* cpu_routine reads proc->prio after put_proc has published the process:  *)
(* whoever takes it cannot free it before this slot is over.               *)
THEOREM NoUseAfterFree == Spec => []NoDangling
<1>1. TypeInv /\ Calm => NoDangling
  BY DEF TypeInv, CpuType, Calm, Resting, NoDangling
<1> QED
  BY <1>1, InitType, NextType, InitPlaces, NextPlaces, InitBusy, NextBusy, NextCalm, PTL DEF Spec

------------------------------------------------------------------------------
(* With room for the processes of every priority in its queue, enqueue     *)
(* never drops one.                                                        *)
RoomForAll ==
  \A q \in Prios : Cardinality({p \in Procs : Prio[p] = q}) <= QueueCap

(* A list of different processes of p's priority without p is not full.    *)
LEMMA RoomLeft ==
  ASSUME RoomForAll, NEW p \in Procs, NEW q \in Seq(Procs),
         \A i, j \in DOMAIN q : Prio[q[i]] = Prio[p] /\ (q[i] = q[j] => i = j),
         \A i \in DOMAIN q : q[i] # p
  PROVE  Len(q) < QueueCap
<1> DEFINE S == {r \in Procs : Prio[r] = Prio[p]}
           f == [i \in 1 .. Len(q) |-> q[i]]
<1>0. Prio[p] \in Prios
  BY MlqAssumption
<1>1. Len(q) \in Nat /\ DOMAIN q = 1 .. Len(q)
  OBVIOUS
<1>2. IsFiniteSet(S) /\ IsFiniteSet(S \ {p}) /\ p \in S
  BY FS_Interval, FS_Subset, MlqAssumption DEF Procs
<1>5. f \in Injection(1 .. Len(q), S \ {p})
  BY <1>1 DEF Injection, IsInjective
<1>6. Cardinality(1 .. Len(q)) = Len(q)
  <2>1. \A n \in Nat : Cardinality(1 .. n) = n
    BY FS_Interval
  <2> QED
    BY <1>1, <2>1
<1>7. Len(q) <= Cardinality(S \ {p})
  <2> HIDE DEF f, S
  <2> QED
    BY <1>2, <1>5, <1>6, FS_Injection
<1>8. Cardinality(S \ {p}) = Cardinality(S) - 1 /\ Cardinality(S) \in Nat
  <2> HIDE DEF S
  <2> QED
    BY <1>2, FS_RemoveElement, FS_CardinalityType
<1>9. Cardinality(S) <= QueueCap
  BY <1>0 DEF RoomForAll
<1> HIDE DEF f, S
<1> QED
  BY <1>1, <1>7, <1>8, <1>9, MlqAssumption

LEMMA QueuePutKeeps ==
  ASSUME RoomForAll, TypeInv, QueueOK, NEW p \in Procs, ~Queued(p), EnqueueReady(p)
  PROVE  Queued(p)' /\ \A r \in Procs : Queued(r) => Queued(r)'
<1> DEFINE q == queue[Prio[p]]
<1>0. Prio[p] \in Prios
  BY MlqAssumption
<1>1. q \in Seq(Procs) /\ queue \in [Prios -> Seq(Procs)]
  BY <1>0 DEF TypeInv, SchedType
<1>2. Len(q) < QueueCap /\ \A i \in DOMAIN q : q[i] # p
  <2>1. \A i, j \in DOMAIN q : Prio[q[i]] = Prio[p] /\ (q[i] = q[j] => i = j)
    BY <1>0 DEF QueueOK
  <2>2. \A i \in DOMAIN q : q[i] # p
    BY <1>0 DEF Queued
  <2> HIDE DEF q
  <2> QED
    BY <1>1, <2>1, <2>2, RoomLeft
<1>3. queue'[Prio[p]] = Append(q, p) /\ \A r \in Prios : r # Prio[p] => queue'[r] = queue[r]
  BY <1>0, <1>1, <1>2, MlqAssumption DEF EnqueueReady, Enqueue
<1>4. /\ DOMAIN Append(q, p) = 1 .. Len(q) + 1 /\ DOMAIN q = 1 .. Len(q) /\ Len(q) \in Nat
      /\ \A i \in 1 .. Len(q) : Append(q, p)[i] = q[i]
      /\ Append(q, p)[Len(q) + 1] = p
  BY <1>1
<1>5. Queued(p)'
  BY <1>0, <1>3, <1>4 DEF Queued
<1>6. ASSUME NEW r \in Procs, Queued(r) PROVE Queued(r)'
  <2>1. PICK l \in Prios : \E i \in DOMAIN queue[l] : queue[l][i] = r
    BY <1>6 DEF Queued
  <2>2. CASE l = Prio[p]
    <3>1. \E i \in 1 .. Len(q) : q[i] = r
      BY <1>4, <2>1, <2>2
    <3>2. \E i \in 1 .. Len(q) + 1 : Append(q, p)[i] = r
      <4> HIDE DEF q
      <4> QED
        BY <1>4, <3>1
    <3> QED
      BY <1>0, <1>3, <1>4, <3>2 DEF Queued
  <2>3. CASE l # Prio[p]
    BY <1>3, <2>1, <2>3 DEF Queued
  <2> QED
    BY <2>2, <2>3
<1> QED
  BY <1>5, <1>6

LEMMA QueueTakeKeeps ==
  ASSUME TypeInv, NEW l \in Prios, queue[l] # <<>>,
         queue' = [queue EXCEPT ![l] = Dequeued(@)],
         NEW r \in Procs, Queued(r), r # Head(queue[l])
  PROVE  Queued(r)'
<1> DEFINE q == queue[l]
<1>0. queue \in [Prios -> Seq(Procs)] /\ q \in Seq(Procs) /\ q # <<>>
  BY DEF TypeInv, SchedType
<1>1. /\ DOMAIN q = 1 .. Len(q) /\ Len(q) \in Nat
      /\ DOMAIN Tail(q) = 1 .. Len(q) - 1
      /\ \A i \in 1 .. Len(q) - 1 : Tail(q)[i] = q[i + 1]
      /\ Head(q) = q[1]
  BY <1>0
<1>2. queue'[l] = Tail(q) /\ \A k \in Prios : k # l => queue'[k] = queue[k]
  BY <1>0 DEF Dequeued
<1>3. PICK k \in Prios : \E i \in DOMAIN queue[k] : queue[k][i] = r
  BY DEF Queued
<1>4. CASE k # l
  BY <1>2, <1>3, <1>4 DEF Queued
<1>5. CASE k = l
  <2>1. PICK i \in 2 .. Len(q) : q[i] = r
    BY <1>1, <1>3, <1>5
  <2>2. i - 1 \in DOMAIN Tail(q) /\ Tail(q)[i - 1] = r
    <3>1. i - 1 \in 1 .. Len(q) - 1 /\ (i - 1) + 1 = i
      BY <1>1, <2>1
    <3> QED
      BY <1>1, <2>1, <3>1
  <2> QED
    BY <1>0, <1>2, <2>2 DEF Queued
<1> QED
  BY <1>4, <1>5

\* where a loaded process is
Somewhere(p) == Queued(p) \/ p \in freed \/ \E c \in Cpus : Owns(c, p)

AllKept == \A p \in Procs : p < loading => Somewhere(p)

LEMMA LocalKept ==
  ASSUME TypeInv, AllKept, NEW c \in Cpus,
         \/ FinishLoad(c) \/ PutRunning(c) \/ PutLoad(c) \/ PutStore(c)
         \/ ScanPass(c) \/ ScanNone(c) \/ GetSlot(c) \/ Idle(c) \/ Run(c)
  PROVE  AllKept'
<1>1. queue' = queue /\ freed' = freed /\ loading' = loading
  BY DEF FinishLoad, PutRunning, PutLoad, PutStore, ScanPass, ScanNone, GetSlot, Idle, Run, AtRun, Spend,
         EnlistRunning, StoreSlot, PassSpent, PassEmpty, MoveOn, GiveUp, schedVars, ldVars
<1>2. \A d \in Cpus : \A r \in Procs : Owns(d, r) => Owns(d, r)'
  <2> USE DEF TypeInv, CpuType, Owns, Goto, None, Procs
  <2>1. CASE FinishLoad(c) \/ PutRunning(c) \/ PutLoad(c) \/ PutStore(c)
    BY <2>1 DEF FinishLoad, PutRunning, PutLoad, PutStore, AtTop
  <2>2. CASE ScanPass(c) \/ ScanNone(c)
    BY <2>2 DEF ScanPass, ScanNone, Scanning, AtTop, Got
  <2>3. CASE GetSlot(c) \/ Idle(c) \/ Run(c)
    BY <2>3 DEF GetSlot, Idle, Run, AtRun, Spend, AtTop
  <2> QED
    BY <2>1, <2>2, <2>3
<1> QED
  BY <1>1, <1>2 DEF AllKept, Somewhere, Queued

LEMMA MovedKept ==
  ASSUME RoomForAll, TypeInv, PlaceInv, AllKept, NEW c \in Cpus,
         FinishStore(c) \/ PutReady(c) \/ ScanTake(c)
  PROVE  AllKept'
<1>1. loading' = loading
  BY DEF FinishStore, PutReady, ScanTake, ldVars
<1> USE DEF TypeInv, CpuType, Goto
<1>2. CASE FinishStore(c)
  BY <1>1, <1>2 DEF FinishStore, StoreSlot, AllKept, Somewhere, Queued, Owns
<1>3. CASE PutReady(c)
  <2>1. PICK p \in Procs : p = proc[c]
    BY <1>3 DEF PutReady
  <2>2. ~Queued(p) /\ EnqueueReady(p) /\ freed' = freed
    BY <1>3, <2>1 DEF PutReady, Owns, PlaceInv, Exclusive
  <2>3. Queued(p)' /\ \A r \in Procs : Queued(r) => Queued(r)'
    BY <2>2, QueuePutKeeps DEF PlaceInv, Exclusive, QueueOK
  <2>4. \A d \in Cpus : \A r \in Procs : Owns(d, r) => r = p \/ Owns(d, r)'
    BY <1>3, <2>1 DEF PutReady, Owns
  <2> QED
    BY <1>1, <2>2, <2>3, <2>4 DEF AllKept, Somewhere
<1>4. CASE ScanTake(c)
  <2>0. /\ scan.prio \in Prios /\ queue[scan.prio] # <<>>
        /\ queue' = [queue EXCEPT ![scan.prio] = Dequeued(@)]
    BY <1>4 DEF ScanTake, Take, CanTake, SchedType
  <2>1. PICK p \in Procs : p = Taken
    BY <2>0, DequeuedSeq DEF Taken, SchedType
  <2>2. \A r \in Procs : Queued(r) => r = p \/ Queued(r)'
    BY <2>0, <2>1, QueueTakeKeeps DEF Taken
  <2>3. Owns(c, p)' /\ freed' = freed
    BY <1>4, <2>1 DEF ScanTake, Got, Owns
  <2>4. \A d \in Cpus : \A r \in Procs : Owns(d, r) => Owns(d, r)'
    BY <1>4 DEF ScanTake, Scanning, AtTop, Got, Owns, Procs, None
  <2> QED
    BY <1>1, <2>2, <2>3, <2>4 DEF AllKept, Somewhere
<1> QED
  BY <1>2, <1>3, <1>4

LEMMA LoaderKept ==
  ASSUME RoomForAll, TypeInv, PlaceInv, AllKept, LoaderStep
  PROVE  AllKept'
<1>1. \A d \in Cpus : \A r \in Procs : Owns(d, r) => Owns(d, r)'
  BY DEF LoaderStep, LoaderWait, LoaderEnlist, LoaderAdd, LoaderDone, Owns, cpuVars
<1>2. CASE LoaderWait \/ LoaderEnlist \/ LoaderDone
  BY <1>1, <1>2
     DEF LoaderWait, LoaderEnlist, LoaderDone, EnlistRunning, schedVars, ldVars, AllKept, Somewhere, Queued
<1>3. CASE LoaderAdd
  <2>1. PICK p \in Procs : p = loading
    BY <1>3, MlqAssumption DEF LoaderAdd, TypeInv, LoaderType, Procs
  <2>2. ~Queued(p) /\ EnqueueReady(p) /\ freed' = freed /\ loading' = p + 1
    BY <1>3, <2>1 DEF LoaderAdd, PlaceInv, Exclusive, Procs
  <2>3. Queued(p)' /\ \A r \in Procs : Queued(r) => Queued(r)'
    BY <2>2, QueuePutKeeps DEF PlaceInv, Exclusive, QueueOK
  <2>4. \A r \in Procs : r < loading' => r = p \/ r < loading
    BY <2>1, <2>2 DEF Procs
  <2> QED
    BY <1>1, <2>2, <2>3, <2>4 DEF AllKept, Somewhere
<1> QED
  BY <1>2, <1>3 DEF LoaderStep

LEMMA NextKept ==
  ASSUME RoomForAll, TypeInv, PlaceInv, AllKept, [Next]_vars
  PROVE  AllKept'
<1>1. CASE TimerTick \/ UNCHANGED vars
  BY <1>1 DEF TimerTick, vars, schedVars, cpuVars, ldVars, AllKept, Somewhere, Queued, Owns
<1>2. ASSUME NEW c \in Cpus, CpuStep(c) PROVE AllKept'
  BY <1>2, LocalKept, MovedKept DEF CpuStep
<1> QED
  BY <1>1, <1>2, LoaderKept DEF Next, Exit

(* Every loaded process is waiting, with a CPU, or finished, as long as    *)
(* each queue has room for the processes of its priority.  MAX_QUEUE_SIZE  *)
(* does not guarantee that: NotLost needs the assumption.                  *)
THEOREM ProcessKept == RoomForAll /\ Spec => []NotLost
<1>1. TypeInv /\ AllKept => NotLost
  <2> SUFFICES ASSUME TypeInv, AllKept, NEW p \in 1 .. loading - 1 PROVE Somewhere(p)
    BY DEF NotLost, Somewhere
  <2>1. p \in Procs /\ p < loading
    BY MlqAssumption DEF TypeInv, LoaderType, Procs
  <2> QED
    BY <2>1 DEF AllKept
<1>2. Init => AllKept
  BY DEF Init, AllKept, Procs
<1>3. RoomForAll /\ TypeInv /\ PlaceInv /\ AllKept /\ [Next]_vars => AllKept'
  BY NextKept
<1>4. RoomForAll /\ [Next]_vars => RoomForAll'
  BY DEF RoomForAll
<1> QED
  BY <1>1, <1>2, <1>3, <1>4, InitType, NextType, InitPlaces, NextPlaces, PTL DEF Spec

------------------------------------------------------------------------------
(* What get_mlq_proc knows while it holds the lock: count_empty is at most *)
(* the number of priorities it has passed since it last wrapped around,    *)
(* and it is that number only if all of them were empty.                   *)
LockInv ==
  /\ \A c, d \in Cpus : pc[c] = "locked" /\ pc[d] = "locked" => c = d
  /\ (\A c \in Cpus : pc[c] # "locked") => scan = ScanStart

ScanInv ==
  /\ scan.empties <= scan.prio
  /\ scan.empties = scan.prio => \A q \in Prios : q < scan.prio => queue[q] = <<>>

LEMMA StartScan ==
  ASSUME scan = ScanStart
  PROVE  ScanInv
BY MlqAssumption DEF ScanInv, ScanStart, Prios

LEMMA PassScan ==
  ASSUME TypeInv, ScanInv, PassSpent \/ PassEmpty
  PROVE  ScanInv'
<1>0. /\ scan.prio \in Prios /\ scan.empties \in Nat
      /\ MaxPrio \in Nat /\ scan.prio \in Nat /\ scan.prio < MaxPrio
  BY MlqAssumption DEF TypeInv, SchedType, Prios
<1>1. /\ NextPrio = IF scan.prio + 1 = MaxPrio THEN 0 ELSE scan.prio + 1
  BY <1>0, SMT DEF NextPrio
<1>2. queue' = queue
  BY DEF PassSpent, PassEmpty, MoveOn
<1>3. CASE NextPrio = 0
  <2>1. scan'.prio = 0 /\ scan'.empties = 0
    BY <1>3 DEF PassSpent, PassEmpty, MoveOn
  <2> QED
    BY <2>1 DEF ScanInv, Prios
<1>4. CASE NextPrio = scan.prio + 1
  <2>1. CASE PassSpent
    <3>1. scan'.prio = scan.prio + 1 /\ scan'.empties = scan.empties
      BY <1>0, <1>4, <2>1 DEF PassSpent, MoveOn
    <3> QED
      BY <1>0, <3>1 DEF ScanInv
  <2>2. CASE PassEmpty
    <3>1. /\ scan'.prio = scan.prio + 1 /\ scan'.empties = scan.empties + 1
          /\ queue[scan.prio] = <<>>
      BY <1>0, <1>4, <2>2 DEF PassEmpty, MoveOn
    <3>2. \A q \in Prios : q < scan.prio + 1 => q < scan.prio \/ q = scan.prio
      BY <1>0 DEF Prios
    <3> QED
      BY <1>0, <1>2, <3>1, <3>2 DEF ScanInv
  <2> QED
    BY <2>1, <2>2
<1> QED
  BY <1>1, <1>3, <1>4

LEMMA NextScan ==
  ASSUME TypeInv, LockInv, ScanInv, [Next]_vars
  PROVE  LockInv' /\ ScanInv'
<1> USE DEF TypeInv, CpuType
\* steps that do not take the lock
<1>1. ASSUME scan' = scan, queue' = queue, \A c \in Cpus : pc'[c] = "locked" <=> pc[c] = "locked"
      PROVE  LockInv' /\ ScanInv'
  BY <1>1 DEF LockInv, ScanInv
\* steps that hold it alone, from start to end
<1>2. ASSUME scan = ScanStart, scan' = ScanStart, \A c \in Cpus : pc'[c] # "locked"
      PROVE  LockInv' /\ ScanInv'
  BY <1>2, MlqAssumption DEF LockInv, ScanInv, ScanStart, Prios
<1>3. CASE TimerTick \/ UNCHANGED vars
  BY <1>1, <1>3 DEF TimerTick, vars, schedVars, cpuVars
<1>4. CASE LoaderStep
  <2>1. CASE LoaderAdd
    <3>1. \A c \in Cpus : pc[c] # "locked"
      BY <2>1, OsAssumption DEF LoaderAdd, LockFreeFor
    <3> QED
      BY <1>2, <2>1, <3>1 DEF LoaderAdd, EnqueueReady, LockInv, cpuVars
  <2>2. CASE ~LoaderAdd
    BY <1>1, <1>4, <2>2
       DEF LoaderStep, LoaderWait, LoaderEnlist, LoaderDone, EnlistRunning, schedVars, cpuVars
  <2> QED
    BY <2>1, <2>2
<1>5. ASSUME NEW c \in Cpus, CpuStep(c) PROVE LockInv' /\ ScanInv'
  <2> USE DEF Goto
  <2>1. CASE FinishLoad(c) \/ FinishStore(c) \/ PutRunning(c) \/ PutLoad(c) \/ PutStore(c)
             \/ GetSlot(c) \/ Idle(c) \/ Run(c)
    <3>1. scan' = scan /\ queue' = queue
      BY <2>1 DEF FinishLoad, FinishStore, PutRunning, PutLoad, PutStore, GetSlot, Idle, Run, AtRun, Spend,
                  StoreSlot, EnlistRunning, schedVars
    <3>2. pc[c] # "locked" /\ pc'[c] # "locked" /\ \A d \in Cpus : d # c => pc'[d] = pc[d]
      BY <2>1 DEF FinishLoad, FinishStore, PutRunning, PutLoad, PutStore, GetSlot, Idle, Run, AtRun, Spend, AtTop
    <3> QED
      BY <1>1, <3>1, <3>2
  <2>2. CASE PutReady(c)
    <3>1. \A d \in Cpus : pc[d] # "locked" /\ pc'[d] # "locked"
      BY <2>2 DEF PutReady, LockFreeFor
    <3> QED
      BY <1>2, <2>2, <3>1 DEF PutReady, EnqueueReady, LockInv
  <2>3. CASE ScanTake(c) \/ ScanNone(c)
    <3>1. \A d \in Cpus : pc'[d] # "locked"
      BY <2>3 DEF ScanTake, ScanNone, Scanning, LockFreeFor, Got
    <3>2. scan' = ScanStart
      BY <2>3 DEF ScanTake, ScanNone, Take, GiveUp
    <3> QED
      BY <3>1, <3>2, MlqAssumption DEF LockInv, ScanInv, ScanStart, Prios
  <2>4. CASE ScanPass(c)
    <3>1. \A d \in Cpus : pc'[d] = "locked" <=> d = c
      BY <2>4 DEF ScanPass, Scanning, LockFreeFor
    <3> QED
      BY <2>4, <3>1, PassScan DEF ScanPass, LockInv
  <2> QED
    BY <1>5, <2>1, <2>2, <2>3, <2>4 DEF CpuStep
<1> QED
  BY <1>3, <1>4, <1>5 DEF Next, Exit

\* a search that gives up has seen every queue empty
LEMMA GiveUpEmpty ==
  ASSUME TypeInv, ScanInv, GiveUp
  PROVE  \A q \in Prios : queue[q] = <<>>
<1>1. /\ MaxPrio \in Nat /\ scan.empties + 1 = MaxPrio /\ queue[scan.prio] = <<>>
      /\ scan.prio \in 0 .. MaxPrio - 1 /\ scan.empties \in Nat /\ scan.empties <= scan.prio
  BY MlqAssumption DEF TypeInv, SchedType, Prios, ScanInv, GiveUp, LastEmpty
<1>2. scan.empties = scan.prio /\ \A q \in Prios : q < scan.prio \/ q = scan.prio
  BY <1>1 DEF Prios
<1> QED
  BY <1>1, <1>2 DEF ScanInv

LEMMA NullStep ==
  ASSUME TypeInv, ScanInv, [Next]_vars,
         NEW c \in Cpus, pc'[c] = "got", pc[c] # "got", proc'[c] = None
  PROVE  \A q \in Prios : queue[q] = <<>>
<1> USE DEF TypeInv, CpuType
<1>1. CpuStep(c)
  <2>1. CASE \E d \in Cpus : d # c /\ CpuStep(d)
    BY <2>1 DEF CpuStep, FinishLoad, FinishStore, PutRunning, PutReady, PutLoad, PutStore,
       ScanTake, ScanPass, ScanNone, GetSlot, Idle, Run, AtRun, Spend, Got, Goto
  <2>2. CASE TimerTick \/ LoaderStep \/ UNCHANGED vars
    BY <2>2 DEF TimerTick, LoaderStep, LoaderWait, LoaderEnlist, LoaderAdd, LoaderDone, vars, cpuVars
  <2> QED
    BY <2>1, <2>2 DEF Next, Exit
<1>2. ~ScanTake(c)
  <2>1. ASSUME ScanTake(c) PROVE Taken \in Procs
    BY <2>1, DequeuedSeq DEF ScanTake, Take, CanTake, Taken, SchedType
  <2> QED
    BY <2>1 DEF ScanTake, Got, Procs, None
<1>3. ScanNone(c)
  BY <1>1, <1>2 DEF CpuStep, FinishLoad, FinishStore, PutRunning, PutReady, PutLoad, PutStore,
     ScanPass, GetSlot, Idle, Run, AtRun, Spend, Goto
<1> QED
  BY <1>3, GiveUpEmpty DEF ScanNone

(* get_mlq_proc returns NULL only when no process is ready, whatever the   *)
(* other CPUs do to slot[] during its search.                              *)
THEOREM NullMeansEmpty == Spec => NoFalseNull
<1>1. Init => LockInv /\ ScanInv
  BY StartScan DEF Init, SchedInit, LockInv
<1>2. TypeInv /\ LockInv /\ ScanInv /\ [Next]_vars => LockInv' /\ ScanInv'
  BY NextScan
<1>3. TypeInv /\ ScanInv /\ [Next]_vars =>
        [\A c \in Cpus : pc'[c] = "got" /\ pc[c] # "got" /\ proc'[c] = None
           => \A q \in Prios : queue[q] = <<>>]_vars
  BY NullStep
<1> QED
  BY <1>1, <1>2, <1>3, InitType, NextType, PTL DEF Spec, NoFalseNull

------------------------------------------------------------------------------
(* Why no work is left behind.  A CPU about to leave has seen every queue  *)
(* empty, so a process that waits since then was put there by a CPU that   *)
(* will search again, or by the loader in a slot that is not over.         *)
Ends ==
  /\ ldpc = "stopped" <=> done
  /\ ldpc = "stopped" => loading = NumProcs + 1
  /\ \A c \in Cpus : pc[c] = "stopped" => proc[c] = None /\ done

Alive(c) == pc[c] # "stopped" /\ ~(pc[c] = "got" /\ proc[c] = None)

Served ==
  (\E p \in Procs : Queued(p)) =>
    (\E c \in Cpus : Alive(c)) \/ (Loader \in arrived /\ ~done)

FinDone == \A c \in Cpus : pc[c] = "fin" => insn[proc[c]] = CodeSize[proc[c]]

Complete == FinDone /\ \A p \in freed : insn[p] = CodeSize[p]

LEMMA InitEnds == Init => Ends /\ Served /\ Complete
BY DEF Init, SchedInit, Ends, Served, Complete, FinDone, Queued

LEMMA NextEnds ==
  ASSUME TypeInv, Ends, [Next]_vars
  PROVE  Ends'
<1> USE DEF TypeInv, CpuType, LoaderType, Ends
<1>1. CASE TimerTick \/ UNCHANGED vars
  BY <1>1 DEF TimerTick, vars, cpuVars, ldVars
<1>2. CASE LoaderStep
  BY <1>2, MlqAssumption DEF LoaderStep, LoaderWait, LoaderEnlist, LoaderAdd, LoaderDone, ldVars, cpuVars
<1>3. ASSUME NEW c \in Cpus, CpuStep(c) PROVE Ends'
  <2>1. ldVars' = ldVars
    BY <1>3 DEF CpuStep, FinishLoad, FinishStore, PutRunning, PutReady, PutLoad, PutStore,
       ScanTake, ScanPass, ScanNone, GetSlot, Idle, Run, AtRun, Spend
  <2>2. \A d \in Cpus : pc'[d] = "stopped" => proc'[d] = None /\ done
    <3>1. CASE Idle(c)
      BY <3>1 DEF Idle, MayLeave, Goto
    <3>2. CASE ~Idle(c)
      BY <1>3, <3>2 DEF CpuStep, FinishLoad, FinishStore, PutRunning, PutReady, PutLoad, PutStore,
         ScanTake, ScanPass, ScanNone, GetSlot, Run, AtRun, Spend, Got, Goto
    <3> QED
      BY <3>1, <3>2
  <2> QED
    BY <2>1, <2>2 DEF ldVars
<1> QED
  BY <1>1, <1>2, <1>3 DEF Next, Exit

LEMMA NextServed ==
  ASSUME Cpus # {}, TypeInv, Ends, Busy, ScanInv, Served, [Next]_vars
  PROVE  Served'
<1> USE DEF TypeInv, CpuType
<1>1. CASE TimerTick
  <2>1. queue' = queue /\ done' = done /\ pc' = pc /\ proc' = proc
    BY <1>1 DEF TimerTick, schedVars, ldVars, cpuVars
  <2>2. ASSUME ~done PROVE \E c \in Cpus : Alive(c)
    <3>1. \A c \in Cpus : ~Clock!Working(c)
      BY <1>1 DEF TimerTick, Clock!Tick
    <3>2. \A c \in Cpus : pc[c] = "top"
      BY <2>2, <3>1 DEF Busy, Ends
    <3> QED
      BY <3>2 DEF Alive
  <2> QED
    BY <2>1, <2>2 DEF Served, Queued, Alive
<1>2. CASE UNCHANGED vars
  BY <1>2 DEF vars, schedVars, clockVars, cpuVars, ldVars, Served, Queued, Alive
<1>3. CASE LoaderAdd
  BY <1>3 DEF LoaderAdd, Clock!Arrive, Ends, Served
<1>4. CASE LoaderWait \/ LoaderEnlist \/ LoaderDone
  <2>1. queue' = queue /\ pc' = pc /\ proc' = proc
    BY <1>4 DEF LoaderWait, LoaderEnlist, LoaderDone, EnlistRunning, schedVars, cpuVars
  <2>2. Loader \in arrived /\ ~done => Loader \in arrived' /\ ~done'
    BY <1>4 DEF LoaderWait, LoaderEnlist, LoaderDone, AtLoad, Clock!Working, Clock!Arrive, clockVars, ldVars
  <2> QED
    BY <2>1, <2>2 DEF Served, Queued, Alive
<1>5. ASSUME NEW c \in Cpus, CpuStep(c) PROVE Served'
  <2> USE DEF Goto
  <2>1. CASE ScanNone(c)
    <3>1. queue' = queue /\ \A q \in Prios : queue[q] = <<>>
      BY <2>1, GiveUpEmpty DEF ScanNone, GiveUp
    <3> QED
      BY <3>1 DEF Served, Queued
  <2>2. CASE Idle(c)
    <3>1. CASE done
      BY <2>2, <3>1 DEF Idle, MayLeave, Clock!Leave, schedVars, ldVars, Served, Queued, Alive
    <3>2. CASE ~done
      <4>1. Alive(c)'
        BY <2>2, <3>2 DEF Idle, MayLeave, Alive
      <4> QED
        BY <4>1 DEF Served
    <3> QED
      BY <3>1, <3>2
  <2>3. CASE ScanTake(c)
    <3>1. Taken \in Procs
      BY <2>3, DequeuedSeq DEF ScanTake, Take, CanTake, Taken, SchedType
    <3>2. Alive(c)'
      BY <2>3, <3>1 DEF ScanTake, Got, Alive, Procs, None
    <3> QED
      BY <3>2 DEF Served
  <2>4. CASE ~ScanNone(c) /\ ~Idle(c) /\ ~ScanTake(c)
    <3>1. Alive(c)'
      BY <1>5, <2>4 DEF CpuStep, FinishLoad, FinishStore, PutRunning, PutReady, PutLoad, PutStore,
         ScanPass, GetSlot, Run, AtRun, Spend, Alive
    <3> QED
      BY <3>1 DEF Served
  <2> QED
    BY <2>1, <2>2, <2>3, <2>4
<1> QED
  BY <1>1, <1>2, <1>3, <1>4, <1>5 DEF Next, Exit, LoaderStep

(* A freed process has come to its end, and runs no further.               *)
LEMMA FreedStep ==
  ASSUME TypeInv, PlaceInv, FinDone, [Next]_vars
  PROVE  /\ FinDone'
         /\ \A p \in freed : p \in freed' /\ insn'[p] = insn[p]
         /\ \A p \in freed' \ freed : insn'[p] = CodeSize[p]
<1> USE DEF TypeInv, CpuType, ProcType
<1>1. CASE TimerTick \/ LoaderStep \/ UNCHANGED vars
  BY <1>1 DEF TimerTick, LoaderStep, LoaderWait, LoaderEnlist, LoaderAdd, LoaderDone, vars, cpuVars, FinDone
<1>2. ASSUME NEW c \in Cpus, CpuStep(c)
      PROVE  /\ FinDone'
             /\ \A p \in freed : p \in freed' /\ insn'[p] = insn[p]
             /\ \A p \in freed' \ freed : insn'[p] = CodeSize[p]
  <2> USE DEF Goto
  <2>1. CASE Run(c)
    <3>1. PICK p \in Procs : p = proc[c]
      BY <2>1 DEF Run, AtRun
    <3>2. Owns(c, p)
      BY <2>1, <3>1 DEF Run, AtRun, AtTop, Owns
    <3>3. p \notin freed /\ \A d \in Cpus : pc[d] = "fin" => proc[d] # p
      BY <2>1, <3>2 DEF Run, AtRun, AtTop, PlaceInv, Exclusive, Owns
    <3>4. \A r \in Procs : r # p => insn'[r] = insn[r]
      BY <2>1, <3>1 DEF Run, Execute
    <3> QED
      BY <2>1, <3>3, <3>4 DEF Run, FinDone
  <2>2. CASE FinishLoad(c)
    BY <2>2 DEF FinishLoad, Finished, FinDone
  <2>3. CASE FinishStore(c)
    BY <2>3 DEF FinishStore, FinDone
  <2>4. CASE ~Run(c) /\ ~FinishLoad(c) /\ ~FinishStore(c)
    <3>1. /\ insn' = insn /\ freed' = freed
          /\ \A d \in Cpus : pc'[d] = "fin" => pc[d] = "fin" /\ proc'[d] = proc[d]
      BY <1>2, <2>4 DEF CpuStep, PutRunning, PutReady, PutLoad, PutStore,
         ScanTake, ScanPass, ScanNone, Scanning, AtTop, GetSlot, Idle, Got
    <3> QED
      BY <3>1 DEF FinDone
  <2> QED
    BY <2>1, <2>2, <2>3, <2>4
<1> QED
  BY <1>1, <1>2 DEF Next, Exit

LEMMA NextComplete ==
  ASSUME TypeInv, PlaceInv, Complete, [Next]_vars
  PROVE  Complete'
BY FreedStep DEF Complete

(* When main has joined all threads, every process has been loaded, run to *)
(* its last instruction and freed.                                         *)
THEOREM WorkFinished == Cpus # {} /\ RoomForAll /\ Spec => []AllFinished
<1>1. TypeInv /\ PlaceInv /\ AllKept /\ Ends /\ Served /\ Complete => AllFinished
  <2> SUFFICES ASSUME TypeInv, PlaceInv, AllKept, Ends, Served, Complete, AllStopped
               PROVE  freed = Procs /\ \A p \in Procs : insn[p] = CodeSize[p]
    BY DEF AllFinished
  <2>1. \A c \in Cpus : ~Alive(c) /\ proc[c] = None
    BY DEF AllStopped, Alive, Ends
  <2>2. \A p \in Procs : ~Queued(p)
    BY <2>1 DEF Served, AllStopped, Ends
  <2>3. \A p \in Procs : p < loading
    BY MlqAssumption DEF AllStopped, Ends, Procs
  <2>4. \A p \in Procs : p \in freed
    BY <2>1, <2>2, <2>3 DEF AllKept, Somewhere, Owns, None, Procs
  <2> QED
    BY <2>4 DEF TypeInv, ProcType, Complete
<1>2. Init => AllKept /\ LockInv /\ ScanInv
  BY StartScan DEF Init, SchedInit, LockInv, AllKept, Procs
<1>3. RoomForAll /\ TypeInv /\ PlaceInv /\ AllKept /\ [Next]_vars => AllKept'
  BY NextKept
<1>4. TypeInv /\ LockInv /\ ScanInv /\ [Next]_vars => LockInv' /\ ScanInv'
  BY NextScan
<1>5. TypeInv /\ Ends /\ [Next]_vars => Ends'
  BY NextEnds
<1>6. Cpus # {} /\ TypeInv /\ Ends /\ Busy /\ ScanInv /\ Served /\ [Next]_vars => Served'
  BY NextServed
<1>7. TypeInv /\ PlaceInv /\ Complete /\ [Next]_vars => Complete'
  BY NextComplete
<1>8. Cpus # {} /\ RoomForAll /\ [Next]_vars => (Cpus # {} /\ RoomForAll)'
  BY DEF RoomForAll
<1> QED
  BY <1>1, <1>2, <1>3, <1>4, <1>5, <1>6, <1>7, <1>8, InitType, NextType, InitPlaces, NextPlaces,
     InitBusy, NextBusy, InitEnds, PTL DEF Spec
================================================================================
