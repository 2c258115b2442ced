--------------------------------- MODULE Mlq ---------------------------------
(***************************************************************************)
(* sched.c and queue.c: the multi-level ready queue, its slot budgets and  *)
(* the running list, as action fragments for the threads of Os.tla.        *)
(*                                                                         *)
(* The mutex `lock' makes add/put atomic.  get_mlq_proc holds it over a    *)
(* loop, one iteration per action here, because update_slot and get_slot   *)
(* touch slot[] WITHOUT it and can run between two iterations.             *)
(***************************************************************************)
EXTENDS Integers, Sequences

CONSTANTS
  NumProcs,   \* num_processes; process p is the p-th of the configuration
  MaxPrio,    \* MAX_PRIO
  QueueCap,   \* MAX_QUEUE_SIZE
  Prio        \* proc->prio of every process

Procs == 1 .. NumProcs
Prios == 0 .. MaxPrio - 1

ASSUME MlqAssumption ==
  /\ NumProcs \in Nat /\ MaxPrio \in Nat \ {0} /\ QueueCap \in Nat
  /\ Prio \in [Procs -> Prios]

VARIABLES
  queue,        \* mlq_ready_queue
  slot,         \* slot, the turns each priority has left in this round
  runningList,  \* running_list
  scan          \* curr_prio and count_empty of the call that holds the lock

schedVars == <<queue, slot, runningList, scan>>

ScanStart == [prio |-> 0, empties |-> 0]

FullSlots == [q \in Prios |-> MaxPrio - q]

SchedInit ==
  /\ queue = [q \in Prios |-> <<>>]
  /\ slot = FullSlots
  /\ runningList = <<>>
  /\ scan = ScanStart

\* mutant: full one element early
EnqueueEarlyFull(q, p) ==
  IF Len(q) + 1 >= QueueCap \/ \E i \in DOMAIN q : q[i] = p THEN q ELSE Append(q, p)

(* enqueue: a full queue and a process that is already there are both left *)
(* as they are, and the caller is not told.                                *)
Enqueue(q, p) ==
  IF Len(q) >= QueueCap \/ \E i \in DOMAIN q : q[i] = p THEN q ELSE Append(q, p)

DequeuedNone(q) == q   \* mutant: the head is read but not removed

\* what dequeue leaves
Dequeued(q) == Tail(q)

\* put_proc and add_proc, first critical section
EnlistRunning(p) ==
  /\ runningList' = Enqueue(runningList, p)
  /\ UNCHANGED <<queue, slot, scan>>

\* put_mlq_proc and add_mlq_proc
EnqueueReady(p) ==
  /\ queue' = [queue EXCEPT ![Prio[p]] = Enqueue(@, p)]
  /\ UNCHANGED <<slot, runningList, scan>>

------------------------------------------------------------------------------
(* One iteration of the loop in get_mlq_proc.                              *)

NextPrioNoWrap == scan.prio + 1   \* mutant

NextPrio == (scan.prio + 1) % MaxPrio

\* mutant: count_empty survives the wrap-around
MoveOnCounting(empties) ==
  /\ scan' = [prio |-> NextPrio, empties |-> empties]
  /\ slot' = IF NextPrio = 0 THEN FullSlots ELSE slot
  /\ UNCHANGED <<queue, runningList>>

\* mutant: every step refills
MoveOnRefilling(empties) ==
  /\ scan' = [prio |-> NextPrio, empties |-> IF NextPrio = 0 THEN 0 ELSE empties]
  /\ slot' = FullSlots
  /\ UNCHANGED <<queue, runningList>>

(* Go on to the next priority; a wrap-around refills every slot.           *)
MoveOn(empties) ==
  /\ scan' = [prio |-> NextPrio, empties |-> IF NextPrio = 0 THEN 0 ELSE empties]
  /\ slot' = IF NextPrio = 0 THEN FullSlots ELSE slot
  /\ UNCHANGED <<queue, runningList>>

CanTake == queue[scan.prio] # <<>> /\ slot[scan.prio] > 0

Taken == Head(queue[scan.prio])

\* mutant: the search resumes where it stopped
TakeResuming ==
  /\ CanTake
  /\ queue' = [queue EXCEPT ![scan.prio] = Dequeued(@)]
  /\ scan' = [scan EXCEPT !.empties = 0]
  /\ UNCHANGED <<slot, runningList>>

Take ==
  /\ CanTake
  /\ queue' = [queue EXCEPT ![scan.prio] = Dequeued(@)]
  /\ scan' = ScanStart
  /\ UNCHANGED <<slot, runningList>>

PassSpent ==
  /\ queue[scan.prio] # <<>> /\ slot[scan.prio] <= 0
  /\ MoveOn(scan.empties)

LastEmptyLate == scan.empties = MaxPrio   \* mutant

\* the empty queue at hand is the last of MaxPrio in a row
LastEmpty == scan.empties + 1 = MaxPrio

PassEmpty ==
  /\ queue[scan.prio] = <<>> /\ ~LastEmpty
  /\ MoveOn(scan.empties + 1)

GiveUp ==
  /\ queue[scan.prio] = <<>> /\ LastEmpty
  /\ scan' = ScanStart
  /\ UNCHANGED <<queue, slot, runningList>>

------------------------------------------------------------------------------
(* The unlocked accesses: get_slot, and the two halves of update_slot's    *)
(* slot[prio] = slot[prio] - used_time.                                    *)
SlotOf(p) == slot[Prio[p]]

StoreSlot(p, v) ==
  /\ slot' = [slot EXCEPT ![Prio[p]] = v]
  /\ UNCHANGED <<queue, runningList, scan>>
==============================================================================
