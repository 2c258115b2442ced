---------------------------------- MODULE Os ----------------------------------
(***************************************************************************)
(* os.c: the CPU threads, the loader thread and main, over the ready queue *)
(* of Mlq.tla and the slot barrier of SlotClock.tla.                       *)
(*                                                                         *)
(* An instruction is only a step of its process's program counter here: no *)
(* instruction but syscall 101 touches scheduler state.  pc[c] is where a  *)
(* CPU thread is inside one turn of its loop:                              *)
(*   top     at the head of the loop                                       *)
(*   fin     finished branch, inside update_slot                           *)
(*   put     put_proc has enlisted the process as running                  *)
(*   charge  put_proc has returned                                         *)
(*   store   preempted branch, inside update_slot                          *)
(*   get     about to call get_proc                                        *)
(*   locked  in get_mlq_proc's loop, holding the lock                      *)
(*   got     get_proc has returned                                         *)
(*   run     remaining_slot has been read                                  *)
(*   kill    in system call 101 (KillAll.tla)                              *)
(*   stopped left the loop and detached                                    *)
(***************************************************************************)
EXTENDS Mlq

CONSTANTS
  Cpus,       \* the CPU threads
  Loader,     \* the loader thread
  TimeSlice,  \* time_slot
  CodeSize,   \* code->size of every process
  StartTime   \* start_time of every process

None == 0     \* the NULL process

ASSUME OsAssumption ==
  /\ Loader \notin Cpus
  /\ TimeSlice \in Nat \ {0}
  /\ CodeSize \in [Procs -> Nat] /\ StartTime \in [Procs -> Nat]

VARIABLES
  time, arrived, left,          \* the slot clock
  pc, proc, timeLeft, useTime,  \* cpu_routine's locals
  remaining,                    \* remaining_slot
  loaded,                       \* slot[prio] as update_slot read it
  insn,                         \* proc->pc of every process
  freed,                        \* processes whose pcb was freed
  loading, ldpc,                \* the loader's i + 1 and where it is
  done                          \* the loader's end flag

cpuVars == <<pc, proc, timeLeft, useTime, remaining, loaded>>
clockVars == <<time, arrived, left>>
ldVars == <<loading, ldpc, done>>
vars == <<schedVars, clockVars, cpuVars, insn, freed, ldVars>>

Clock == INSTANCE SlotClock WITH Devices <- Cpus \cup {Loader}

Init ==
  /\ SchedInit /\ Clock!ClockInit
  /\ pc = [c \in Cpus |-> "top"] /\ proc = [c \in Cpus |-> None]
  /\ timeLeft = [c \in Cpus |-> 0] /\ useTime = [c \in Cpus |-> 0]
  /\ remaining = [c \in Cpus |-> 0] /\ loaded = [c \in Cpus |-> 0]
  /\ insn = [p \in Procs |-> 0]
  /\ freed = {}
  /\ loading = 1 /\ ldpc = "load" /\ done = FALSE

Goto(c, l) == pc' = [pc EXCEPT ![c] = l]

LockFreeFor(t) == \A d \in Cpus : pc[d] = "locked" => d = t

(* At the head of the loop in the current slot, with process p.            *)
AtTop(c) == pc[c] = "top" /\ Clock!Working(c)
Finished(c) == insn[proc[c]] = CodeSize[proc[c]]

------------------------------------------------------------------------------
(* proc->pc == proc->code->size: charge the slots used, free the process,  *)
(* ask for another one.                                                    *)
FinishLoad(c) ==
  /\ AtTop(c) /\ proc[c] # None /\ Finished(c)
  /\ loaded' = [loaded EXCEPT ![c] = SlotOf(proc[c])]
  /\ Goto(c, "fin")
  /\ UNCHANGED <<schedVars, clockVars, ldVars, insn, freed>>
  /\ UNCHANGED <<proc, timeLeft, useTime, remaining>>

ChargedOver(c) == loaded[c] - useTime[c] - 1   \* mutant

\* update_slot's subtraction
Charged(c) == loaded[c] - useTime[c]

FinishStore(c) ==
  /\ pc[c] = "fin"
  /\ StoreSlot(proc[c], Charged(c))
  /\ freed' = freed \cup {proc[c]}
  /\ timeLeft' = [timeLeft EXCEPT ![c] = 0]
  /\ useTime' = [useTime EXCEPT ![c] = 0]
  /\ Goto(c, "get")
  /\ UNCHANGED <<clockVars, ldVars, insn, proc, remaining, loaded>>

(* time_left == 0: put the process back, charge it, ask for another one.   *)
(* From "charge" on, proc[c] is a pointer to a process others may hold.    *)
PutRunning(c) ==
  /\ AtTop(c) /\ proc[c] # None /\ ~Finished(c) /\ timeLeft[c] = 0
  /\ LockFreeFor(c) /\ EnlistRunning(proc[c])
  /\ Goto(c, "put")
  /\ UNCHANGED <<clockVars, ldVars, insn, freed>>
  /\ UNCHANGED <<proc, timeLeft, useTime, remaining, loaded>>

PutReady(c) ==
  /\ pc[c] = "put"
  /\ LockFreeFor(c) /\ EnqueueReady(proc[c])
  /\ Goto(c, "charge")
  /\ UNCHANGED <<clockVars, ldVars, insn, freed>>
  /\ UNCHANGED <<proc, timeLeft, useTime, remaining, loaded>>

PutLoad(c) ==
  /\ pc[c] = "charge"
  /\ loaded' = [loaded EXCEPT ![c] = SlotOf(proc[c])]
  /\ Goto(c, "store")
  /\ UNCHANGED <<schedVars, clockVars, ldVars, insn, freed>>
  /\ UNCHANGED <<proc, timeLeft, useTime, remaining>>

PutStore(c) ==
  /\ pc[c] = "store"
  /\ StoreSlot(proc[c], Charged(c))
  /\ Goto(c, "get")
  /\ UNCHANGED <<clockVars, ldVars, insn, freed>>
  /\ UNCHANGED <<proc, timeLeft, useTime, remaining, loaded>>

------------------------------------------------------------------------------
(* get_proc: the first iteration takes the lock, the last one gives it up. *)
Scanning(c) ==
  /\ \/ AtTop(c) /\ proc[c] = None
     \/ pc[c] \in {"get", "locked"}
  /\ LockFreeFor(c)

Got(c, p) == proc' = [proc EXCEPT ![c] = p] /\ Goto(c, "got")

ScanTake(c) ==
  /\ Scanning(c) /\ Take /\ Got(c, Taken)
  /\ UNCHANGED <<clockVars, ldVars, insn, freed, timeLeft, useTime, remaining, loaded>>

ScanPass(c) ==
  /\ Scanning(c) /\ (PassSpent \/ PassEmpty)
  /\ Goto(c, "locked")
  /\ UNCHANGED <<clockVars, ldVars, insn, freed>>
  /\ UNCHANGED <<proc, timeLeft, useTime, remaining, loaded>>

ScanNone(c) ==
  /\ Scanning(c) /\ GiveUp /\ Got(c, None)
  /\ UNCHANGED <<clockVars, ldVars, insn, freed, timeLeft, useTime, remaining, loaded>>

GetSlot(c) ==
  /\ pc[c] = "got" /\ proc[c] # None
  /\ remaining' = [remaining EXCEPT ![c] = SlotOf(proc[c])]
  /\ Goto(c, "run")
  /\ UNCHANGED <<schedVars, clockVars, ldVars, insn, freed>>
  /\ UNCHANGED <<proc, timeLeft, useTime, loaded>>

MayLeaveEarly == TRUE   \* mutant: the loader is not asked

MayLeave == done

(* No process: leave if the loader is done, else skip this slot.           *)
Idle(c) ==
  /\ pc[c] = "got" /\ proc[c] = None
  /\ IF MayLeave THEN Clock!Leave(c) /\ Goto(c, "stopped")
                 ELSE Clock!Arrive(c) /\ Goto(c, "top")
  /\ UNCHANGED <<schedVars, ldVars, insn, freed>>
  /\ UNCHANGED <<proc, timeLeft, useTime, remaining, loaded>>

------------------------------------------------------------------------------
(* The time slice given at dispatch: no more than the slots the priority   *)
(* had left when get_slot read them.                                       *)
GrantSlots(c) == remaining[c]   \* mutant: time_slot is ignored

\* mutant: one turn too many when slots are short
GrantOneMore(c) == IF TimeSlice < remaining[c] THEN TimeSlice ELSE remaining[c] + 1

Grant(c) == IF TimeSlice < remaining[c] THEN TimeSlice ELSE remaining[c]

\* run: fetch one instruction and step the program counter
Execute(p) ==
  insn' = IF insn[p] >= CodeSize[p] THEN insn ELSE [insn EXCEPT ![p] = @ + 1]

AtRun(c) ==
  \/ pc[c] = "run"
  \/ AtTop(c) /\ proc[c] # None /\ ~Finished(c) /\ timeLeft[c] # 0

\* dispatch if a time slice has to be granted, and use one turn of it
Spend(c) ==
  /\ timeLeft' = [timeLeft EXCEPT ![c] = (IF @ = 0 THEN Grant(c) ELSE @) - 1]
  /\ useTime' = [useTime EXCEPT ![c] = (IF timeLeft[c] = 0 THEN 0 ELSE @) + 1]

(* Run one instruction and wait for the next slot.                         *)
Run(c) ==
  /\ AtRun(c) /\ Spend(c) /\ Execute(proc[c])
  /\ Clock!Arrive(c) /\ Goto(c, "top")
  /\ UNCHANGED <<schedVars, ldVars, freed, proc, remaining, loaded>>

------------------------------------------------------------------------------
(* ld_routine.  load() and init_mm only build the new pcb.                 *)
AtLoad == ldpc = "load" /\ Clock!Working(Loader)

LoaderWait ==
  /\ AtLoad /\ loading <= NumProcs /\ time < StartTime[loading]
  /\ Clock!Arrive(Loader)
  /\ UNCHANGED <<schedVars, cpuVars, ldVars, insn, freed>>

LoaderEnlist ==
  /\ AtLoad /\ loading <= NumProcs /\ time >= StartTime[loading]
  /\ LockFreeFor(Loader) /\ EnlistRunning(loading)
  /\ ldpc' = "add"
  /\ UNCHANGED <<clockVars, cpuVars, insn, freed, loading, done>>

LoaderAdd ==
  /\ ldpc = "add"
  /\ LockFreeFor(Loader) /\ EnqueueReady(loading)
  /\ loading' = loading + 1 /\ ldpc' = "load"
  /\ Clock!Arrive(Loader)
  /\ UNCHANGED <<cpuVars, insn, freed, done>>

LoaderDone ==
  /\ AtLoad /\ loading > NumProcs
  /\ done' = TRUE /\ ldpc' = "stopped"
  /\ Clock!Leave(Loader)
  /\ UNCHANGED <<schedVars, cpuVars, insn, freed, loading>>

------------------------------------------------------------------------------
TimerTick ==
  /\ Clock!Tick
  /\ UNCHANGED <<schedVars, cpuVars, ldVars, insn, freed>>

AllStopped == ldpc = "stopped" /\ \A c \in Cpus : pc[c] = "stopped"

\* main has joined every thread
Exit == AllStopped /\ UNCHANGED vars

CpuStep(c) ==
  \/ FinishLoad(c) \/ FinishStore(c)
  \/ PutRunning(c) \/ PutReady(c) \/ PutLoad(c) \/ PutStore(c)
  \/ ScanTake(c) \/ ScanPass(c) \/ ScanNone(c)
  \/ GetSlot(c) \/ Idle(c) \/ Run(c)

LoaderStep == LoaderWait \/ LoaderEnlist \/ LoaderAdd \/ LoaderDone

Next == TimerTick \/ LoaderStep \/ Exit \/ \E c \in Cpus : CpuStep(c)

(* Every thread that is not blocked is eventually scheduled.               *)
Spec ==
  /\ Init /\ [][Next]_vars
  /\ WF_vars(TimerTick) /\ WF_vars(LoaderStep)
  /\ \A c \in Cpus : WF_vars(CpuStep(c))

------------------------------------------------------------------------------
Labels == {"top", "fin", "put", "charge", "store", "get", "locked", "got",
           "run", "kill", "stopped"}

TypeOK ==
  /\ queue \in [Prios -> Seq(Procs)] /\ runningList \in Seq(Procs)
  /\ slot \in [Prios -> Int]
  /\ scan \in [prio : Prios, empties : Nat]
  /\ time \in Nat
  /\ arrived \subseteq Cpus \cup {Loader} /\ left \subseteq Cpus \cup {Loader}
  /\ pc \in [Cpus -> Labels] /\ proc \in [Cpus -> Procs \cup {None}]
  /\ timeLeft \in [Cpus -> Int] /\ useTime \in [Cpus -> Int]
  /\ remaining \in [Cpus -> Int] /\ loaded \in [Cpus -> Int]
  /\ insn \in [Procs -> Nat]
  /\ freed \subseteq Procs
  /\ loading \in 1 .. NumProcs + 1
  /\ ldpc \in {"load", "add", "stopped"} /\ done \in BOOLEAN

(* A CPU owns the process it points to, until the process is back in the   *)
(* ready queue ("charge", "store") or freed ("get" after "fin").           *)
Owns(c, p) == proc[c] = p /\ pc[c] \notin {"charge", "store", "get", "locked"}

Queued(p) == \E q \in Prios : \E i \in DOMAIN queue[q] : queue[q][i] = p

(* No process is in two places: get_proc never hands one process to two    *)
(* CPUs, no CPU runs a process that is waiting or freed, and a process     *)
(* waits once, in the queue of its priority, and not before it is loaded.  *)
Exclusive ==
  /\ \A c, d \in Cpus : \A p \in Procs : Owns(c, p) /\ Owns(d, p) => c = d
  /\ \A c \in Cpus : \A p \in Procs : Owns(c, p) => ~Queued(p) /\ p \notin freed
  /\ \A p \in Procs : Queued(p) => p \notin freed /\ p < loading
  /\ \A q \in Prios : \A i, j \in DOMAIN queue[q] :
       Prio[queue[q][i]] = q /\ (queue[q][i] = queue[q][j] => i = j)

(* A loaded process is waiting, with a CPU, or finished: put_proc and      *)
(* get_proc lose none (with room for every process in a queue).            *)
NotLost ==
  \A p \in 1 .. loading - 1 : Queued(p) \/ p \in freed \/ \E c \in Cpus : Owns(c, p)

(* cpu_routine still reads proc->prio for update_slot after put_proc has   *)
(* published the process.  Another CPU may take it and run it to its end   *)
(* meanwhile, but free() has to wait for the next slot.                    *)
NoDangling == \A c \in Cpus : pc[c] = "charge" => proc[c] \notin freed

(* get_mlq_proc counts empty queues across refills and with slot[]         *)
(* changing under it: it still returns NULL only if nothing is ready.      *)
NoFalseNull ==
  [][\A c \in Cpus : pc'[c] = "got" /\ pc[c] # "got" /\ proc'[c] = None
       => \A q \in Prios : queue[q] = <<>>]_vars

(* When every thread has left its loop, every process has run to its end:  *)
(* the loader's end flag is not taken for the end of the work.             *)
AllFinished ==
  AllStopped => freed = Procs /\ \A p \in Procs : insn[p] = CodeSize[p]

(* Every thread leaves its loop, so main's joins return.                   *)
Terminates == <>AllStopped

------------------------------------------------------------------------------
(* The slot policy of sched.c.  It is a policy for one CPU: with a second  *)
(* one SlotBounds, WithinBudget and WithinSlice can all be violated.       *)

(* "curr_slot = 0..(MAX_PRIO - prio)": a priority is never charged for     *)
(* more turns than it has left, nor refilled above its share.              *)
SlotBounds == \A q \in Prios : slot[q] \in 0 .. MaxPrio - q

(* The time slice of the process on a CPU never exceeds the slots its      *)
(* priority has left, so the process is preempted in time.                 *)
WithinBudget ==
  \A c \in Cpus : proc[c] # None /\ pc[c] = "top" =>
    timeLeft[c] >= 0 /\ useTime[c] + timeLeft[c] <= SlotOf(proc[c])

(* Between two dispatches a process runs for one time slice at most.       *)
WithinSlice == \A c \in Cpus : proc[c] # None => useTime[c] <= TimeSlice

(* A dispatched process comes from the highest priority that has both a    *)
(* ready process and slots left.                                           *)
HighestFirst ==
  [][\A c \in Cpus : pc'[c] = "got" /\ pc[c] # "got" /\ proc'[c] # None =>
       \A q \in Prios : q < Prio[proc'[c]] => queue[q] = <<>> \/ slot[q] <= 0]_vars

(* Slots are refilled only when every priority with a ready process has    *)
(* used its own up: no priority gets a second share before the others had  *)
(* theirs.                                                                 *)
FairRefill ==
  [][\A q \in Prios : slot'[q] > slot[q] =>
       \A r \in Prios : queue[r] = <<>> \/ slot[r] <= 0]_vars
==============================================================================
