------------------------------- MODULE KillAll -------------------------------
(***************************************************************************)
(* sys_killall.c: system call 101 over the scheduler of Os.tla.  One       *)
(* process makes the call, once.  killall empties every ready queue, then  *)
(* running_list, into a local queue and puts back what it keeps, without   *)
(* the scheduler's lock: each of its accesses to shared data is an action. *)
(*                                                                         *)
(* A process freed from a ready queue, or by a CPU when it had finished,   *)
(* is met again in running_list.  The name read from freed memory is       *)
(* arbitrary; if it matches, the process is freed twice and the C library  *)
(* stops the program.                                                      *)
(***************************************************************************)
EXTENDS Os

Lists == INSTANCE SequencesExt

CONSTANTS
  Killer,    \* the process that calls killall
  KillAt,    \* the program counter of the call
  Name,      \* file name of every process's program, a sequence
  NameKept,  \* how much of a file name fits in what load() stores
  Target     \* the name in the memory region that the call names

ASSUME KillAllAssumption ==
  /\ Killer \in Procs /\ KillAt \in 0 .. CodeSize[Killer] - 1
  /\ NameKept \in Nat /\ \A p \in Procs : Name[p] \in Seq(STRING)
  /\ Target \in Seq(STRING)

VARIABLES
  kill,    \* killall's locals: prio (MaxPrio: running_list), where it is with
           \* that queue, proc, tmp_queue
  crashed  \* behaviour is undefined from here on

killVars == <<kill, crashed>>
kvars == <<vars, killVars>>

NoKill == [prio |-> 0, at |-> "enter", proc |-> None, tmp |-> <<>>]

KInit == Init /\ kill = NoKill /\ crashed = FALSE

LoadedShort(name) ==   \* mutant: one too few
  IF Len(name) < NameKept THEN name ELSE SubSeq(name, 1, NameKept - 1)

\* load() keeps a prefix of the path: snprintf is told twice the size of a pointer
Loaded(name) == IF Len(name) <= NameKept THEN name ELSE SubSeq(name, 1, NameKept)

\* what strcmp can say of p's name
Matches(p) == IF p \in freed THEN BOOLEAN ELSE {Loaded(Name[p]) = Target}

------------------------------------------------------------------------------
Calls(c) == AtRun(c) /\ proc[c] = Killer /\ insn[Killer] = KillAt

\* as Run, up to the system call; the locals of cpu_routine move ahead
KillBegin(c) ==
  /\ Calls(c) /\ Spend(c) /\ Execute(Killer)
  /\ Goto(c, "kill")
  /\ UNCHANGED <<schedVars, clockVars, ldVars, freed, proc, remaining, loaded, killVars>>

Swept == IF kill.prio < MaxPrio THEN queue[kill.prio] ELSE runningList

Sweep(list) ==
  /\ IF kill.prio < MaxPrio
     THEN queue' = [queue EXCEPT ![kill.prio] = list] /\ UNCHANGED runningList
     ELSE runningList' = list /\ UNCHANGED queue
  /\ UNCHANGED <<slot, scan>>

Killing(c) == pc[c] = "kill" /\ kill.prio <= MaxPrio

OnKeeping == [kill EXCEPT !.at = "enter", !.proc = None]   \* mutant: prio stays

\* to the next queue, with a new local queue
On == [NoKill EXCEPT !.prio = kill.prio + 1]

KillSkip(c) ==
  /\ Killing(c) /\ kill.at = "enter" /\ Swept = <<>>
  /\ kill' = On
  /\ UNCHANGED <<vars, crashed>>

\* dequeue reads the head ...
KillFetch(c) ==
  /\ Killing(c) /\ kill.at # "store" /\ kill.proc = None /\ Swept # <<>>
  /\ kill' = [kill EXCEPT !.at = "loop", !.proc = Head(Swept)]
  /\ UNCHANGED <<vars, crashed>>

\* mutants: the process is kept and freed; the order is turned round
KeptAll(matches) == Enqueue(kill.tmp, kill.proc)
KeptInFront(matches) ==
  IF matches THEN kill.tmp ELSE <<kill.proc>> \o kill.tmp

Kept(matches) == IF matches THEN kill.tmp ELSE Enqueue(kill.tmp, kill.proc)

(* ... and shifts the rest, whatever it is by now (it has written outside  *)
(* the array if another CPU took the last process).  Then the process is   *)
(* kept or freed.                                                          *)
KillTake(c) ==
  /\ Killing(c) /\ kill.proc # None
  /\ \E matches \in Matches(kill.proc) :
       /\ Sweep(IF Swept = <<>> THEN <<>> ELSE Dequeued(Swept))
       /\ kill' = [kill EXCEPT !.proc = None, !.tmp = Kept(matches)]
       /\ freed' = IF matches THEN freed \cup {kill.proc} ELSE freed
       /\ crashed' = (Swept = <<>> \/ (matches /\ kill.proc \in freed))
  /\ UNCHANGED <<clockVars, cpuVars, ldVars, insn>>

\* the inner loop found the queue empty ...
KillLeave(c) ==
  /\ Killing(c) /\ kill.at = "loop" /\ kill.proc = None /\ Swept = <<>>
  /\ kill' = [kill EXCEPT !.at = "store"]
  /\ UNCHANGED <<vars, crashed>>

\* ... and *queue = tmp_queue, whatever is there by now
KillStore(c) ==
  /\ Killing(c) /\ kill.at = "store"
  /\ Sweep(kill.tmp)
  /\ kill' = On
  /\ UNCHANGED <<clockVars, cpuVars, ldVars, insn, freed, crashed>>

KillEnd(c) ==
  /\ pc[c] = "kill" /\ kill.prio > MaxPrio
  /\ kill' = NoKill
  /\ Clock!Arrive(c) /\ Goto(c, "top")
  /\ UNCHANGED <<schedVars, ldVars, insn, freed, crashed>>
  /\ UNCHANGED <<proc, timeLeft, useTime, remaining, loaded>>

KillStep(c) ==
  \/ KillBegin(c) \/ KillSkip(c) \/ KillFetch(c) \/ KillTake(c)
  \/ KillLeave(c) \/ KillStore(c) \/ KillEnd(c)

------------------------------------------------------------------------------
\* a CPU that does not call killall now
PlainStep(c) == ~Calls(c) /\ CpuStep(c)

KCpu(c) == ~crashed /\ (KillStep(c) \/ (PlainStep(c) /\ UNCHANGED killVars))
KLoader == ~crashed /\ LoaderStep /\ UNCHANGED killVars
KTimer == ~crashed /\ TimerTick /\ UNCHANGED killVars

KExit == (AllStopped \/ crashed) /\ UNCHANGED kvars

KNext == KTimer \/ KLoader \/ KExit \/ \E c \in Cpus : KCpu(c)

KSpec ==
  /\ KInit /\ [][KNext]_kvars
  /\ WF_kvars(KTimer) /\ WF_kvars(KLoader)
  /\ \A c \in Cpus : WF_kvars(KCpu(c))

------------------------------------------------------------------------------
(* With one CPU and every process loaded killall is not disturbed.  What   *)
(* it promises then:                                                       *)

Doomed(p) == Name[p] = Target

\* the ready queue of a priority, with what killall holds of it
Waiting(q) == IF kill.prio = q THEN kill.tmp \o queue[q] ELSE queue[q]

Waits(p) == \E q \in Prios : \E i \in DOMAIN Waiting(q) : Waiting(q)[i] = p

(* A process that is not named waits, is with a CPU, or ran to its end:    *)
(* through every dequeue and enqueue of killall.  Names are compared as    *)
(* load() stored them, the promise is about the programs' real names.      *)
SurvivorsKept ==
  ~crashed => \A p \in 1 .. loading - 1 :
    \/ Doomed(p) \/ Waits(p)
    \/ \E c \in Cpus : Owns(c, p)
    \/ p \in freed /\ insn[p] = CodeSize[p]

(* killall takes out what it frees and leaves the others in their order.   *)
OrderKept ==
  [][\A c \in Cpus : pc[c] = "kill" /\ ~crashed' =>
       \A q \in Prios :
         /\ \A i \in DOMAIN Waiting(q)' : Waiting(q)'[i] \notin freed' \ freed
         /\ \/ UNCHANGED Waiting(q)
            \/ \E i \in DOMAIN Waiting(q) :
                 /\ Waiting(q)[i] \in freed' \ freed
                 /\ Waiting(q)' = Lists!RemoveAt(Waiting(q), i)]_kvars

(* When killall returns, no process of that name and none that was freed   *)
(* is in a ready queue or with a CPU any more.                             *)
NamedGone ==
  [][\A c \in Cpus : pc[c] = "kill" /\ pc'[c] = "top" =>
       \A p \in Procs : Doomed(p) \/ p \in freed =>
         ~Queued(p) /\ \A d \in Cpus : ~Owns(d, p)]_kvars

(* A killed process is not run again.                                      *)
KilledStops ==
  [][\A p \in Procs : p \in freed => insn'[p] = insn[p]]_kvars

(* The simulator comes to its end, if only by the double free that killing *)
(* a waiting process can lead to.                                          *)
KTerminates == <>(AllStopped \/ crashed)
==============================================================================
