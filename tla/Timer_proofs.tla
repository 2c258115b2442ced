----------------------------- MODULE Timer_proofs -----------------------------
(***************************************************************************)
(* Proofs about Timer.tla for any number of devices and slots.             *)
(*                                                                         *)
(* The inductive invariant says what the timer's position in its two loops *)
(* guarantees: while it collects, every device it has counted has posted   *)
(* or detached and stays so; while it releases, so does every device it    *)
(* has not reached yet.                                                    *)
(***************************************************************************)
EXTENDS Timer, TLAPS

Collecting == tm \in {"collect", "asleep"}

(* The device thread's place and its two flags.                            *)
Flags ==
  \A d \in Devices :
    /\ dev[d] = "work" => ~done[d]
    /\ dev[d] = "gone" <=> fsh[d]
    /\ fsh[d] => ~done[d]

(* What the timer has counted cannot change under it.                      *)
Counted ==
  Collecting =>
    /\ \A d \in Devices : d < cur => done[d] \/ fsh[d]
    /\ nevent = cur - 1 /\ nfsh <= nevent
    /\ nfsh = nevent <=> \A d \in Devices : d < cur => fsh[d]

(* What the timer has still to release is still waiting.                   *)
Pending ==
  tm = "release" => \A d \in Devices : d >= cur => done[d] \/ fsh[d]

(* A posted device that is not about to be released leaves a slot to come. *)
SlotsLeft ==
  \A d \in Devices : done[d] /\ tm # "exited" /\ ~(tm = "release" /\ d >= cur)
    => time < MaxSlots

Stopped == timerStop \/ tm = "exited" => \A d \in Devices : dev[d] = "gone"

IInv ==
  /\ TypeOK /\ NoLostWakeup
  /\ (tm = "asleep" => cur <= N)
  /\ Flags /\ Counted /\ Pending /\ SlotsLeft /\ Stopped

LEMMA InitInv == Init => IInv
<1> SUFFICES ASSUME Init PROVE IInv
  OBVIOUS
<1> USE TimerAssumption DEF Init, Devices
<1>1. TypeOK
  <2>1. done \in [Devices -> BOOLEAN] /\ fsh \in [Devices -> BOOLEAN]
    BY Zenon
  <2>2. dev \in [Devices -> {"work", "posted", "asleep", "gone"}]
    BY Zenon
  <2>3. timerStop \in BOOLEAN
    BY Zenon
  <2>4. time \in 0 .. MaxSlots /\ cur \in 1 .. N + 1 /\ nfsh \in 0 .. N /\ nevent \in 0 .. N
    BY SMT
  <2> QED
    BY <2>1, <2>2, <2>3, <2>4 DEF TypeOK
<1>2. NoLostWakeup /\ Flags /\ Pending /\ SlotsLeft /\ Stopped
  BY DEF NoLostWakeup, Flags, Pending, SlotsLeft, Stopped
<1>3. Counted
  BY DEF Counted, Collecting
<1> QED
  BY <1>1, <1>2, <1>3 DEF IInv

LEMMA NextInv == IInv /\ [Next]_vars => IInv'
<1> SUFFICES ASSUME IInv, [Next]_vars PROVE IInv'
  OBVIOUS
<1> USE TimerAssumption
    DEF IInv, TypeOK, NoLostWakeup, Flags, Counted, Pending, SlotsLeft, Stopped,
        Collecting, Devices
<1>1. ASSUME NEW d \in Devices, Post(d) PROVE IInv'
  BY <1>1 DEF Post, SignalEvent
<1>2. ASSUME NEW d \in Devices, AwaitSlot(d) PROVE IInv'
  BY <1>2 DEF AwaitSlot
<1>3. ASSUME NEW d \in Devices, SpuriousDevice(d) PROVE IInv'
  BY <1>3 DEF SpuriousDevice
<1>4. ASSUME NEW d \in Devices, Detach(d) PROVE IInv'
  BY <1>4 DEF Detach, SignalEvent
<1>5. CASE Count
  BY <1>5 DEF Count, SlotDone
<1>6. CASE AwaitEvent
  BY <1>6 DEF AwaitEvent, SlotDone
<1>7. CASE SpuriousTimer
  BY <1>7 DEF SpuriousTimer
<1>8. CASE Advance
  BY <1>8 DEF Advance, AllDetached
<1>9. CASE Release
  BY <1>9 DEF Release, SignalTimer
<1>10. CASE NextPass
  BY <1>10 DEF NextPass
<1>11. CASE StopTimer
  BY <1>11 DEF StopTimer
<1>12. CASE UNCHANGED vars
  BY <1>12 DEF vars
<1> QED
  BY <1>1, <1>2, <1>3, <1>4, <1>5, <1>6, <1>7, <1>8, <1>9, <1>10, <1>11, <1>12
     DEF Next, TimerStep, DeviceStep, Terminated

(* The inductive invariant holds in every reachable state.                 *)
THEOREM Invariance == Spec => []IInv
BY InitInv, NextInv, PTL DEF Spec

------------------------------------------------------------------------------
(* Types are kept: no counter or cursor of the timer leaves its range.     *)
THEOREM TypeCorrect == Spec => []TypeOK
BY Invariance, PTL DEF IInv

(* No thread sleeps on a change that has been signalled already.           *)
THEOREM WakeupsKept == Spec => []NoLostWakeup
BY Invariance, PTL DEF IInv

(* The timer thread outlives every device, so stop_timer may free.         *)
THEOREM TimerLast == Spec => []ExitsLast
<1>1. IInv => ExitsLast
  BY DEF IInv, Stopped, ExitsLast
<1> QED
  BY <1>1, Invariance, PTL

(* The slot number stands still while a device works.                      *)
THEOREM SlotStable == Spec => LockStep
<1>1. IInv /\ [Next]_vars => [time' # time => \A d \in Devices : dev[d] # "work"]_vars
  <2> SUFFICES ASSUME IInv, Next, time' # time
               PROVE  \A d \in Devices : dev[d] # "work"
    OBVIOUS
  <2>1. Advance /\ cur = N + 1 /\ Collecting
    BY DEF Next, TimerStep, DeviceStep, Post, AwaitSlot, SpuriousDevice, Detach,
           Count, AwaitEvent, SpuriousTimer, Advance, Release, NextPass,
           StopTimer, Terminated, vars, Collecting
  <2> QED
    BY <2>1, TimerAssumption DEF IInv, Counted, Flags, Devices
<1> QED
  BY <1>1, Invariance, PTL DEF Spec, LockStep

------------------------------------------------------------------------------
(* The mapping to SlotClock, one implementation step at a time.            *)
Arrived == {d \in Devices : Unreleased(d) /\ ~fsh[d]}
Left == {d \in Devices : fsh[d]}

LEMMA PostArrives ==
  ASSUME IInv, NEW d \in Devices, Post(d)
  PROVE  Clock!Arrive(d)
<1> USE DEF IInv, TypeOK, Post, Flags, Pending, Unreleased
<1>1. ~fsh[d] /\ ~done[d] /\ ~(tm = "release" /\ cur <= d)
  BY DEF Devices
<1>2. tm' = "release" <=> tm = "release"
  BY DEF SignalEvent
<1>3. Arrived' = Arrived \cup {d}
  BY <1>1, <1>2 DEF Arrived
<1> QED
  BY <1>1, <1>3 DEF Arrived, Clock!Arrive, Clock!Working

LEMMA DetachLeaves ==
  ASSUME IInv, NEW d \in Devices, Detach(d)
  PROVE  Clock!Leave(d)
<1> USE DEF IInv, TypeOK, Detach, Flags, Unreleased
<1>1. ~fsh[d] /\ ~done[d]
  OBVIOUS
<1>2. tm' = "release" <=> tm = "release"
  BY DEF SignalEvent
<1>3. Arrived' = Arrived /\ Left' = Left \cup {d}
  BY <1>1, <1>2 DEF Arrived, Left
<1> QED
  BY <1>1, <1>3 DEF Arrived, Left, Clock!Leave, Clock!Working

LEMMA AdvanceTicks ==
  ASSUME IInv, Advance
  PROVE  Clock!Tick \/ UNCHANGED <<time, Arrived, Left>>
<1> USE TimerAssumption DEF IInv, TypeOK, Advance, AllDetached, Flags, Counted, Collecting, Devices
<1>1. CASE nfsh = nevent
  BY <1>1 DEF Arrived, Left, Unreleased
<1>2. CASE nfsh # nevent
  <2>1. \A d \in Devices : Unreleased(d) \/ fsh[d]
    BY <1>2 DEF Unreleased
  <2>2. PICK d \in Devices : ~fsh[d]
    BY <1>2
  <2>3. Arrived # {}
    BY <2>1, <2>2 DEF Arrived
  <2>4. Arrived' = {} /\ Left' = Left
    BY <1>2 DEF Arrived, Left, Unreleased
  <2> QED
    BY <1>2, <2>1, <2>3, <2>4 DEF Arrived, Left, Clock!Tick, Clock!Working
<1> QED
  BY <1>1, <1>2

LEMMA OtherStutters ==
  ASSUME IInv,
         \/ Count \/ AwaitEvent \/ SpuriousTimer \/ Release \/ NextPass
         \/ StopTimer \/ UNCHANGED vars
         \/ \E d \in Devices : AwaitSlot(d) \/ SpuriousDevice(d)
  PROVE  UNCHANGED <<time, Arrived, Left>>
<1> USE TimerAssumption DEF IInv, TypeOK, Arrived, Left, Unreleased, Devices
<1>1. CASE Count \/ AwaitEvent \/ SpuriousTimer
  BY <1>1 DEF Count, AwaitEvent, SpuriousTimer
<1>2. CASE Release
  BY <1>2 DEF Release
<1>3. CASE NextPass
  BY <1>3 DEF NextPass
<1>4. CASE StopTimer \/ UNCHANGED vars
  BY <1>4 DEF StopTimer, vars
<1>5. CASE \E d \in Devices : AwaitSlot(d) \/ SpuriousDevice(d)
  BY <1>5 DEF AwaitSlot, SpuriousDevice
<1> QED
  BY <1>1, <1>2, <1>3, <1>4, <1>5

(* timer.c implements the slot barrier that Os.tla assumes: every step of  *)
(* its threads is an arrival, a departure, a tick or a stutter.            *)
THEOREM Implements == Spec => ClockSafety
<1>1. Init => Clock!ClockInit
  BY DEF Init, Clock!ClockInit, Unreleased
<1>2. IInv /\ [Next]_vars => [Clock!ClockNext]_(Clock!clockVars)
  <2> SUFFICES ASSUME IInv, [Next]_vars
               PROVE  Clock!ClockNext \/ UNCHANGED <<time, Arrived, Left>>
    BY DEF Clock!clockVars, Arrived, Left
  <2>1. CASE \E d \in Devices : Post(d) \/ Detach(d)
    BY <2>1, PostArrives, DetachLeaves DEF Clock!ClockNext
  <2>2. CASE Advance
    BY <2>2, AdvanceTicks DEF Clock!ClockNext
  <2> QED
    BY <2>1, <2>2, OtherStutters DEF Next, TimerStep, DeviceStep, Terminated
<1> QED
  BY <1>1, <1>2, Invariance, PTL DEF Spec, ClockSafety, Clock!ClockSafety
==============================================================================
