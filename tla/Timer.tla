-------------------------------- MODULE Timer --------------------------------
(***************************************************************************)
(* timer.c: the timer thread and the devices that run in lock step with it.*)
(*                                                                         *)
(* Every pthread critical section is one action: a device's `done' is      *)
(* written under two different mutexes (event_lock by the device,          *)
(* timer_lock by the timer), so no step here spans two of them.  Being     *)
(* inside pthread_cond_wait is the state "asleep"; a signal and a spurious *)
(* wake-up both lead back to the test of the waiting loop.                 *)
(***************************************************************************)
EXTENDS Naturals

CONSTANTS
  N,          \* devices; device i is the i-th node of dev_list
  MaxSlots    \* bound: a device detaches at the latest in slot MaxSlots

ASSUME TimerAssumption == N \in Nat \ {0} /\ MaxSlots \in Nat

Devices == 1 .. N

VARIABLES
  time,       \* _time
  done, fsh,  \* the two flags of each timer_id_t
  dev,        \* device thread: "work", "posted", "asleep" or "gone"
  tm,         \* timer thread: "collect", "asleep", "release" or "exited"
  cur,        \* temp, the node of dev_list the timer is at (N+1 is NULL)
  nfsh,       \* fsh, the finished devices counted in this pass
  nevent,     \* event, the devices counted in this pass
  timerStop   \* timer_stop

vars == <<time, done, fsh, dev, tm, cur, nfsh, nevent, timerStop>>

(* main has attached all devices (attach_event refuses after start_timer)  *)
(* and has started the timer.                                              *)
Init ==
  /\ time = 0
  /\ done = [d \in Devices |-> FALSE]
  /\ fsh = [d \in Devices |-> FALSE]
  /\ dev = [d \in Devices |-> "work"]
  /\ tm = "collect" /\ cur = 1 /\ nfsh = 0 /\ nevent = 0
  /\ timerStop = FALSE

------------------------------------------------------------------------------
(* pthread_cond_signal on a device's event_cond: only the timer can be     *)
(* waiting on it.                                                          *)
SignalEventLost(d) == tm' = tm   \* mutant: no signal

SignalEvent(d) == tm' = IF tm = "asleep" /\ cur = d THEN "collect" ELSE tm

\* next_slot, first critical section: the slot's job is done
Post(d) ==
  /\ dev[d] = "work" /\ time < MaxSlots
  /\ done' = [done EXCEPT ![d] = TRUE]
  /\ dev' = [dev EXCEPT ![d] = "posted"]
  /\ SignalEvent(d)
  /\ UNCHANGED <<time, fsh, cur, nfsh, nevent, timerStop>>

\* mutant: the loop also waits for fsh
AwaitSlotForever(d) ==
  /\ dev[d] = "posted"
  /\ dev' = [dev EXCEPT ![d] = IF done[d] THEN "asleep" ELSE IF fsh[d] THEN "work" ELSE @]
  /\ UNCHANGED <<time, done, fsh, tm, cur, nfsh, nevent, timerStop>>

\* next_slot, second critical section: one turn of `while (done) wait'
AwaitSlot(d) ==
  /\ dev[d] = "posted"
  /\ dev' = [dev EXCEPT ![d] = IF done[d] THEN "asleep" ELSE "work"]
  /\ UNCHANGED <<time, done, fsh, tm, cur, nfsh, nevent, timerStop>>

\* POSIX lets pthread_cond_wait return without a signal
SpuriousDevice(d) ==
  /\ dev[d] = "asleep"
  /\ dev' = [dev EXCEPT ![d] = "posted"]
  /\ UNCHANGED <<time, done, fsh, tm, cur, nfsh, nevent, timerStop>>

\* detach_event, then the thread exits
Detach(d) ==
  /\ dev[d] = "work"
  /\ fsh' = [fsh EXCEPT ![d] = TRUE]
  /\ dev' = [dev EXCEPT ![d] = "gone"]
  /\ SignalEvent(d)
  /\ UNCHANGED <<time, done, cur, nfsh, nevent, timerStop>>

------------------------------------------------------------------------------
SlotDoneOrLast(d) == done[d] \/ fsh[d] \/ d = N   \* mutant: last node not awaited

SlotDone(d) == done[d] \/ fsh[d]

\* the device the timer is at has finished its slot, or for good
Count ==
  /\ tm = "collect" /\ cur <= N
  /\ SlotDone(cur)
  /\ nfsh' = IF fsh[cur] THEN nfsh + 1 ELSE nfsh
  /\ nevent' = nevent + 1
  /\ cur' = cur + 1
  /\ UNCHANGED <<time, done, fsh, dev, tm, timerStop>>

\* it has not: wait on its event_cond
AwaitEvent ==
  /\ tm = "collect" /\ cur <= N
  /\ ~SlotDone(cur)
  /\ tm' = "asleep"
  /\ UNCHANGED <<time, done, fsh, dev, cur, nfsh, nevent, timerStop>>

SpuriousTimer ==
  /\ tm = "asleep"
  /\ tm' = "collect"
  /\ UNCHANGED <<time, done, fsh, dev, cur, nfsh, nevent, timerStop>>

AnyDetached == nfsh > 0   \* mutant

AllDetached == nfsh = nevent

\* mutant: the slot number moves before the test
AdvanceFirst ==
  /\ tm = "collect" /\ cur = N + 1
  /\ tm' = IF AllDetached THEN "exited" ELSE "release"
  /\ time' = time + 1 /\ cur' = 1
  /\ UNCHANGED <<done, fsh, dev, nfsh, nevent, timerStop>>

\* everybody counted: either all have detached or the next slot begins
Advance ==
  /\ tm = "collect" /\ cur = N + 1
  /\ IF AllDetached
     THEN tm' = "exited" /\ UNCHANGED <<time, cur>>
     ELSE tm' = "release" /\ time' = time + 1 /\ cur' = 1
  /\ UNCHANGED <<done, fsh, dev, nfsh, nevent, timerStop>>

(* pthread_cond_signal on a device's timer_cond *)
SignalTimer(d) ==
  dev' = IF dev[d] = "asleep" THEN [dev EXCEPT ![d] = "posted"] ELSE dev

\* let the device the timer is at continue its job
Release ==
  /\ tm = "release" /\ cur <= N
  /\ done' = [done EXCEPT ![cur] = FALSE]
  /\ SignalTimer(cur)
  /\ cur' = cur + 1
  /\ UNCHANGED <<time, fsh, tm, nfsh, nevent, timerStop>>

\* mutant: the counters are not reset
NextPassCounting ==
  /\ tm = "release" /\ cur = N + 1
  /\ tm' = (IF timerStop THEN "exited" ELSE "collect") /\ cur' = 1
  /\ UNCHANGED <<time, done, fsh, dev, nfsh, nevent, timerStop>>

\* `while (!timer_stop)', with the locals of the next pass reset
NextPass ==
  /\ tm = "release" /\ cur = N + 1
  /\ IF timerStop
     THEN tm' = "exited" /\ UNCHANGED <<cur, nfsh, nevent>>
     ELSE tm' = "collect" /\ cur' = 1 /\ nfsh' = 0 /\ nevent' = 0
  /\ UNCHANGED <<time, done, fsh, dev, timerStop>>

\* main has joined the device threads and calls stop_timer
StopTimer ==
  /\ \A d \in Devices : dev[d] = "gone"
  /\ ~timerStop
  /\ timerStop' = TRUE
  /\ UNCHANGED <<time, done, fsh, dev, tm, cur, nfsh, nevent>>

\* stop_timer has joined the timer thread: the program is over
Terminated == tm = "exited" /\ timerStop /\ UNCHANGED vars

TimerStep == Count \/ AwaitEvent \/ Advance \/ Release \/ NextPass
DeviceStep(d) == Post(d) \/ AwaitSlot(d) \/ Detach(d)

Next ==
  \/ TimerStep \/ SpuriousTimer \/ StopTimer \/ Terminated
  \/ \E d \in Devices : DeviceStep(d) \/ SpuriousDevice(d)

(* Threads that can run are scheduled; nothing makes a spurious wake-up    *)
(* happen.                                                                 *)
Spec ==
  /\ Init /\ [][Next]_vars
  /\ WF_vars(TimerStep) /\ WF_vars(StopTimer)
  /\ \A d \in Devices : WF_vars(DeviceStep(d))

------------------------------------------------------------------------------
TypeOK ==
  /\ time \in 0 .. MaxSlots
  /\ done \in [Devices -> BOOLEAN] /\ fsh \in [Devices -> BOOLEAN]
  /\ dev \in [Devices -> {"work", "posted", "asleep", "gone"}]
  /\ tm \in {"collect", "asleep", "release", "exited"}
  /\ cur \in 1 .. N + 1
  /\ nfsh \in 0 .. N /\ nevent \in 0 .. N
  /\ timerStop \in BOOLEAN

(* No wake-up is lost although `done' is guarded by two mutexes: a thread  *)
(* inside pthread_cond_wait is waiting for something that is still to      *)
(* come, never for a change that has already been signalled.               *)
NoLostWakeup ==
  /\ tm = "asleep" => ~done[cur] /\ ~fsh[cur]
  /\ \A d \in Devices : dev[d] = "asleep" => done[d]

(* current_time() is constant while a device works: the slot number moves  *)
(* only when every device is blocked in next_slot or has detached.  The    *)
(* loader's start-time loop relies on it.                                  *)
LockStep == [][time' # time => \A d \in Devices : dev[d] # "work"]_vars

(* The timer thread ends only after every device has detached, so          *)
(* stop_timer frees no timer_id_t that a thread still uses.                *)
ExitsLast == tm = "exited" => \A d \in Devices : dev[d] = "gone"

(* main's pthread_join of the timer returns. *)
Terminates == <>(tm = "exited" /\ timerStop)

(* The barrier of SlotClock: a device has been released from the moment    *)
(* _time moves, even if the timer has not yet reached it in its loop.      *)
Unreleased(d) == done[d] /\ ~(tm = "release" /\ cur <= d)

Clock == INSTANCE SlotClock WITH
  arrived <- {d \in Devices : Unreleased(d) /\ ~fsh[d]},
  left    <- {d \in Devices : fsh[d]}

ClockSafety == Clock!ClockSafety
ClockSpec == Clock!ClockSpec
==============================================================================
