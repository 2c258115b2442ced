------------------------------ MODULE SlotClock ------------------------------
(***************************************************************************)
(* What timer.c promises the rest of the simulator: a clock whose slots    *)
(* are separated by a barrier.  A device is a CPU or the loader.  It works *)
(* in a slot until it calls next_slot (Arrive) or detach_event (Leave),    *)
(* and the slot ends (Tick) when every device has done one or the other.   *)
(* Timer.tla is the implementation with its threads and condition          *)
(* variables; Os.tla builds on this module.                                *)
(***************************************************************************)
EXTENDS Naturals

CONSTANT Devices   \* everything that called attach_event

VARIABLES
  time,      \* _time
  arrived,   \* devices blocked in next_slot
  left       \* devices that have detached

clockVars == <<time, arrived, left>>

ClockInit == time = 0 /\ arrived = {} /\ left = {}

Working(d) == d \in Devices \ (arrived \cup left)

Arrive(d) ==
  /\ Working(d)
  /\ arrived' = arrived \cup {d}
  /\ UNCHANGED <<time, left>>

Leave(d) ==
  /\ Working(d)
  /\ left' = left \cup {d}
  /\ UNCHANGED <<time, arrived>>

\* mutant: the slot ends as soon as somebody has arrived
TickEarly ==
  /\ arrived # {}
  /\ time' = time + 1
  /\ arrived' = {}
  /\ UNCHANGED left

Tick ==
  /\ arrived # {}
  /\ \A d \in Devices : ~Working(d)
  /\ time' = time + 1
  /\ arrived' = {}
  /\ UNCHANGED left

ClockNext == Tick \/ \E d \in Devices : Arrive(d) \/ Leave(d)

ClockSafety == ClockInit /\ [][ClockNext]_clockVars

(* The timer thread never sits on a finished slot. *)
ClockSpec == ClockSafety /\ WF_clockVars(Tick)
==============================================================================
