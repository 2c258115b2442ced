CONSTANTS
  N = 3
  MaxSlots = 2
SPECIFICATION Spec
INVARIANTS TypeOK NoLostWakeup ExitsLast
PROPERTIES LockStep Terminates ClockSafety ClockSpec
