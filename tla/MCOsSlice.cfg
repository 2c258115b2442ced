CONSTANTS
  NumProcs = 3
  MaxPrio = 2
  QueueCap = 3
  TimeSlice = 1
  Cpus = {c1, c2}
  Loader = ld
  Prio <- MCPrioLow
  CodeSize <- MCLongSize
  StartTime <- MCNoStart
SPECIFICATION Spec
INVARIANTS WithinSlice
