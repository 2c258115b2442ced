CONSTANTS
  NumProcs = 3
  MaxPrio = 2
  QueueCap = 2
  TimeSlice = 2
  Cpus = {c1, c2}
  Loader = ld
  Prio <- MCPrio
  CodeSize <- MCCodeSize
  StartTime <- MCStartTime
SPECIFICATION Spec
INVARIANTS TypeOK Exclusive NotLost NoDangling AllFinished
PROPERTIES NoFalseNull Terminates
