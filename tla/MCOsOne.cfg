CONSTANTS
  NumProcs = 6
  MaxPrio = 3
  QueueCap = 6
  TimeSlice = 2
  Cpus = {c1}
  Loader = ld
  Prio <- MCPrioMix
  CodeSize <- MCMixSize
  StartTime <- MCMixStart
  Killer = 5
  KillAt = 2
  Name <- MCName
  NameKept = 3
  Target <- MCTarget
SPECIFICATION KSpec
INVARIANTS SlotBounds WithinBudget WithinSlice SurvivorsKept
PROPERTIES HighestFirst FairRefill OrderKept NamedGone KilledStops KTerminates
