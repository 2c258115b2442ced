CONSTANTS
  NumProcs = 3
  MaxPrio = 2
  QueueCap = 3
  TimeSlice = 2
  Cpus = {c1}
  Loader = ld
  Prio <- MCRacePrio
  CodeSize <- MCRaceSize
  StartTime <- MCRaceStart
  Killer = 1
  KillAt = 1
  Name <- MCRaceName
  NameKept = 5
  Target <- MCNobody
SPECIFICATION KSpec
INVARIANTS SurvivorsKept
