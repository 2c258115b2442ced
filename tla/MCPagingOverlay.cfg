CONSTANTS
  Procs = {p1}
  RamFrames = 2
  SwapFrames <- MCSwapBig
  MaxPages = 3
  MaxEnd = 3
  MaxAlloc = 1
  Values = {1}
  Workload = "stray"
SYMMETRY Perms
SPECIFICATION Spec
INVARIANTS VictimOnline
