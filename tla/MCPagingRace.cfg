CONSTANTS
  Procs = {p1, p2}
  RamFrames = 2
  SwapFrames <- MCSwapBig
  MaxPages = 3
  MaxEnd = 1
  MaxAlloc = 1
  Values = {1}
  Workload = "apart"
SYMMETRY Perms
SPECIFICATION Spec
INVARIANTS SwapExclusive
