CONSTANTS
  Procs = {p1}
  RamFrames = 2
  SwapFrames <- MCSwapBig
  MaxPages = 4
  MaxEnd = 3
  MaxAlloc = 2
  Values = {1, 2}
  Workload = "apart"
SYMMETRY Perms
SPECIFICATION Spec
INVARIANTS FrameExclusive SwapExclusive FifoIsOnline AllReplaceable
