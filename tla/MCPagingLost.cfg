CONSTANTS
  Procs = {p1, p2}
  RamFrames = 2
  SwapFrames <- MCSwap
  MaxPages = 3
  MaxEnd = 3
  MaxAlloc = 2
  Values = {1, 2}
  Workload = "valid"
SYMMETRY Perms
SPECIFICATION Spec
INVARIANTS ReadYourWrites
