\* Programs may end at any point; with every frame leaked by failed
\* allocations no further step of theirs is explored.
CONSTANTS
  Procs = {p1, p2}
  RamFrames = 3
  SwapFrames <- MCSwap
  MaxPages = 4
  MaxEnd = 4
  MaxAlloc = 2
  Values = {1, 2}
  Workload = "online"
SYMMETRY Perms
SPECIFICATION Spec
INVARIANTS TypeOK FrameExclusive SwapExclusive FifoIsOnline AllReplaceable DataIntact ReadYourWrites NoPhantom
PROPERTY StoreSpec
CHECK_DEADLOCK FALSE
