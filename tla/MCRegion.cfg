\* A program may end at any point; at MaxBrk with nothing to free it does.
CONSTANTS
  Syms = {r0, r1}
  Sizes = {1, 3, 5}
  PageSize = 4
  IntHalf = 1024
  MaxBrk = 8
SPECIFICATION Spec
INVARIANTS TypeOK Disjoint EdgeOnly
CHECK_DEADLOCK FALSE
