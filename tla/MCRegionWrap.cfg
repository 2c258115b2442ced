CONSTANTS
  Syms = {r0, r1, r2}
  Sizes = {2, 8}
  PageSize = 4
  IntHalf = 32
  MaxBrk = 24
SPECIFICATION Spec
INVARIANT Disjoint
