SPECIFICATION Spec
CONSTANTS
  N = 2
  Pooled = {p1, p2, p3}
  MaxOps = 2
INVARIANT NeverStranded
CHECK_DEADLOCK FALSE
SYMMETRY Symmetry
