SPECIFICATION Spec
SYMMETRY Symmetry
CONSTRAINT UntilOverlap
CONSTANTS
  Requests = {q1, q2}
  Ordered = 2
INVARIANTS
  GoodsReturnToPickup
