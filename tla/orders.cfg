SPECIFICATION Spec
SYMMETRY Symmetry
CONSTRAINT UntilOverlap
CONSTANTS
  Requests = {q1, q2}
  Ordered = 3
INVARIANTS
  TypeOK
  Coherent
  NotForgotten
  WrittenTogether
PROPERTIES
  WithdrawnStaysWithdrawn
