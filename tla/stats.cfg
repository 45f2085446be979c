SPECIFICATION Spec
CHECK_DEADLOCK FALSE
SYMMETRY Symmetry
CONSTRAINT ShortOnceDrifted
CONSTANTS
  Orders = {1, 2, 3}
  Twins = {1, 2}
  Requests = {q1, q2}
  LastDay = 2
  MaxBegun = 4
INVARIANTS
  TypeOK
  CountersFit
  SamplesFollow
