SPECIFICATION Spec
CONSTANTS
  Requests = {q1, q2}
  Instances = {"i1", "i2"}
  MaxProposals = 2
  MaxZds = 2
PROPERTIES
  EarlierZdCounted
