SPECIFICATION Spec
CHECK_DEADLOCK FALSE
SYMMETRY Symmetry
CONSTANTS
  Orders = {o1, o2}
  Units = {u1}
  Transactions = {t1, t2}
  NoOrder = NoOrder
  NoUnit = NoUnit
  MaxParts = 2
INVARIANTS
  RwIsForItsParts
  LentOnce
  LinksAreTrue
