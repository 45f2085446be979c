SPECIFICATION FairSpec
CONSTANTS
  Jobs = {j1, j2, j3}
  Keys = {k1, k2}
  Ttls = {1, 2}
  NoRow = NoRow
  NoKey = NoKey
INVARIANTS
  MutualExclusion
PROPERTIES
  SectionSpec
  AlwaysTakeableAgain
