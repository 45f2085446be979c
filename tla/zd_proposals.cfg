SPECIFICATION FairSpec
CONSTANTS
  Requests = {q1, q2}
  Instances = {"i1"}
  MaxProposals = 2
  MaxZds = 2
INVARIANTS
  TypeOK
  OneZdPerProposal
  OpenIsNotOrdered
PROPERTIES
  DecidedIsFinal
  AttemptIsLeftAlone
  AttemptIsSettled
