SPECIFICATION Spec
SYMMETRY Symmetry
CONSTANTS
  Dialogs = {d1, d2}
  Lists = {l1, l2}
  NoList = NoList
  NoLock = NoLock
  LockTtl = 1
  MaxZds = 2
  MaxMails = 2
  Faults <- Breakdowns
INVARIANTS
  TypeOK
  AtMostOneZd
PROPERTIES
  MailedOnceUnlessLost
  ZdNumberStable
  SentIsFinal
  SectionSpec
