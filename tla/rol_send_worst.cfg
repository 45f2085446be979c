SPECIFICATION FairSpec
CONSTANTS
  Dialogs = {d1, d2}
  Lists = {l1}
  NoList = NoList
  NoLock = NoLock
  LockTtl = 1
  MaxZds = 1
  MaxMails = 1
  Faults <- Everything
INVARIANTS
  HistoryIsTrue
PROPERTIES
  LockComesBack
