SPECIFICATION FairSpec
CONSTANTS
  Notices = {n1, n2}
  Flushes = {f1, f2}
  Window = 1
INVARIANTS
  CancelledInTimeIsNotMailed
  MailedTwiceOnlyInDoubt
  SentIsMailed
PROPERTIES
  ClosedIsFinal
  NoNoticeIsLost
