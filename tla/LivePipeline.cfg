SPECIFICATION FairSpec
CONSTANTS
  r1 = r1
  r2 = r2
  Receivers = {r1, r2}
  BatchSize = 2
  SendLimit = 3
  Limits = {0, 1, 2}
INVARIANTS
  TypeOK
  OneOutstanding
  NumbersUpgrowing
PROPERTIES
  ImplementsStream
  EntriesLeaveTheLine
