CONSTANTS
  HeaderSize = 2
  MaxSize = 3
  Sizes <- PayloadSizes
  MaxFrames = 3
SPECIFICATION FairSpec
INVARIANTS TypeOK FramesBecomeEntries MemoryBound
PROPERTIES ArrivedEntriesDelivered
CHECK_DEADLOCK FALSE
