CONSTANTS
  Strings <- SmallStrings
  FirstCount = 1
  MoreCount = 1
  MaxPosted = 3
  MaxClicks = 1
CHECK_DEADLOCK FALSE
SPECIFICATION FairSpec
INVARIANTS FeedTypeOK FilterMatchesTree PartialTellsTruth SelectionDecidesRows
PROPERTIES OnlyThisIsSelected AbortEnds
