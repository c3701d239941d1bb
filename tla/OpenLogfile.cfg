CONSTANTS
  Fields = 3
  MessageID = 1
  Texts <- SomeTexts
  Numbers <- TwoNumbers
  Files <- SmallFiles
  PackageSize = 2
CHECK_DEADLOCK FALSE
SPECIFICATION FairSpec
INVARIANTS TypeOK RowsComeBack JoinsAsSequential ShownWholeAndOnce
PROPERTY OpeningEnds
