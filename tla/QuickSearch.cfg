CONSTANTS
  Fields = {"message", "level"}
  Values = {"a", "b"}
  Names <- MCNames
  QuotedWords = {"q"}
  Finds <- MCFinds
  RegexFinds <- MCRegexFinds
  MaxRows = 3
  Arriving <- MCArriving
  Texts <- MCTexts
SPECIFICATION QuickSearchSpec
INVARIANTS TextMeansWhatItSays DropKeepsMeaning
PROPERTIES FindsNearest SearchEnds
