CONSTANTS
  Fields <- MCFields
  Colors = {"red", "blue", "#a0ffd4", "#81bef7", "#ffc596", "#64ffa9", "#e4afff"}
  Exps = {"none", "find", "foreign"}
  Acts <- MCActs
  Descs = {"none"}
  SearchTexts = {"none", "bad"}
  Bars = {1, 2}
  MaxRows = 3
  MaxThings = 4
  MaxLines = 1
SPECIFICATION Spec
INVARIANTS TypeOK RulesInForce CellsAsWritten DiscardsUpToDate DropPlacesRows
