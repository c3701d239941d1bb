CONSTANTS
  Windows = {w1, w2}
  ColumnCount = 3
  Sizes = {100, 200}
  DefaultWidth <- ThreeWidths
  DefaultOrder <- ShiftedOrder
  MaxChanges = 3
SPECIFICATION HeaderSpec
INVARIANT HeaderTypeOK
PROPERTIES NewWindowLooksLikeLast OpeningKeepsSettings
SYMMETRY SameWindows
