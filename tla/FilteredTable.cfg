CONSTANTS
  Kinds = {k1, k2}
  Around = 1
  Limits = {0, 3}
  MaxMess = 2
  MaxRows = 7
SPECIFICATION Spec
SYMMETRY KindSymmetry
INVARIANTS TypeOK ShownIsAccepted SurroundingsShown
