CONSTANTS
  Windows = {w1, w2, w3}
  NoWindow = NoWindow
  AddressOrders <- AllOrders
SPECIFICATION Spec
SYMMETRY WindowsAlike
INVARIANTS TypeOK CaptureFollowsInOrder SharedBelongToActive NothingOfTheDeleted
