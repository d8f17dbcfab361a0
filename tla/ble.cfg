SPECIFICATION Spec
CONSTANTS
  a1 = a1
  a2 = a2
  a3 = a3
  Addresses = {a1, a2, a3}
  AddressType <- MCAddressType
  Adverts <- MCAdverts
  NoReport = NoReport
  TableSize = 3
  AllowedMax = 2
  Expiry = 1
  Wrap = 100
  MaxNow = 3
  Free = Free
INVARIANTS ReadingsAreSound RowsAreDistinct SelectedIsTracked
PROPERTY LosesRowForAReason
