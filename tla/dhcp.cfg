SPECIFICATION Spec
CONSTANTS
  Clients = {c1, c2}
  NoMac = NoMac
  MaxIp = 2
  LeaseTime = 2
  Unit = 3
  Wrap = 12
  Start = 6
  MaxNow = 15
  MaxInFlight = 2
SYMMETRY ClientSymmetry
INVARIANTS NoSharedAddress OfferUnlessFull
