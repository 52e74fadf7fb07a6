\* Two MCFs, two shops, two stations of the first shop, two people.
CONSTANTS
  Devices = {d1, d2}
  Shops = {s1, s2}
  Gateways = {g1, g2}
  Users = {u1, u2}
  Keys = {k1, k2}
  None = None
  s1 = s1
  s2 = s2
  ShopOf <- OneShop
  TwoPeople = TRUE
  Overlap = FALSE
  MaxEdits = 1
  MaxCodes = 2
SPECIFICATION Spec
SYMMETRY Alike
INVARIANTS
  AccessTypeOK
  KeyApproved
  OneActivePerMcf
  ActiveIsAccepted
PROPERTY
  RevokedStaysOut
