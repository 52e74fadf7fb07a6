\* Two MCFs, two shops, two stations of the first shop: two approvals for one MCF overlap.
CONSTANTS
  Devices = {d1, d2}
  Shops = {s1, s2}
  Gateways = {g1, g2}
  Users = {u1, u2}
  Keys = {k1, k2}
  None = None
  s1 = s1
  s2 = s2
  ShopOf <- OneShop
  TwoPeople = TRUE
  Overlap = TRUE
  MaxEdits = 1
  MaxCodes = 2
SPECIFICATION Spec
SYMMETRY Alike
INVARIANT
  OneActivePerMcf
