CONSTANTS
  Invoices = {i1}
  Workers = {w1, w2}
  None = None
  Priority = "e-MCF"
  MaxOps = 3
  MaxRequests = 2
  MaxTroubles = 0
  Windows = {"twice"}
SPECIFICATION Spec
CHECK_DEADLOCK FALSE
INVARIANTS
  OneRegistration
