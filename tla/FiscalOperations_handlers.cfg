\* Two gateways of one MCF; a result reads the counter of the MCF without locking it.
CONSTANTS
  Invoices = {i1, i2}
  Devices = {d1}
  Gateways = {g1, g2}
  Sigs = {s1, s2}
  None = None
  DeviceOfGateway <- AllGatewaysOn
  DeviceOfInvoice <- AllInvoicesOn
  MaxAttempts = 2
  MaxOps = 2
  MaxTokens = 3
  MaxTC = 1
  Windows = {"result"}
SPECIFICATION Spec
SYMMETRY Alike
INVARIANTS
  TypeOK
  OneHeldPerDevice
  LeasedStandsAlone
  WaitingIsNewest
  NormalizedInvoiceMatchesOp
PROPERTY SettledStaysSettled
