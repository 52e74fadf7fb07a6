\* Two stations that succeed each other, two invoices, any one trouble.
CONSTANTS
  Invoices = {i1, i2}
  Devices = {d1}
  Gateways = {g1, g2}
  Sigs = {1, 2, 3}
  None = None
  DeviceOfGateway <- AllGatewaysOn
  DeviceOfInvoice <- AllInvoicesOn
  MaxAttempts = 2
  MaxOps = 4
  MaxTokens = 8
  MaxTC = 3
  Windows = {}
  MaxTroubles = 1
SPECIFICATION FairChainSpec
INVARIANTS
  ChainTypeOK
  OneRegistration
  NoDispute
  ReportsWelcome
  LocalBarrier
PROPERTIES
  ProvenRejection
  QueueDrains
  ImplementsNormalization
