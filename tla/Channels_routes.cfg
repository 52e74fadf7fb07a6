\* One invoice over both channels, any two troubles: it may wait for good (a human
\* releases it, or a bound is reached), so deadlock is not an error.
CONSTANTS
  Invoices = {i1}
  Workers = {w1}
  None = None
  Priority = "e-MCF"
  MaxOps = 3
  MaxRequests = 2
  MaxTroubles = 2
  Windows = {}
SPECIFICATION Spec
CHECK_DEADLOCK FALSE
INVARIANTS
  ChannelsTypeOK
  OneRegistration
  OneActive
  NothingForgotten
PROPERTIES
  RefusalProven
  NoTakeOverInDoubt
  ImplementsNormalization
