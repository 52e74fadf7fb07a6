\* An exception, or a death between two commits, after a CONFIRM that may have been applied.
CONSTANTS
  Invoices = {i1}
  Workers = {w1}
  None = None
  Priority = "e-MCF"
  MaxOps = 3
  MaxRequests = 2
  MaxTroubles = 2
  Windows = {"raised", "unclosed"}
SPECIFICATION Spec
CHECK_DEADLOCK FALSE
PROPERTIES
  NoTakeOverInDoubt
