\* The poll, the expiry and an accepted result take two steps; of the results of one MCF, none is
\* accepted between the two steps of another.  A poll and a result may then wait for each other's
\* row: the database undoes one, as if it had not begun, so deadlock is not an error.
CONSTANTS
  Invoices = {i1, i2}
  Devices = {d1}
  Gateways = {g1}
  Sigs = {s1}
  None = None
  DeviceOfGateway <- AllGatewaysOn
  DeviceOfInvoice <- AllInvoicesOn
  MaxAttempts = 1
  MaxOps = 2
  MaxTokens = 2
  MaxTC = 2
  Windows = {"expire", "lease", "result"}
SPECIFICATION Spec
ACTION_CONSTRAINT ResultsTakeTurns
SYMMETRY Alike
CHECK_DEADLOCK FALSE
INVARIANTS
  PollAlone
  AcceptedCountersDistinct
