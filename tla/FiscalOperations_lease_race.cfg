\* A poll does not lock the row of the operation it leases.
CONSTANTS
  Invoices = {i1}
  Devices = {d1}
  Gateways = {g1}
  Sigs = {s1}
  None = None
  DeviceOfGateway <- AllGatewaysOn
  DeviceOfInvoice <- AllInvoicesOn
  MaxAttempts = 1
  MaxOps = 1
  MaxTokens = 1
  MaxTC = 1
  Windows = {"lease"}
SPECIFICATION Spec
PROPERTY WithdrawnIsNeverLeased
