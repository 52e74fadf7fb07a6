SPECIFICATION RacesSpec
CONSTANTS
  Invoices = {1, 2}
  Workers = {w1}
  TypeOf <- MCType
  AmountOf <- MCAmount
  Asked <- MCAsked
  MaxTime = 6
  MaxReports = 3
INVARIANTS
  ZPartition
CHECK_DEADLOCK FALSE
