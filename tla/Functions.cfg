SPECIFICATION FunctionsSpec
CONSTANTS
  None = None
  Invoices = {1, 2}
  Workers = {w1}
  TypeOf <- MCType
  AmountOf <- MCAmount
  Asked <- MCAsked
  MaxTime = 7
  MaxReports = 4
INVARIANTS
  ReportsTypeOK
  ZPartition
  FramesSafe
  DiagnosisSafe
  ChannelsAmountsAgree
  PaymentsAddUp
  SavedCanBeDeclared
  RoutingSafe
CHECK_DEADLOCK FALSE
