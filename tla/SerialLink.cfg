\* Two invoices over one link, any five troubles.
CONSTANTS
  MaxSeq = 6
  Retries = 3
  MaxInvoices = 2
  MaxTroubles = 5
SPECIFICATION Spec
INVARIANTS
  LinkTypeOK
  LinesCounted
  VerdictsHold
PROPERTIES
  EveryInvoiceSettled
