SPECIFICATION FairSpec
CONSTANTS
  Amounts = {a1}
  NoAmount = NoAmount
  Runs = {r1}
  Free = Free
  Orphan = Orphan
  MaxInvoices = 2
  MaxUnrecorded = 1
PROPERTIES InvoiceIsSettled
CHECK_DEADLOCK FALSE
