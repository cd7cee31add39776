SPECIFICATION FairSpec
CONSTANTS
  Subs = {s1}
  EDocs = {s1}
  Days <- OneDay
  DayOf <- SameDay
  Execs = {e1, e2}
  MaxEvents = 2
INVARIANTS FiledOnce LedgerMatchesDrive DoneMeansFiled
PROPERTIES ReceiptIsFinished
CHECK_DEADLOCK FALSE
