SPECIFICATION Spec
CONSTANTS
  Amounts = {a1, a2}
  NoAmount = NoAmount
  Runs = {r1, r2}
  Free = Free
  Orphan = Orphan
  MaxInvoices = 4
  MaxUnrecorded = 2
SYMMETRY RunSymmetry
INVARIANTS OnlyUnrecordedRepeat CreatedIsConfirmed
PROPERTIES NoBlindRetry BillKeepsLifecycle
CHECK_DEADLOCK FALSE
