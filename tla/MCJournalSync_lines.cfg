CONSTANTS
  r1 = r1
  r2 = r2
  t1 = t1
  t2 = t2
  Receipts = {r1, r2}
  Parent <- Corrects
  Txs = {t1, t2}
  Ids = {j1}
  Methods = {"linked_card", "cash"}
  RuleOf <- PrivateT2
  LineOf <- Lines
  Amounts = {1, 2}
  Days = {1}
  StartDay = 1
  MaxFaults = 1
  MaxEdits = 1
SPECIFICATION CardSpec
INVARIANTS SyncedIsRecorded CancelledLeavesNothing LineServesOneReceipt TableAdmitsEveryWrite
