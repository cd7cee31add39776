CONSTANTS
  r1 = r1
  r2 = r2
  t1 = t1
  t2 = t2
  Receipts = {r1}
  Parent <- NoParent
  Txs = {t1}
  Ids = {j1, j2}
  Methods = {"cash","linked_card",""}
  RuleOf <- NoRules
  LineOf <- Lines
  Amounts = {1}
  Days = {1, 2}
  StartDay = 1
  MaxFaults = 2
  MaxEdits = 2
SPECIFICATION FairSpec
INVARIANTS OneEntry SyncedIsRecorded
PROPERTIES KeepsBooks 
