SPECIFICATION FairSpec
CONSTANTS
  Amounts = {a1, a2}
  NoAmount = NoAmount
  Runs = {r1}
  MaxCards = 2
  MaxReopen = 1
INVARIANTS ConfirmedIsBilled
PROPERTIES PressIsOfThisLife KeepsLifecycle ReviewEnds
CHECK_DEADLOCK FALSE
