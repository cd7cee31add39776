SPECIFICATION Spec
CONSTANTS
  DayLen = 2
  Horizon = 3
  LastDay = 0
  NoKey = NoKey
  Unsent = Unsent
  Stamps = {s1, s2, s3, s4}
  Fixes = {f1, f2}
  MaxDisturbed = 3
  MaxMixed = 1
SYMMETRY KeySymmetry
INVARIANTS DailyFollowsLog BilledIsTimeAtWork LatestFixWins StampsStayOrderly
PROPERTIES ClosedBillIsFinal ClosedTimesAreFinal EndFindsItsSession
CHECK_DEADLOCK FALSE
