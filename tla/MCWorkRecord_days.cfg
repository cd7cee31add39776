SPECIFICATION DaySpec
CONSTANTS
  DayLen = 6
  LastTick = 2
  MaxRows = 5
  NoKey = NoKey
INVARIANTS WorkedIsTimeAtWork OKMeansOrderlyAndEnded ButtonsKeepTheirWord ForgottenEndCanBeMended
CHECK_DEADLOCK FALSE
