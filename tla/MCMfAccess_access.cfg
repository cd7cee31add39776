SPECIFICATION FairSpec
CONSTANTS
  Execs = {e1, e2}
  NoExec = NoExec
  MaxPairs = 3
  MaxPeriods = 2
INVARIANTS LiveTokensAreKept ErrorMeansNotCreated
PROPERTIES ReauthOnlyIfLost LossIsTold
