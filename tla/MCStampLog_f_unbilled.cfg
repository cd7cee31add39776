SPECIFICATION Spec
CONSTANTS
  DayLen = 2
  Horizon = 3
  LastDay = 0
  NoKey = NoKey
  Unsent = Unsent
  Stamps = {s1, s2, s3}
  Fixes = {}
  MaxDisturbed = 3
  MaxMixed = 1
SYMMETRY KeySymmetry
INVARIANT AppendedBeforeCloseIsBilled
CHECK_DEADLOCK FALSE
