SPECIFICATION FairSpec
CONSTANTS
  Stamps = {}
  Modals = {}
  Closes = {x1}
  Opens = {o1}
  Refused = {}
  CronRuns = {c1}
  NoKey = NoKey
  BatchLimit = 2
  NotifyAt = 5
  NotifyEvery = 1
  MaxDeliveries = 1
  MaxLate = 0
  AttemptCap = 0
PROPERTIES EventuallySettled
