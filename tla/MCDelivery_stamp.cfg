SPECIFICATION Spec
CONSTANTS
  Stamps = {s1}
  Modals = {}
  Closes = {}
  Opens = {}
  Refused = {}
  CronRuns = {c1, c2}
  NoKey = NoKey
  BatchLimit = 2
  NotifyAt = 1
  NotifyEvery = 1
  MaxDeliveries = 2
  MaxLate = 1
  AttemptCap = 0
INVARIANTS AtMostOneRow DoneMeansProcessed
PROPERTIES KeepsPromise
