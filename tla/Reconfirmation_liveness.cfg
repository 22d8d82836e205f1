SPECIFICATION FairSpec
CONSTANTS
  cron = cron  runtime = runtime  worker = worker
  guest = guest  juan = juan  jordan = jordan
  Cron = {cron}
  Runtime = {}
  Drain = {worker}
  Guest = guest
  Hosts = {juan, jordan}
  MaxJobs = 4
  MaxStays = 1
  FaultKinds = {"crash", "error", "omission"}
  MaxFaults = 2
PROPERTIES RequestsAreResolved EscalationsAreHeard
CHECK_DEADLOCK FALSE
