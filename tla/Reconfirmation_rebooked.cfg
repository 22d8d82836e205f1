SPECIFICATION Spec
CONSTANTS
  cron = cron  runtime = runtime  worker = worker
  guest = guest  juan = juan  jordan = jordan
  Cron = {cron}
  Runtime = {}
  Drain = {worker}
  Guest = guest
  Hosts = {juan}
  MaxJobs = 4
  MaxStays = 2
  FaultKinds = {"crash"}
  MaxFaults = 1
INVARIANT NobodyForgotten
CHECK_DEADLOCK FALSE
