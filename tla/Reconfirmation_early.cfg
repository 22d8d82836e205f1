SPECIFICATION Spec
CONSTANTS
  cron = cron  runtime = runtime  worker = worker
  guest = guest  juan = juan  jordan = jordan
  Cron = {cron}
  Runtime = {}
  Drain = {worker}
  Guest = guest
  Hosts = {juan}
  MaxJobs = 5
  MaxStays = 2
  FaultKinds = {}
  MaxFaults = 0
PROPERTY EscalatesAfterADay
CHECK_DEADLOCK FALSE
