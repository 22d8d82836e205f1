SPECIFICATION Spec
CONSTANTS
  cron = cron  runtime = runtime  worker = worker
  guest = guest  juan = juan  jordan = jordan
  Cron = {cron}
  Runtime = {runtime}
  Drain = {worker}
  Guest = guest
  Hosts = {juan, jordan}
  MaxJobs = 4
  MaxStays = 1
  FaultKinds = {"crash", "error", "slow", "omission"}
  MaxFaults = 1
INVARIANT NobodyForgotten
PROPERTY ImplementsLifecycle
CHECK_DEADLOCK FALSE
