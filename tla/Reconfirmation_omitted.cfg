SPECIFICATION Spec
CONSTANTS
  cron = cron  runtime = runtime  worker = worker
  guest = guest  juan = juan  jordan = jordan
  Cron = {cron}
  Runtime = {}
  Drain = {worker}
  Guest = guest
  Hosts = {juan, jordan}
  MaxJobs = 4
  MaxStays = 1
  FaultKinds = {"omission"}
  MaxFaults = 3
INVARIANT DeliveryIsGuaranteed
CHECK_DEADLOCK FALSE
