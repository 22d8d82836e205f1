SPECIFICATION FairSpec
CONSTANTS
  submit = submit  change = change  tick = tick
  invSession = invSession  tickSession = tickSession
  inv = inv  guest = guest  job = job
  Run = {submit, change, tick}
  Worker = {w1}
  Session = {invSession, tickSession}
  Invitation = {inv}
  Actor = {guest, job}
  SessionOf <- MCSessionOf
  InvitationOf <- MCInvitationOf
  ActorOf <- MCActorOf
  Tick = {tick}
  NoInvitation = NoInvitation  NoWorker = NoWorker  NoRun = NoRun
  MaxAttempts = 2
  MaxRequests = 1
  MaxActorActive = 2
  MaxHomeActive = 4
PROPERTY EveryRunSettles
CHECK_DEADLOCK FALSE
