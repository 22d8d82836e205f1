SPECIFICATION ResumeSpec
CONSTANTS
  submit = submit  resume = resume  refuse = refuse
  s = s  inv = inv  guest = guest  host = host  d1 = d1  d2 = d2
  Run = {submit, resume, refuse}
  Worker = {w1, w2}
  Session = {s}
  Invitation = {inv}
  Actor = {guest, host}
  SessionOf <- MCSessionOf
  InvitationOf <- MCInvitationOf
  ActorOf <- MCActorOf
  Tick = {}
  NoInvitation = NoInvitation  NoWorker = NoWorker  NoRun = NoRun
  MaxAttempts = 2
  MaxRequests = 1
  MaxActorActive = 2
  MaxHomeActive = 4
  Decision = {d1, d2}
  SessionAsking <- MCSessionAsking
  Resume = {resume, refuse}
  AnswerOf <- MCAnswerOf
  Verdict <- MCVerdict
SYMMETRY WorkerSymmetry
INVARIANTS WithdrawalRetiresDecisions
PROPERTY ImplementsDecisions
CHECK_DEADLOCK FALSE
