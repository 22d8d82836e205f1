SPECIFICATION ResumeSpec
CONSTANTS
  submit = submit  resume = resume  refuse = refuse
  s = s  inv = inv  guest = guest  host = host  d1 = d1  d2 = d2
  Run = {submit, resume}
  Worker = {w1, w2}
  Session = {s}
  Invitation = {inv}
  Actor = {guest, host}
  SessionOf <- MCSessionOf
  InvitationOf <- MCInvitationOf
  ActorOf <- MCActorOf
  Tick = {}
  NoInvitation = NoInvitation  NoWorker = NoWorker  NoRun = NoRun
  MaxAttempts = 3
  MaxRequests = 2
  MaxActorActive = 2
  MaxHomeActive = 4
  Decision = {d1, d2}
  SessionAsking <- MCSessionAsking
  Resume = {resume}
  AnswerOf <- MCAnswerOf
  Verdict <- MCVerdict
SYMMETRY WorkerSymmetry
INVARIANTS AppliedIsNotRetried OneRunningPerSession NothingStranded
PROPERTIES WithdrawnNeverConcludes OnlyTheClaimantAnswers ImplementsOwnership
CHECK_DEADLOCK FALSE
