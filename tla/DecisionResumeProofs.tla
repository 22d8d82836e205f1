------------------------ MODULE DecisionResumeProofs ------------------------
(***************************************************************************)
(* Proofs about RunQueue and about DecisionResume, which composes the      *)
(* queue with the hosts' decisions, for any number of runs, workers,       *)
(* sessions, invitations and decisions.  Every step of the composition is  *)
(* a step of the queue or leaves it alone, so what the queue guarantees    *)
(* about late executions gives the invariants about decisions.             *)
(***************************************************************************)
EXTENDS DecisionResume, TLAPS

-----------------------------------------------------------------------------
(***************************************************************************)
(* The run queue.  Its inductive invariant adds to the checked invariants  *)
(* what an execution may conclude from where it stands: it has a task      *)
(* whenever it is not idle, and if it is past its authority check and      *)
(* still owns the claim then its invitation has not been withdrawn.        *)
(***************************************************************************)

BusyWorkersHaveTasks ==
    \A w \in Worker : pc[w] # "idle" => task[w] \in Run

OwnersAreAuthorised ==
    \A w \in Worker :
        pc[w] = "working" /\ Holds(w, task[w]) => InvitationOf[task[w]] \notin withdrawn

IInv ==
    /\ TypeOK
    /\ BusyWorkersHaveTasks
    /\ OneRunningPerSession
    /\ NothingStranded
    /\ OwnersAreAuthorised

\* Leases are recovered without a new run starting anywhere.
LEMMA ReconcileFacts ==
    ASSUME TypeOK, NothingStranded, ReconcileStaleRuns
    PROVE  /\ status' \in [Run -> Status]
           /\ attempts' = attempts
           /\ requests' = requests
           /\ token' \in [Run -> Worker \cup {NoWorker}]
           /\ lease' \in [Run -> Lease]
           /\ \A r \in Run : status'[r] = "running"
                             => status[r] = "running" /\ token'[r] = token[r]
           /\ NothingStranded'
BY RunQueueAssumption
   DEF TypeOK, NothingStranded, ReconcileStaleRuns, PastDeadline, Recoverable, Status,
       Terminal, Lease

\* A fenced update settles the worker's own run or leaves the table alone.
LEMMA SettleFacts ==
    ASSUME TypeOK, NothingStranded, NEW w \in Worker, NEW r \in Run,
           NEW outcome \in Terminal, FencedSettle(w, r, outcome)
    PROVE  /\ status' \in [Run -> Status]
           /\ attempts' = attempts
           /\ requests' = requests
           /\ token' \in [Run -> Worker \cup {NoWorker}]
           /\ lease' \in [Run -> Lease]
           /\ \A q \in Run : status'[q] = "running"
                             => status[q] = "running" /\ token'[q] = token[q]
           /\ NothingStranded'
BY RunQueueAssumption
   DEF TypeOK, NothingStranded, FencedSettle, Holds, runVars, Status, Terminal, Lease

\* A session that no running run is busy with can be given to one run.
LEMMA AcceptFacts ==
    ASSUME TypeOK, NothingStranded, OneRunningPerSession, NEW w \in Worker,
           NEW r \in Run, status[r] # "running", Accept(w, r)
    PROVE  /\ status' \in [Run -> Status]
           /\ attempts' \in [Run -> 0..MaxAttempts]
           /\ token' \in [Run -> Worker \cup {NoWorker}]
           /\ lease' \in [Run -> Lease]
           /\ \A q \in Run \ {r} : status'[q] = status[q] /\ token'[q] = token[q]
           /\ NothingStranded'
           /\ OneRunningPerSession'
           /\ pc' \in [Worker -> {"idle", "asking", "claimed", "working"}]
           /\ task' \in [Worker -> Run \cup {NoRun}]
           /\ immediate' \in [Worker -> BOOLEAN]
           /\ pc'[w] \in {"idle", "claimed"}
           /\ pc'[w] # "idle" => task'[w] = r
           /\ \A v \in Worker \ {w} : pc'[v] = pc[v] /\ task'[v] = task[v]
<1> DEFINE claims == immediate[w] /\ ~Busy(SessionOf[r])
<1> USE RunQueueAssumption
<1>1. CASE claims
  <2>1. /\ status' = [status EXCEPT ![r] = "running"]
        /\ attempts' = [attempts EXCEPT ![r] = 1]
        /\ token' = [token EXCEPT ![r] = w]
        /\ lease' = [lease EXCEPT ![r] = "live"]
        /\ pc' = [pc EXCEPT ![w] = "claimed"]
        /\ task' = [task EXCEPT ![w] = r]
        /\ immediate' = [immediate EXCEPT ![w] = FALSE]
    BY <1>1 DEF Accept, Becomes
  <2>2. \A q \in Run : SessionOf[q] = SessionOf[r] => status[q] # "running"
    BY <1>1 DEF Busy
  <2>3. OneRunningPerSession'
    BY <2>1, <2>2 DEF TypeOK, OneRunningPerSession
  <2>4. NothingStranded'
    BY <2>1 DEF TypeOK, NothingStranded
  <2> QED BY <2>1, <2>3, <2>4 DEF TypeOK, Status, Terminal, Lease
<1>2. CASE ~claims
  <2>1. /\ status' = [status EXCEPT ![r] = "queued"]
        /\ attempts' = [attempts EXCEPT ![r] = 0]
        /\ token' = [token EXCEPT ![r] = NoWorker]
        /\ lease' = [lease EXCEPT ![r] = "none"]
        /\ pc' = [pc EXCEPT ![w] = "idle"]
        /\ task' = [task EXCEPT ![w] = NoRun]
        /\ immediate' = [immediate EXCEPT ![w] = FALSE]
    BY <1>2 DEF Accept, Idles, Becomes
  <2>2. OneRunningPerSession'
    BY <2>1 DEF TypeOK, OneRunningPerSession
  <2>3. NothingStranded'
    BY <2>1 DEF TypeOK, NothingStranded
  <2> QED BY <2>1, <2>2, <2>3 DEF TypeOK, Status, Terminal, Lease
<1> QED BY <1>1, <1>2

\* One claim of a session that no other run is busy with keeps it to one run.
LEMMA ClaimFacts ==
    ASSUME TypeOK, NothingStranded, OneRunningPerSession, NEW w \in Worker, NEW r \in Run,
           ClaimQueuedRun(w, r)
    PROVE  /\ TypeOK'
           /\ NothingStranded'
           /\ OneRunningPerSession'
           /\ \A q \in Run \ {r} : status'[q] = status[q] /\ token'[q] = token[q]
           /\ token'[r] = w
           /\ withdrawn' = withdrawn
           /\ pc'[w] = "claimed" /\ task'[w] = r
           /\ \A v \in Worker \ {w} : pc'[v] = pc[v] /\ task'[v] = task[v]
<1> USE RunQueueAssumption
<1>1. /\ status' = [status EXCEPT ![r] = "running"]
      /\ attempts' = [attempts EXCEPT ![r] = attempts[r] + 1]
      /\ attempts[r] + 1 \in 0..MaxAttempts
      /\ token' = [token EXCEPT ![r] = w]
      /\ lease' = [lease EXCEPT ![r] = "live"]
      /\ pc' = [pc EXCEPT ![w] = "claimed"]
      /\ task' = [task EXCEPT ![w] = r]
      /\ immediate' = [immediate EXCEPT ![w] = FALSE]
      /\ UNCHANGED <<requests, withdrawn>>
  BY DEF TypeOK, ClaimQueuedRun, Claimable, Becomes
<1>2. TypeOK'
  BY <1>1 DEF TypeOK, Status, Lease
<1>3. NothingStranded'
  BY <1>1 DEF TypeOK, NothingStranded
<1>4. OneRunningPerSession'
  BY <1>1 DEF TypeOK, OneRunningPerSession, ClaimQueuedRun, Claimable
<1> QED BY <1>1, <1>2, <1>3, <1>4 DEF TypeOK

\* What a step must show when it starts no run: the rest of the invariant follows.
LEMMA QuietStep ==
    ASSUME IInv,
           \A r \in Run : status'[r] = "running"
                          => status[r] = "running" /\ token'[r] = token[r],
           withdrawn' = withdrawn,
           \A w \in Worker : \/ pc'[w] = pc[w] /\ task'[w] = task[w]
                             \/ pc'[w] = "idle"
                             \/ pc'[w] # "working" /\ task'[w] \in Run
                             \/ /\ task'[w] = task[w] /\ task[w] \in Run
                                /\ InvitationOf[task[w]] \notin withdrawn
    PROVE  /\ BusyWorkersHaveTasks'
           /\ OneRunningPerSession'
           /\ OwnersAreAuthorised'
BY RunQueueAssumption
   DEF IInv, TypeOK, BusyWorkersHaveTasks, OneRunningPerSession, OwnersAreAuthorised, Holds

LEMMA InitIInv == Init => IInv
BY RunQueueAssumption
   DEF Init, IInv, TypeOK, Status, Terminal, Lease, BusyWorkersHaveTasks,
       OneRunningPerSession, NothingStranded, OwnersAreAuthorised, Holds

LEMMA WorkerStepIInv ==
    ASSUME IInv, NEW w \in Worker, WorkerStep(w)
    PROVE  IInv'
<1> USE RunQueueAssumption
<1>1. CASE InsertRun(w) \/ RestartRun(w)
  <2> DEFINE r == task[w]
  <2>1. r \in Run
    BY <1>1 DEF InsertRun, RestartRun, IInv, BusyWorkersHaveTasks
  <2>2. /\ pc[w] = "asking" /\ status[r] # "running" /\ Accept(w, r)
        /\ withdrawn' = withdrawn
        /\ requests' \in [Run -> 0..MaxRequests]
    <3>1. CASE InsertRun(w)
      <4>1. 1 \in 0..MaxRequests
        OBVIOUS
      <4> QED BY <2>1, <3>1, <4>1 DEF InsertRun, IInv, TypeOK
    <3>2. CASE RestartRun(w)
      <4>1. r \notin Tick => requests[r] + 1 \in 0..MaxRequests
        BY <2>1, <3>2 DEF RestartRun, IInv, TypeOK
      <4>2. requests' = [requests EXCEPT ![r] = IF r \in Tick THEN requests[r]
                                                ELSE requests[r] + 1]
        BY <3>2 DEF RestartRun
      <4>3. requests' \in [Run -> 0..MaxRequests]
        BY <2>1, <4>1, <4>2 DEF IInv, TypeOK
      <4> QED BY <3>2, <4>3 DEF RestartRun, Restartable, Terminal
    <3> QED BY <1>1, <3>1, <3>2
  <2> HIDE DEF r
  <2>3. /\ TypeOK' /\ NothingStranded' /\ OneRunningPerSession'
        /\ \A q \in Run \ {r} : status'[q] = status[q] /\ token'[q] = token[q]
        /\ pc'[w] \in {"idle", "claimed"}
        /\ pc'[w] # "idle" => task'[w] = r
        /\ \A v \in Worker \ {w} : pc'[v] = pc[v] /\ task'[v] = task[v]
    BY <2>1, <2>2, AcceptFacts DEF IInv, TypeOK
  <2>4. \A v \in Worker : token'[r] = v => v = w \/ status'[r] # "running"
    <3>1. token' = [token EXCEPT ![r] = IF immediate[w] /\ ~Busy(SessionOf[r])
                                        THEN w ELSE NoWorker]
      BY <2>2 DEF Accept
    <3>2. token'[r] \in {w, NoWorker}
      BY <3>1, <2>1, Zenon DEF IInv, TypeOK
    <3> QED BY <3>2
  <2>5. BusyWorkersHaveTasks'
    BY <2>1, <2>3 DEF IInv, BusyWorkersHaveTasks
  <2>6. OwnersAreAuthorised'
    BY <2>1, <2>2, <2>3, <2>4 DEF IInv, OwnersAreAuthorised, Holds, BusyWorkersHaveTasks
  <2> QED BY <2>3, <2>5, <2>6 DEF IInv
<1>2. CASE Decline(w) \/ Crash(w)
  <2>1. /\ UNCHANGED <<runVars, withdrawn>>
        /\ pc' = [pc EXCEPT ![w] = "idle"]
        /\ task' = [task EXCEPT ![w] = NoRun]
        /\ immediate' = [immediate EXCEPT ![w] = FALSE]
    BY <1>2 DEF Decline, Crash, Idles, Becomes
  <2>2. TypeOK' /\ NothingStranded'
    BY <2>1 DEF IInv, TypeOK, NothingStranded, runVars
  <2> QED BY <2>1, <2>2, QuietStep DEF IInv, TypeOK, runVars
<1>3. CASE ResolveAuthority(w)
  <2>1. /\ UNCHANGED <<runVars, withdrawn>>
        /\ pc[w] = "claimed" /\ task[w] \in Run
        /\ InvitationOf[task[w]] \notin withdrawn
        /\ pc' = [pc EXCEPT ![w] = "working"]
        /\ task' = [task EXCEPT ![w] = task[w]]
        /\ immediate' = [immediate EXCEPT ![w] = FALSE]
    BY <1>3 DEF ResolveAuthority, Becomes, IInv, BusyWorkersHaveTasks
  <2>2. TypeOK' /\ NothingStranded'
    BY <2>1 DEF IInv, TypeOK, NothingStranded, runVars
  <2> QED BY <2>1, <2>2, QuietStep DEF IInv, TypeOK, runVars
<1>4. CASE FailRun(w) \/ \E outcome \in {"completed", "interrupted"} : ConcludeRun(w, outcome)
  <2>1. PICK outcome \in Terminal : FencedSettle(w, task[w], outcome)
    BY <1>4 DEF FailRun, ConcludeRun, Terminal
  <2>2. /\ withdrawn' = withdrawn
        /\ pc' = [pc EXCEPT ![w] = "idle"]
        /\ task' = [task EXCEPT ![w] = NoRun]
        /\ immediate' = [immediate EXCEPT ![w] = FALSE]
        /\ task[w] \in Run
    BY <1>4 DEF FailRun, ConcludeRun, Idles, Becomes, IInv, BusyWorkersHaveTasks
  <2>3. /\ status' \in [Run -> Status] /\ attempts' = attempts /\ requests' = requests
        /\ token' \in [Run -> Worker \cup {NoWorker}] /\ lease' \in [Run -> Lease]
        /\ \A q \in Run : status'[q] = "running"
                           => status[q] = "running" /\ token'[q] = token[q]
        /\ NothingStranded'
    BY <2>1, <2>2, SettleFacts DEF IInv
  <2>4. TypeOK'
    BY <2>2, <2>3 DEF IInv, TypeOK
  <2> QED BY <2>2, <2>3, <2>4, QuietStep DEF IInv, TypeOK
<1> QED BY <1>1, <1>2, <1>3, <1>4 DEF WorkerStep

\* A claim starts a run whose owner has not been authorised yet.
LEMMA ClaimIInv ==
    ASSUME IInv, NEW w \in Worker, NEW r \in Run, ClaimQueuedRun(w, r)
    PROVE  IInv'
<1>1. /\ TypeOK' /\ NothingStranded' /\ OneRunningPerSession'
      /\ \A q \in Run \ {r} : status'[q] = status[q] /\ token'[q] = token[q]
      /\ token'[r] = w
      /\ withdrawn' = withdrawn
      /\ pc'[w] = "claimed" /\ task'[w] = r
      /\ \A v \in Worker \ {w} : pc'[v] = pc[v] /\ task'[v] = task[v]
  BY ClaimFacts DEF IInv
<1>2. BusyWorkersHaveTasks'
  BY <1>1 DEF IInv, BusyWorkersHaveTasks
<1>3. OwnersAreAuthorised'
  BY <1>1 DEF IInv, OwnersAreAuthorised, Holds, BusyWorkersHaveTasks
<1> QED BY <1>1, <1>2, <1>3 DEF IInv

LEMMA NextIInv == IInv /\ [Next]_vars => IInv'
<1> SUFFICES ASSUME IInv, [Next]_vars PROVE IInv'
  OBVIOUS
<1> USE RunQueueAssumption
<1>1. CASE Reconcile
  <2>1. ReconcileStaleRuns /\ UNCHANGED <<withdrawn, pc, task, immediate>>
    BY <1>1 DEF Reconcile, workerVars
  <2>2. TypeOK'
    BY <2>1, ReconcileFacts DEF IInv, TypeOK
  <2>3. NothingStranded'
    BY <2>1, ReconcileFacts DEF IInv
  <2> QED BY <2>1, <2>2, <2>3, ReconcileFacts, QuietStep DEF IInv
<1>2. CASE \E r \in Run : LeaseAges(r)
  <2>1. PICK r \in Run : LeaseAges(r)
    BY <1>2
  <2>2. /\ UNCHANGED <<status, attempts, requests, token, withdrawn, pc, task, immediate>>
        /\ status[r] = "running" /\ lease[r] # "none"
        /\ \/ lease' = [lease EXCEPT ![r] = "expired"]
           \/ lease' = [lease EXCEPT ![r] = "stale"]
    BY <2>1 DEF LeaseAges, workerVars
  <2>3. TypeOK' /\ NothingStranded'
    BY <2>2 DEF IInv, TypeOK, NothingStranded, Lease
  <2> QED BY <2>2, <2>3, QuietStep DEF IInv
<1>3. CASE \E r \in Run : RejectUnreadable(r)
  <2>1. PICK r \in Run : RejectUnreadable(r)
    BY <1>3
  <2>2. /\ UNCHANGED <<attempts, requests, withdrawn, pc, task, immediate>>
        /\ status' = [status EXCEPT ![r] = "failed"]
        /\ token' = [token EXCEPT ![r] = NoWorker]
        /\ lease' = [lease EXCEPT ![r] = "none"]
    BY <2>1 DEF RejectUnreadable, workerVars
  <2>3. TypeOK' /\ NothingStranded'
    BY <2>2 DEF IInv, TypeOK, NothingStranded, Lease, Status, Terminal
  <2> QED BY <2>2, <2>3, QuietStep DEF IInv, TypeOK
<1>4. CASE \E i \in Invitation : WithdrawInvitation(i)
  <2>1. PICK i \in Invitation : WithdrawInvitation(i)
    BY <1>4
  <2>2. /\ TypeOK' /\ NothingStranded'
    BY <2>1 DEF WithdrawInvitation, workerVars, IInv, TypeOK, NothingStranded, Outstanding,
                Status, Terminal, Lease
  <2>3. /\ BusyWorkersHaveTasks'
        /\ OneRunningPerSession'
    BY <2>1 DEF WithdrawInvitation, workerVars, IInv, TypeOK, OneRunningPerSession,
                BusyWorkersHaveTasks
  <2>4. OwnersAreAuthorised'
    BY <2>1 DEF WithdrawInvitation, workerVars, IInv, TypeOK, OwnersAreAuthorised, Holds,
                BusyWorkersHaveTasks, Outstanding
  <2> QED BY <2>2, <2>3, <2>4 DEF IInv
<1>5. CASE \E w \in Worker : WorkerStep(w)
  BY <1>5, WorkerStepIInv
<1>6. CASE \E w \in Worker, r \in Run : ClaimQueuedRun(w, r)
  BY <1>6, ClaimIInv
<1>7. CASE \E w \in Worker, r \in Run, now \in BOOLEAN : Ask(w, r, now)
  <2>1. PICK w \in Worker, r \in Run, now \in BOOLEAN : Ask(w, r, now)
    BY <1>7
  <2>2. /\ ReconcileStaleRuns
        /\ pc' = [pc EXCEPT ![w] = "asking"]
        /\ task' = [task EXCEPT ![w] = r]
        /\ immediate' = [immediate EXCEPT ![w] = now]
        /\ withdrawn' = withdrawn
    BY <2>1 DEF Ask, Becomes
  <2>3. TypeOK'
    BY <2>2, ReconcileFacts DEF IInv, TypeOK
  <2>4. NothingStranded'
    BY <2>2, ReconcileFacts DEF IInv
  <2>5. \A q \in Run : status'[q] = "running"
                       => status[q] = "running" /\ token'[q] = token[q]
    BY <2>2, ReconcileFacts DEF IInv
  <2>6. \A v \in Worker : \/ pc'[v] = pc[v] /\ task'[v] = task[v]
                          \/ pc'[v] # "working" /\ task'[v] \in Run
    BY <2>2 DEF IInv, TypeOK
  <2> QED BY <2>2, <2>3, <2>4, <2>5, <2>6, QuietStep DEF IInv
<1>8. CASE UNCHANGED vars
  BY <1>8 DEF vars, IInv, TypeOK, BusyWorkersHaveTasks, OneRunningPerSession,
              NothingStranded, OwnersAreAuthorised, Holds
<1> QED BY <1>1, <1>2, <1>3, <1>4, <1>5, <1>6, <1>7, <1>8 DEF Next

\* The inductive invariant of the queue holds in every reachable state.
THEOREM Invariance == Spec => []IInv
<1> QED BY InitIInv, NextIInv, PTL DEF Spec

\* Every variable keeps its type.
THEOREM TypeCorrect == Spec => []TypeOK
<1>1. IInv => TypeOK
  BY DEF IInv
<1> QED BY <1>1, Invariance, PTL

\* Two executions of one session are never both backed by a running row.
THEOREM SessionExclusion == Spec => []OneRunningPerSession
<1>1. IInv => OneRunningPerSession
  BY DEF IInv
<1> QED BY <1>1, Invariance, PTL

\* Queued rows can always be claimed once more, running rows can always be recovered.
THEOREM NoRunStranded == Spec => []NothingStranded
<1>1. IInv => NothingStranded
  BY DEF IInv
<1> QED BY <1>1, Invariance, PTL

-----------------------------------------------------------------------------
(***************************************************************************)
(* How a row's status can change                                           *)
(***************************************************************************)

AnsweredBy(w, r) ==
    /\ pc[w] = "working" /\ task[w] = r /\ Holds(w, r)
    /\ pc'[w] = "idle"
    /\ InvitationOf[r] \notin withdrawn

StatusStep(r) ==
    \/ status'[r] = status[r]
    \/ /\ status[r] = "absent" \/ Restartable(r)
       /\ status'[r] \in {"queued", "running"}
    \/ status[r] = "queued" /\ status'[r] = "running"
    \/ status[r] = "running" /\ status'[r] = "queued"
    \/ status[r] \in {"queued", "running", "interrupted"} /\ status'[r] = "failed"
    \/ \E w \in Worker : AnsweredBy(w, r) /\ status'[r] \in {"completed", "interrupted"}

\* Every change of a row is an acceptance, a claim, a recovery, a failure or an
\* answer by the execution that owns the claim and was authorised after taking it.
LEMMA StatusSteps ==
    ASSUME IInv, [Next]_vars, NEW r \in Run
    PROVE  StatusStep(r)
<1> USE RunQueueAssumption
<1>1. CASE Reconcile \/ \E w \in Worker, q \in Run, now \in BOOLEAN : Ask(w, q, now)
  <2>1. ReconcileStaleRuns
    BY <1>1 DEF Reconcile, Ask
  <2> QED BY <2>1 DEF ReconcileStaleRuns, PastDeadline, Recoverable, StatusStep
<1>2. CASE \E q \in Run : LeaseAges(q)
  BY <1>2 DEF LeaseAges, StatusStep
<1>3. CASE \E q \in Run : RejectUnreadable(q)
  BY <1>3 DEF RejectUnreadable, StatusStep, IInv, TypeOK
<1>4. CASE \E i \in Invitation : WithdrawInvitation(i)
  BY <1>4 DEF WithdrawInvitation, Outstanding, StatusStep
<1>5. CASE \E w \in Worker : WorkerStep(w)
  <2> SUFFICES ASSUME NEW w \in Worker, WorkerStep(w) PROVE StatusStep(r)
    BY <1>5
  <2>1. CASE InsertRun(w) \/ RestartRun(w)
    <3>1. /\ Accept(w, task[w])
          /\ status[task[w]] = "absent" \/ Restartable(task[w])
      BY <2>1 DEF InsertRun, RestartRun
    <3>2. \E state \in {"queued", "running"} : status' = [status EXCEPT ![task[w]] = state]
      BY <3>1 DEF Accept
    <3> QED BY <3>1, <3>2 DEF StatusStep, IInv, TypeOK
  <2>2. CASE Decline(w) \/ ResolveAuthority(w) \/ Crash(w)
    BY <2>2 DEF Decline, ResolveAuthority, Crash, runVars, StatusStep
  <2>3. CASE FailRun(w)
    <3>1. FencedSettle(w, task[w], "failed")
      BY <2>3 DEF FailRun
    <3> QED BY <3>1 DEF FencedSettle, Holds, runVars, StatusStep, IInv, TypeOK
  <2>4. CASE \E outcome \in {"completed", "interrupted"} : ConcludeRun(w, outcome)
    <3>1. PICK outcome \in {"completed", "interrupted"} : ConcludeRun(w, outcome)
      BY <2>4
    <3>2. CASE Holds(w, task[w]) /\ task[w] = r
      <4>1. status' = [status EXCEPT ![r] = outcome]
        BY <3>1, <3>2 DEF ConcludeRun, FencedSettle
      <4>2. AnsweredBy(w, r)
        BY <3>1, <3>2 DEF ConcludeRun, Idles, Becomes, AnsweredBy, IInv, TypeOK,
                          OwnersAreAuthorised
      <4> QED BY <4>1, <4>2 DEF StatusStep, IInv, TypeOK
    <3>3. CASE ~(Holds(w, task[w]) /\ task[w] = r)
      <4>1. status'[r] = status[r]
        BY <3>1, <3>3 DEF ConcludeRun, FencedSettle, runVars, IInv, TypeOK
      <4> QED BY <4>1 DEF StatusStep
    <3> QED BY <3>2, <3>3
  <2> QED BY <2>1, <2>2, <2>3, <2>4 DEF WorkerStep
<1>6. CASE \E w \in Worker, q \in Run : ClaimQueuedRun(w, q)
  BY <1>6 DEF ClaimQueuedRun, Claimable, StatusStep, IInv, TypeOK
<1>7. CASE UNCHANGED vars
  BY <1>7 DEF vars, StatusStep
<1> QED BY <1>1, <1>2, <1>3, <1>4, <1>5, <1>6, <1>7 DEF Next

\* The answer of a completed host or guest task never changes.
THEOREM AnswersAreFinal == Spec => CompletedIsFinal
<1>1. IInv /\ [Next]_vars
      => [\A r \in Run \ Tick : status[r] = "completed" => status'[r] = "completed"]_vars
  BY StatusSteps DEF StatusStep, Restartable, AnsweredBy, Holds
<1> QED BY <1>1, Invariance, PTL DEF Spec, CompletedIsFinal

\* A run whose invitation is withdrawn is never completed or interrupted afterwards.
THEOREM WithdrawalStands == Spec => WithdrawnNeverConcludes
<1>1. IInv /\ [Next]_vars
      => [\A r \in Run :
            InvitationOf[r] \in withdrawn /\ status'[r] \in {"completed", "interrupted"}
            => status'[r] = status[r]]_vars
  BY StatusSteps DEF StatusStep, AnsweredBy
<1> QED BY <1>1, Invariance, PTL DEF Spec, WithdrawnNeverConcludes

\* An execution that lost its claim records no answer.
THEOREM AnswersAreFenced == Spec => OnlyTheClaimantAnswers
<1>1. IInv /\ [Next]_vars
      => [\A r \in Run :
            status[r] # status'[r] /\ status'[r] \in {"completed", "interrupted"}
            => \E w \in Worker : /\ pc[w] = "working" /\ task[w] = r /\ Holds(w, r)
                                 /\ pc'[w] = "idle"]_vars
  BY StatusSteps DEF StatusStep, AnsweredBy
<1> QED BY <1>1, Invariance, PTL DEF Spec, OnlyTheClaimantAnswers

-----------------------------------------------------------------------------
(***************************************************************************)
(* The queue implements session ownership                                  *)
(***************************************************************************)

OwnerFacts ==
    /\ SessionOwner \in [Session -> Run \cup {NoRun}]
    /\ \A s \in Session, r \in Run :
          SessionOwner[s] = r <=> SessionOf[r] = s /\ status[r] = "running"
    /\ \A s \in Session : SessionOwner[s] = NoRun <=> ~Busy(s)

\* The owner chosen for a session is its only running run.
LEMMA OwnerIsUnique == IInv => OwnerFacts
<1> SUFFICES ASSUME IInv PROVE OwnerFacts
  OBVIOUS
<1> USE RunQueueAssumption
<1>1. ASSUME NEW s \in Session, ~Busy(s)
      PROVE  SessionOwner[s] = NoRun
  BY <1>1 DEF SessionOwner
<1>2. ASSUME NEW r \in Run, status[r] = "running"
      PROVE  SessionOwner[SessionOf[r]] = r
  <2>1. Busy(SessionOf[r]) /\ SessionOf[r] \in Session
    BY <1>2 DEF Busy
  <2>2. \A q \in Run : SessionOf[q] = SessionOf[r] /\ status[q] = "running" <=> q = r
    BY <1>2 DEF IInv, OneRunningPerSession
  <2> QED BY <2>1, <2>2 DEF SessionOwner
<1>3. ASSUME NEW s \in Session, Busy(s)
      PROVE  /\ SessionOwner[s] \in Run
             /\ SessionOf[SessionOwner[s]] = s
             /\ status[SessionOwner[s]] = "running"
  BY <1>3, <1>2 DEF Busy
<1>4. SessionOwner \in [Session -> Run \cup {NoRun}]
  BY <1>1, <1>3 DEF SessionOwner
<1> QED BY <1>1, <1>2, <1>3, <1>4 DEF OwnerFacts

LEMMA OwnerIsUniqueNext == IInv' => OwnerFacts'
BY OwnerIsUnique, PTL

AnsweredRuns == {r \in Run \ Tick : status[r] = "completed"}

\* Some sessions lose their run, none gains one.
LEMMA ReleaseMaps ==
    ASSUME OwnerFacts, OwnerFacts', AnsweredRuns' = AnsweredRuns,
           \A r \in Run : status'[r] = "running" => status[r] = "running"
    PROVE  Ownership!Next
<1> DEFINE S == {s \in Session : SessionOwner'[s] = NoRun}
<1>1. \A s \in Session : s \notin S => SessionOwner'[s] = SessionOwner[s]
  BY DEF OwnerFacts
<1>2. SessionOwner' = [s \in Session |-> IF s \in S THEN NoRun ELSE SessionOwner[s]]
  BY <1>1 DEF OwnerFacts
<1>3. Ownership!Release(S)
  BY <1>2 DEF Ownership!Release, AnsweredRuns
<1> QED BY <1>3 DEF Ownership!Next

\* A free session gets a run that is not finally answered.
LEMMA AcquireMaps ==
    ASSUME OwnerFacts, OwnerFacts', AnsweredRuns' = AnsweredRuns, NEW r \in Run,
           r \notin AnsweredRuns, ~Busy(SessionOf[r]), status'[r] = "running",
           \A q \in Run \ {r} : status'[q] = status[q]
    PROVE  Ownership!Next
<1> USE RunQueueAssumption
<1>1. SessionOf[r] \in Session /\ SessionOwner[SessionOf[r]] = NoRun
  BY DEF OwnerFacts
<1>2. \A s \in Session : SessionOwner'[s] = IF s = SessionOf[r] THEN r ELSE SessionOwner[s]
  <2> SUFFICES ASSUME NEW s \in Session
               PROVE SessionOwner'[s] = IF s = SessionOf[r] THEN r ELSE SessionOwner[s]
    OBVIOUS
  <2>1. CASE s = SessionOf[r]
    BY <2>1 DEF OwnerFacts
  <2>2. CASE s # SessionOf[r] /\ Busy(s)
    <3>1. PICK q \in Run : SessionOf[q] = s /\ status[q] = "running"
      BY <2>2 DEF Busy
    <3> QED BY <2>2, <3>1 DEF OwnerFacts
  <2>3. CASE s # SessionOf[r] /\ ~Busy(s)
    <3>1. ~Busy(s)'
      BY <2>3 DEF Busy
    <3> QED BY <2>3, <3>1 DEF OwnerFacts
  <2> QED BY <2>1, <2>2, <2>3
<1>3. SessionOwner' = [SessionOwner EXCEPT ![SessionOf[r]] = r]
  BY <1>2 DEF OwnerFacts
<1>4. Ownership!Acquire(r)
  BY <1>1, <1>3 DEF Ownership!Acquire, AnsweredRuns
<1> QED BY <1>4 DEF Ownership!Next

\* The owning run completes, and for a host or guest task that is its last answer.
LEMMA AnswerMaps ==
    ASSUME IInv, OwnerFacts, OwnerFacts', NEW r \in Run, status[r] = "running",
           status' = [status EXCEPT ![r] = "completed"]
    PROVE  Ownership!Next
<1> USE RunQueueAssumption
<1>1. SessionOf[r] \in Session /\ SessionOwner[SessionOf[r]] = r
  BY DEF OwnerFacts
<1>2. \A q \in Run : status'[q] = IF q = r THEN "completed" ELSE status[q]
  BY DEF IInv, TypeOK
<1>3. \A s \in Session : SessionOwner'[s] = IF s = SessionOf[r] THEN NoRun
                                             ELSE SessionOwner[s]
  <2> SUFFICES ASSUME NEW s \in Session
               PROVE SessionOwner'[s] = IF s = SessionOf[r] THEN NoRun ELSE SessionOwner[s]
    OBVIOUS
  <2>1. CASE s = SessionOf[r]
    <3>1. ~Busy(s)'
      BY <1>2, <2>1 DEF Busy, IInv, OneRunningPerSession
    <3> QED BY <2>1, <3>1 DEF OwnerFacts
  <2>2. CASE s # SessionOf[r] /\ Busy(s)
    <3>1. PICK q \in Run : SessionOf[q] = s /\ status[q] = "running"
      BY <2>2 DEF Busy
    <3> QED BY <1>2, <2>2, <3>1 DEF OwnerFacts
  <2>3. CASE s # SessionOf[r] /\ ~Busy(s)
    <3>1. ~Busy(s)'
      BY <1>2, <2>3 DEF Busy
    <3> QED BY <2>3, <3>1 DEF OwnerFacts
  <2> QED BY <2>1, <2>2, <2>3
<1>4. SessionOwner' = [SessionOwner EXCEPT ![SessionOf[r]] = NoRun]
  BY <1>3 DEF OwnerFacts
<1>5. AnsweredRuns' = IF r \in Tick THEN AnsweredRuns ELSE AnsweredRuns \cup {r}
  BY <1>2 DEF AnsweredRuns
<1>6. Ownership!Answer(r)
  BY <1>1, <1>4, <1>5 DEF Ownership!Answer, AnsweredRuns
<1> QED BY <1>6 DEF Ownership!Next

LEMMA InitMaps == Init => Ownership!Init
<1> SUFFICES ASSUME Init PROVE Ownership!Init
  OBVIOUS
<1>1. IInv
  BY InitIInv
<1>2. OwnerFacts
  BY <1>1, OwnerIsUnique
<1>3. \A s \in Session : ~Busy(s)
  BY DEF Init, Busy
<1>4. SessionOwner = [s \in Session |-> NoRun]
  BY <1>2, <1>3 DEF OwnerFacts
<1> QED BY <1>4 DEF Ownership!Init, Init

\* Every step of the queue is an acquisition, an answer or a release of sessions.
LEMMA StepMaps ==
    ASSUME IInv, IInv', Next
    PROVE  Ownership!Next
<1> USE RunQueueAssumption
<1>1. OwnerFacts /\ OwnerFacts'
  BY OwnerIsUnique, OwnerIsUniqueNext
<1>2. SUFFICES ASSUME ~(/\ AnsweredRuns' = AnsweredRuns
                        /\ \A r \in Run : status'[r] = "running" => status[r] = "running")
               PROVE  Ownership!Next
  BY <1>1, ReleaseMaps
<1>3. CASE \E w \in Worker : InsertRun(w) \/ RestartRun(w)
  <2>1. PICK w \in Worker : InsertRun(w) \/ RestartRun(w)
    BY <1>3
  <2> DEFINE r == task[w]
             claims == immediate[w] /\ ~Busy(SessionOf[r])
  <2>2. /\ r \in Run
        /\ Accept(w, r)
        /\ status[r] = "absent" \/ Restartable(r)
    BY <2>1 DEF InsertRun, RestartRun, IInv, BusyWorkersHaveTasks
  <2>3. CASE claims
    <3>1. status' = [status EXCEPT ![r] = "running"]
      BY <2>2, <2>3 DEF Accept
    <3>2. r \notin AnsweredRuns
      BY <2>2 DEF AnsweredRuns, Restartable
    <3>3. AnsweredRuns' = AnsweredRuns
      BY <2>2, <3>1, <3>2 DEF AnsweredRuns, IInv, TypeOK
    <3>4. /\ status'[r] = "running"
          /\ \A q \in Run \ {r} : status'[q] = status[q]
      BY <2>2, <3>1 DEF IInv, TypeOK
    <3> HIDE DEF r
    <3> QED BY <1>1, <2>2, <2>3, <3>2, <3>3, <3>4, AcquireMaps
  <2>4. CASE ~claims
    <3>1. status' = [status EXCEPT ![r] = "queued"]
      BY <2>2, <2>4 DEF Accept
    <3> QED BY <1>2, <2>2, <3>1 DEF AnsweredRuns, Restartable, IInv, TypeOK
  <2> QED BY <2>3, <2>4
<1>4. CASE \E w \in Worker, r \in Run : ClaimQueuedRun(w, r)
  <2>1. PICK w \in Worker, r \in Run : ClaimQueuedRun(w, r)
    BY <1>4
  <2>2. /\ status' = [status EXCEPT ![r] = "running"]
        /\ status[r] \in {"queued", "running"}
        /\ \A q \in Run \ {r} : SessionOf[q] = SessionOf[r] => status[q] # "running"
    BY <2>1 DEF ClaimQueuedRun, Claimable
  <2>3. AnsweredRuns' = AnsweredRuns /\ r \notin AnsweredRuns
    BY <2>2 DEF AnsweredRuns, IInv, TypeOK
  <2>4. /\ status'[r] = "running"
        /\ \A q \in Run \ {r} : status'[q] = status[q]
    BY <2>2 DEF IInv, TypeOK
  <2>5. status[r] = "queued"
    BY <1>2, <2>2, <2>3, <2>4
  <2>6. ~Busy(SessionOf[r])
    BY <2>2, <2>5 DEF Busy
  <2> QED BY <1>1, <2>3, <2>4, <2>6, AcquireMaps
<1>5. CASE \E w \in Worker : ConcludeRun(w, "completed")
  <2>1. PICK w \in Worker : ConcludeRun(w, "completed")
    BY <1>5
  <2>2. task[w] \in Run
    BY <2>1 DEF ConcludeRun, IInv, BusyWorkersHaveTasks
  <2>3. CASE Holds(w, task[w])
    <3>1. /\ status[task[w]] = "running"
          /\ status' = [status EXCEPT ![task[w]] = "completed"]
      BY <2>1, <2>3 DEF ConcludeRun, FencedSettle, Holds
    <3> QED BY <1>1, <2>2, <3>1, AnswerMaps
  <2>4. CASE ~Holds(w, task[w])
    BY <1>2, <2>1, <2>4 DEF ConcludeRun, FencedSettle, runVars, AnsweredRuns
  <2> QED BY <2>3, <2>4
<1>6. CASE \E w \in Worker : FailRun(w) \/ ConcludeRun(w, "interrupted")
  <2>1. PICK w \in Worker, outcome \in {"failed", "interrupted"} :
            task[w] \in Run /\ FencedSettle(w, task[w], outcome)
    BY <1>6 DEF FailRun, ConcludeRun, IInv, BusyWorkersHaveTasks
  <2> QED BY <1>2, <2>1 DEF FencedSettle, Holds, runVars, AnsweredRuns, IInv, TypeOK
<1>7. CASE \E w \in Worker : Decline(w) \/ ResolveAuthority(w) \/ Crash(w)
  BY <1>2, <1>7 DEF Decline, ResolveAuthority, Crash, runVars, AnsweredRuns
<1>8. CASE Reconcile \/ \E w \in Worker, r \in Run, now \in BOOLEAN : Ask(w, r, now)
  <2>1. ReconcileStaleRuns
    BY <1>8 DEF Reconcile, Ask
  <2> QED BY <1>2, <2>1 DEF ReconcileStaleRuns, PastDeadline, Recoverable, AnsweredRuns
<1>9. CASE \E r \in Run : LeaseAges(r) \/ RejectUnreadable(r)
  BY <1>2, <1>9 DEF LeaseAges, RejectUnreadable, AnsweredRuns, IInv, TypeOK
<1>10. CASE \E i \in Invitation : WithdrawInvitation(i)
  BY <1>2, <1>10 DEF WithdrawInvitation, Outstanding, AnsweredRuns
<1> QED BY <1>3, <1>4, <1>5, <1>6, <1>7, <1>8, <1>9, <1>10 DEF Next, WorkerStep

\* The run queue implements session ownership, for every set of runs and workers.
THEOREM QueueImplementsOwnership == Spec => ImplementsOwnership
<1>1. Init => Ownership!Init
  BY InitMaps
<1>2. IInv /\ IInv' /\ [Next]_vars => [Ownership!Next]_<<SessionOwner, AnsweredRuns>>
  <2>1. IInv /\ IInv' /\ Next => Ownership!Next
    BY StepMaps
  <2>2. UNCHANGED vars => UNCHANGED <<SessionOwner, AnsweredRuns>>
    BY DEF vars, SessionOwner, Busy, AnsweredRuns
  <2> QED BY <2>1, <2>2
<1> QED BY <1>1, <1>2, Invariance, PTL DEF Spec, ImplementsOwnership, Ownership!Spec, AnsweredRuns

-----------------------------------------------------------------------------
(***************************************************************************)
(* The queue with the hosts' decisions.                                    *)
(***************************************************************************)

\* Every step either is a step of the queue or leaves the queue's state alone.
LEMMA StepMapsToQueue == [ResumeNext]_allVars => [Next]_vars
<1> SUFFICES ASSUME ResumeNext PROVE [Next]_vars
  BY DEF allVars
<1>1. CASE ReconcileRuns
  BY <1>1 DEF ReconcileRuns, Next
<1>2. CASE \E i \in Invitation : Withdraw(i)
  BY <1>2 DEF Withdraw, Next
<1>3. CASE \E r \in Run : (LeaseAges(r) \/ RejectUnreadable(r)) /\ UNCHANGED resumeVars
  BY <1>3 DEF Next
<1>4. CASE \E d \in Decision, v \in Answer : RecordHostDecision(d, v)
  BY <1>4 DEF RecordHostDecision
<1>5. ASSUME NEW w \in Worker, QueueStep(w) PROVE Next
  BY <1>5 DEF QueueStep, Next, WorkerStep
<1>6. ASSUME NEW w \in Worker,
             MatchDecision(w) \/ HoldDecision(w) \/ ApplyDecision(w) \/ ReleaseDecision(w)
      PROVE  UNCHANGED vars
  BY <1>6 DEF MatchDecision, HoldDecision, ApplyDecision, ReleaseDecision
<1>7. ASSUME NEW w \in Worker, Complete(w) PROVE Next
  BY <1>7 DEF Complete, Next, WorkerStep
<1>8. ASSUME NEW w \in Worker, Fail(w) PROVE Next
  BY <1>8 DEF Fail, Next, WorkerStep
<1>9. ASSUME NEW w \in Worker, Die(w) PROVE [Next]_vars
  BY <1>9 DEF Die, Next, WorkerStep
<1>10. ASSUME NEW w \in Worker, NEW D \in SUBSET Decision, Interrupt(w, D) PROVE Next
  BY <1>10 DEF Interrupt, Next, WorkerStep
<1>11. ASSUME NEW w \in Worker, NEW r \in Run, Claim(w, r) PROVE Next
  BY <1>11 DEF Claim, Next
<1>12. ASSUME NEW w \in Worker, NEW r \in Run, NEW now \in BOOLEAN, AskForRun(w, r, now)
       PROVE  Next
  BY <1>12 DEF AskForRun, Next
<1> QED
  BY <1>1, <1>2, <1>3, <1>4, <1>5, <1>6, <1>7, <1>8, <1>9, <1>10, <1>11, <1>12
     DEF ResumeNext

\* The composition is a run queue: the theorems above hold of it.
THEOREM ResumesAreQueueSteps == ResumeSpec => StepsOfTheQueue
<1>1. ResumeInit => Init
  BY DEF ResumeInit
<1> QED BY <1>1, StepMapsToQueue, PTL DEF ResumeSpec, StepsOfTheQueue, Spec

\* One running execution per session survives the composition.
THEOREM ResumesKeepSessionsExclusive == ResumeSpec => []OneRunningPerSession
<1> QED BY ResumesAreQueueSteps, SessionExclusion, PTL DEF StepsOfTheQueue

-----------------------------------------------------------------------------
(***************************************************************************)
(* Decisions                                                               *)
(***************************************************************************)

\* The decisions' part of the type invariant, without the counters of the queue.
DecisionsTyped ==
    /\ decision \in [Decision -> DecisionStatus]
    /\ appliedBy \in [Decision -> Resume \cup {NoRun}]
    /\ recorded \in [Decision -> 0..1]
    /\ stage \in [Worker -> {"none", "matched", "held", "applied"}]
    /\ releasing \in [Worker -> Resume \cup {NoRun}]

RInv ==
    /\ IInv
    /\ DecisionsTyped
    /\ AppliedIsNotRetried
    /\ WithdrawalRetiresDecisions

LEMMA RInvInit == ResumeInit => RInv
<1> SUFFICES ASSUME ResumeInit PROVE RInv
  OBVIOUS
<1>1. IInv
  BY InitIInv DEF ResumeInit
<1>2. DecisionsTyped /\ AppliedIsNotRetried /\ WithdrawalRetiresDecisions
  BY DEF ResumeInit, DecisionsTyped, DecisionStatus, AppliedIsNotRetried,
         WithdrawalRetiresDecisions
<1> QED BY <1>1, <1>2 DEF RInv

\* Giving unrecorded answers back disturbs nothing that was applied.
LEMMA GiveBackKeeps ==
    ASSUME RInv, NEW R \in SUBSET Run, GiveBack(R),
           UNCHANGED <<decision, recorded, stage, releasing>>
    PROVE  DecisionsTyped' /\ AppliedIsNotRetried'
BY DEF RInv, GiveBack, DecisionsTyped, AppliedIsNotRetried, Answered

\* Nothing reopens a decision while no decision, no event and no withdrawal moves.
LEMMA RetiredStay ==
    ASSUME RInv, UNCHANGED <<decision, recorded, withdrawn>>
    PROVE  WithdrawalRetiresDecisions'
BY DEF RInv, WithdrawalRetiresDecisions, Answered

LEMMA RInvStep == RInv /\ [ResumeNext]_allVars => RInv'
<1> SUFFICES ASSUME RInv, [ResumeNext]_allVars PROVE RInv'
  OBVIOUS
<1> USE RunQueueAssumption, DecisionAssumption
<1>0. IInv'
  BY StepMapsToQueue, NextIInv DEF RInv
<1> DEFINE Rest == DecisionsTyped' /\ AppliedIsNotRetried' /\ WithdrawalRetiresDecisions'
<1> SUFFICES Rest
  BY <1>0 DEF RInv
<1>1. CASE ReconcileRuns
  <2>1. UNCHANGED <<decision, recorded, stage, releasing, withdrawn>>
        /\ GiveBack(PastDeadline \ Recoverable)
    BY <1>1 DEF ReconcileRuns, Reconcile
  <2>2. PastDeadline \ Recoverable \in SUBSET Run
    BY DEF PastDeadline
  <2> QED BY <2>1, <2>2, GiveBackKeeps, RetiredStay
<1>2. ASSUME NEW i \in Invitation, Withdraw(i) PROVE Rest
  <2>1. withdrawn' = withdrawn \cup {i}
        /\ decision' = [d \in Decision |-> IF d \in OpenDecisions(i) THEN "cancelled"
                                           ELSE decision[d]]
        /\ UNCHANGED <<appliedBy, recorded, stage, releasing>>
    BY <1>2 DEF Withdraw, WithdrawInvitation
  <2>2. DecisionsTyped' /\ AppliedIsNotRetried'
    BY <2>1 DEF RInv, DecisionsTyped, DecisionStatus, AppliedIsNotRetried, OpenDecisions,
                Answered, Answer
  <2>3. WithdrawalRetiresDecisions'
    BY <2>1 DEF RInv, DecisionsTyped, DecisionStatus, WithdrawalRetiresDecisions,
                OpenDecisions, Answered, Answer
  <2> QED BY <2>2, <2>3
<1>3. ASSUME NEW d \in Decision, NEW v \in Answer, RecordHostDecision(d, v) PROVE Rest
  <2>1. decision[d] = "pending" /\ decision' = [decision EXCEPT ![d] = v]
        /\ UNCHANGED <<appliedBy, recorded, stage, releasing, withdrawn>>
    BY <1>3 DEF RecordHostDecision, vars
  <2>2. DecisionsTyped' /\ AppliedIsNotRetried'
    BY <2>1 DEF RInv, DecisionsTyped, DecisionStatus, AppliedIsNotRetried, Answered, Answer
  <2>3. WithdrawalRetiresDecisions'
    BY <2>1 DEF RInv, DecisionsTyped, WithdrawalRetiresDecisions, Answered, Answer
  <2> QED BY <2>2, <2>3
<1>4. ASSUME NEW w \in Worker, HoldDecision(w) PROVE Rest
  <2>1. UNCHANGED <<decision, recorded, releasing, withdrawn>>
        /\ task[w] \in Resume /\ AnswerOf[task[w]] \in Decision
        /\ appliedBy' = [appliedBy EXCEPT ![AnswerOf[task[w]]] = task[w]]
        /\ stage' = [stage EXCEPT ![w] = "held"]
    BY <1>4 DEF HoldDecision, Resuming, vars
  <2>2. task[w] # NoRun
    BY <2>1
  <2>3. DecisionsTyped' /\ AppliedIsNotRetried'
    BY <2>1, <2>2 DEF RInv, DecisionsTyped, AppliedIsNotRetried, Answered
  <2> QED BY <2>1, <2>3, RetiredStay
<1>5. ASSUME NEW w \in Worker, ApplyDecision(w) PROVE Rest
  <2> DEFINE d == AnswerOf[task[w]]
  <2>1. d \in Decision /\ task[w] \in Resume
        /\ UNCHANGED <<decision, appliedBy, releasing, withdrawn>>
        /\ recorded' = [recorded EXCEPT ![d] =
                           IF appliedBy[d] = task[w] /\ Answered(d) /\ @ = 0 THEN 1 ELSE @]
        /\ stage' = [stage EXCEPT ![w] = "applied"]
    BY <1>5 DEF ApplyDecision, Resuming, vars
  <2>2. DecisionsTyped' /\ AppliedIsNotRetried'
    BY <2>1 DEF RInv, DecisionsTyped, AppliedIsNotRetried, Answered
  <2>3. WithdrawalRetiresDecisions'
    BY <2>1 DEF RInv, DecisionsTyped, WithdrawalRetiresDecisions, Answered
  <2> QED BY <2>2, <2>3
<1>6. ASSUME NEW w \in Worker, NEW D \in SUBSET Decision, Interrupt(w, D) PROVE Rest
  <2>1. D \subseteq Questions(w) /\ pc[w] = "working" /\ Holds(w, task[w])
        /\ decision' = [d \in Decision |-> IF d \in D /\ decision[d] = "absent"
                                           THEN "pending" ELSE decision[d]]
        /\ stage' = [stage EXCEPT ![w] = "none"]
        /\ UNCHANGED <<appliedBy, recorded, releasing, withdrawn>>
    BY <1>6 DEF Interrupt, ConcludeRun, Leaves
  <2>2. task[w] \in Run /\ InvitationOf[task[w]] \notin withdrawn
    BY <2>1 DEF RInv, IInv, BusyWorkersHaveTasks, OwnersAreAuthorised
  <2>3. \A d \in D, r \in Run : SessionOf[r] = SessionAsking[d] => InvitationOf[r] \notin withdrawn
    BY <2>1, <2>2 DEF Questions
  <2>4. DecisionsTyped' /\ AppliedIsNotRetried'
    BY <2>1 DEF RInv, DecisionsTyped, DecisionStatus, AppliedIsNotRetried, Answered, Answer
  <2>5. WithdrawalRetiresDecisions'
    BY <2>1, <2>3 DEF RInv, DecisionsTyped, WithdrawalRetiresDecisions, Answered, Answer
  <2> QED BY <2>4, <2>5
<1>7. ASSUME NEW w \in Worker, ReleaseDecision(w) PROVE Rest
  <2> DEFINE d == AnswerOf[releasing[w]]
  <2>1. d \in Decision
        /\ UNCHANGED <<decision, recorded, stage, withdrawn>>
        /\ appliedBy' = [appliedBy EXCEPT ![d] =
                            IF @ = releasing[w] /\ Answered(d) /\ recorded[d] = 0
                            THEN NoRun ELSE @]
        /\ releasing' = [releasing EXCEPT ![w] = NoRun]
    BY <1>7 DEF ReleaseDecision, vars, RInv, DecisionsTyped
  <2>2. DecisionsTyped' /\ AppliedIsNotRetried'
    BY <2>1 DEF RInv, DecisionsTyped, AppliedIsNotRetried, Answered
  <2> QED BY <2>1, <2>2, RetiredStay
<1>8. ASSUME NEW w \in Worker, NEW r \in Run, NEW now \in BOOLEAN, AskForRun(w, r, now)
      PROVE  Rest
  <2>1. UNCHANGED <<decision, recorded, stage, releasing, withdrawn>>
        /\ GiveBack(PastDeadline \ Recoverable)
    BY <1>8 DEF AskForRun, Ask
  <2>2. PastDeadline \ Recoverable \in SUBSET Run
    BY DEF PastDeadline
  <2> QED BY <2>1, <2>2, GiveBackKeeps, RetiredStay
<1>9. ASSUME NEW w \in Worker, MatchDecision(w) \/ Complete(w) \/ Fail(w) \/ Die(w)
      PROVE  Rest
  <2>1. UNCHANGED <<decision, appliedBy, recorded, withdrawn>>
    BY <1>9 DEF MatchDecision, Complete, Fail, Die, decisionVars, vars, ConcludeRun, FailRun,
                Crash
  <2>2. stage' \in [Worker -> {"none", "matched", "held", "applied"}]
    BY <1>9 DEF MatchDecision, Complete, Fail, Die, Leaves, RInv, DecisionsTyped
  <2>3. releasing' \in [Worker -> Resume \cup {NoRun}]
    BY <1>9 DEF MatchDecision, Complete, Fail, Die, Resuming, RInv, DecisionsTyped
  <2>4. DecisionsTyped' /\ AppliedIsNotRetried'
    BY <2>1, <2>2, <2>3 DEF RInv, DecisionsTyped, AppliedIsNotRetried, Answered
  <2> QED BY <2>1, <2>4, RetiredStay
<1>10. ASSUME UNCHANGED resumeVars, withdrawn' = withdrawn PROVE Rest
  <2>1. DecisionsTyped' /\ AppliedIsNotRetried'
    BY <1>10 DEF RInv, resumeVars, DecisionsTyped, AppliedIsNotRetried, Answered
  <2> QED BY <1>10, <2>1, RetiredStay DEF resumeVars
<1>11. ASSUME NEW w \in Worker, QueueStep(w) \/ \E r \in Run : Claim(w, r) PROVE Rest
  <2>1. UNCHANGED resumeVars /\ withdrawn' = withdrawn
    BY <1>11 DEF QueueStep, Claim, ClaimQueuedRun, InsertRun, RestartRun, Decline,
                 ResolveAuthority
  <2> QED BY <2>1, <1>10
<1>12. ASSUME NEW r \in Run, LeaseAges(r) \/ RejectUnreadable(r), UNCHANGED resumeVars
       PROVE  Rest
  BY <1>10, <1>12 DEF LeaseAges, RejectUnreadable
<1>13. CASE UNCHANGED allVars
  BY <1>10, <1>13 DEF allVars, vars, resumeVars
<1> QED
  BY <1>1, <1>2, <1>3, <1>4, <1>5, <1>6, <1>7, <1>8, <1>9, <1>11, <1>12, <1>13
     DEF ResumeNext

\* The inductive invariant of the composition holds in every reachable state.
THEOREM ResumeInvariance == ResumeSpec => []RInv
<1> QED BY RInvInit, RInvStep, PTL DEF ResumeSpec

\* Withdrawing an invitation leaves none of its decisions open, for any number of
\* requests, questions, executions and lost leases.
THEOREM WithdrawalClosesDecisions == ResumeSpec => []WithdrawalRetiresDecisions
<1>1. RInv => WithdrawalRetiresDecisions
  BY DEF RInv
<1> QED BY <1>1, ResumeInvariance, PTL

\* An answer that was applied is never offered for a retry.
THEOREM AppliedStaysApplied == ResumeSpec => []AppliedIsNotRetried
<1>1. RInv => AppliedIsNotRetried
  BY DEF RInv
<1> QED BY <1>1, ResumeInvariance, PTL

\* The type invariant of the composition.
THEOREM ResumeTypeCorrect == ResumeSpec => []ResumeTypeOK
<1>1. RInv => ResumeTypeOK
  BY DEF RInv, IInv, DecisionsTyped, ResumeTypeOK
<1> QED BY <1>1, ResumeInvariance, PTL

-----------------------------------------------------------------------------
(***************************************************************************)
(* What is applied.  The answer an execution carries was compared with the *)
(* row once, in a transaction of its own; the answer is recorded two       *)
(* transactions later.                                                     *)
(***************************************************************************)

\* What the comparison found stays so: the row still has the answer or was cancelled.
CarriersAreRight ==
    \A w \in Worker :
        stage[w] # "none"
        => /\ Resuming(w)
           /\ decision[AnswerOf[task[w]]] \in {Verdict[task[w]], "cancelled"}

\* The executions themselves do not move.
LEMMA CarriersStand ==
    ASSUME CarriersAreRight, UNCHANGED <<stage, pc, task>>,
           \A d \in Decision : \/ decision'[d] = decision[d]
                               \/ decision[d] \notin Answer \cup {"cancelled"}
                               \/ decision'[d] = "cancelled"
    PROVE  CarriersAreRight'
BY DecisionAssumption DEF CarriersAreRight, Resuming

\* One execution moves and carries no answer afterwards.
LEMMA OthersCarry ==
    ASSUME CarriersAreRight, NEW w \in Worker,
           \A v \in Worker \ {w} : /\ stage'[v] = stage[v]
                                   /\ pc'[v] = pc[v] /\ task'[v] = task[v],
           \A d \in Decision : \/ decision'[d] = decision[d]
                               \/ decision[d] \notin Answer \cup {"cancelled"},
           stage'[w] = "none"
    PROVE  CarriersAreRight'
BY DecisionAssumption DEF CarriersAreRight, Resuming

LEMMA BecomesOnly ==
    ASSUME NEW w \in Worker, NEW state, NEW r, NEW now, Becomes(w, state, r, now), TypeOK
    PROVE  \A v \in Worker \ {w} : pc'[v] = pc[v] /\ task'[v] = task[v]
BY DEF Becomes, TypeOK

LEMMA CarriersStep ==
    ASSUME RInv, CarriersAreRight, [ResumeNext]_allVars
    PROVE  CarriersAreRight'
<1> USE DecisionAssumption
<1>t. TypeOK /\ DecisionsTyped
  BY DEF RInv, IInv
<1>1. CASE ReconcileRuns \/ \E r \in Run : (LeaseAges(r) \/ RejectUnreadable(r))
                                           /\ UNCHANGED resumeVars
  <2>1. UNCHANGED <<stage, pc, task, decision>>
    BY <1>1 DEF ReconcileRuns, Reconcile, LeaseAges, RejectUnreadable, workerVars, resumeVars
  <2> QED BY <2>1, CarriersStand
<1>2. ASSUME NEW i \in Invitation, Withdraw(i) PROVE CarriersAreRight'
  <2>1. /\ UNCHANGED <<stage, pc, task>>
        /\ \A d \in Decision : decision'[d] \in {decision[d], "cancelled"}
    BY <1>2 DEF Withdraw, WithdrawInvitation, workerVars
  <2> QED BY <2>1, CarriersStand
<1>3. ASSUME NEW d \in Decision, NEW v \in Answer, RecordHostDecision(d, v)
      PROVE  CarriersAreRight'
  <2>1. /\ UNCHANGED <<stage, pc, task>>
        /\ decision[d] = "pending" /\ decision' = [decision EXCEPT ![d] = v]
    BY <1>3 DEF RecordHostDecision, vars
  <2>2. \A e \in Decision : \/ decision'[e] = decision[e]
                            \/ decision[e] \notin Answer \cup {"cancelled"}
    BY <1>t, <2>1 DEF DecisionsTyped, Answer
  <2> QED BY <2>1, <2>2, CarriersStand
<1>4. ASSUME NEW w \in Worker, HoldDecision(w) \/ ApplyDecision(w) PROVE CarriersAreRight'
  <2>1. /\ UNCHANGED <<decision, pc, task>> /\ stage[w] # "none"
        /\ \A v \in Worker \ {w} : stage'[v] = stage[v]
    BY <1>4, <1>t DEF HoldDecision, ApplyDecision, vars, DecisionsTyped
  <2> QED BY <2>1 DEF CarriersAreRight, Resuming
<1>5. ASSUME NEW w \in Worker, MatchDecision(w) PROVE CarriersAreRight'
  <2>1. /\ UNCHANGED <<decision, pc, task>> /\ Resuming(w)
        /\ decision[AnswerOf[task[w]]] = Verdict[task[w]]
        /\ \A v \in Worker \ {w} : stage'[v] = stage[v]
    BY <1>5, <1>t DEF MatchDecision, vars, DecisionsTyped
  <2> QED BY <2>1 DEF CarriersAreRight, Resuming
<1>6. ASSUME NEW w \in Worker, Complete(w) \/ Fail(w) \/ \E D \in SUBSET Decision : Interrupt(w, D)
      PROVE  CarriersAreRight'
  <2>1. /\ Idles(w) /\ Leaves(w)
        /\ \A d \in Decision : decision'[d] = decision[d] \/ decision[d] = "absent"
    BY <1>6 DEF Complete, Fail, Interrupt, ConcludeRun, FailRun, decisionVars
  <2>2. /\ \A v \in Worker \ {w} : stage'[v] = stage[v]
        /\ stage'[w] = "none"
    BY <2>1, <1>t DEF Leaves, DecisionsTyped
  <2>3. \A v \in Worker \ {w} : pc'[v] = pc[v] /\ task'[v] = task[v]
    BY <2>1, <1>t, BecomesOnly DEF Idles
  <2>4. \A d \in Decision : decision'[d] = decision[d]
                            \/ decision[d] \notin Answer \cup {"cancelled"}
    BY <2>1 DEF Answer
  <2> QED BY <2>2, <2>3, <2>4, OthersCarry
<1>7. ASSUME NEW w \in Worker, Die(w) PROVE CarriersAreRight'
  <2>1. CASE Crash(w) /\ Leaves(w) /\ UNCHANGED decision
    <3>1. /\ \A v \in Worker \ {w} : stage'[v] = stage[v]
          /\ stage'[w] = "none"
      BY <2>1, <1>t DEF Leaves, DecisionsTyped
    <3>2. \A v \in Worker \ {w} : pc'[v] = pc[v] /\ task'[v] = task[v]
      BY <2>1, <1>t, BecomesOnly DEF Crash, Idles
    <3> QED BY <2>1, <3>1, <3>2, OthersCarry
  <2>2. CASE UNCHANGED <<vars, stage, decision>>
    BY <2>2, CarriersStand DEF vars
  <2> QED BY <1>7, <2>1, <2>2 DEF Die, decisionVars
<1>8. ASSUME NEW w \in Worker, ReleaseDecision(w) PROVE CarriersAreRight'
  BY <1>8, CarriersStand DEF ReleaseDecision, vars
<1>9. ASSUME NEW w \in Worker,
             \/ QueueStep(w)
             \/ \E r \in Run : Claim(w, r)
             \/ \E r \in Run, now \in BOOLEAN : AskForRun(w, r, now)
      PROVE  CarriersAreRight'
  <2>1. pc[w] # "working" /\ UNCHANGED <<stage, decision>>
    BY <1>9 DEF QueueStep, InsertRun, RestartRun, Decline, ResolveAuthority, Claim,
                ClaimQueuedRun, AskForRun, Ask, resumeVars
  <2>2. PICK state, r, now : Becomes(w, state, r, now)
    BY <1>9 DEF QueueStep, InsertRun, RestartRun, Accept, Decline, ResolveAuthority, Claim,
                ClaimQueuedRun, AskForRun, Ask, Idles
  <2>3. \A v \in Worker \ {w} : pc'[v] = pc[v] /\ task'[v] = task[v]
    BY <2>2, <1>t, BecomesOnly
  <2>4. stage'[w] = "none"
    BY <2>1 DEF CarriersAreRight, Resuming
  <2> QED BY <2>1, <2>3, <2>4, OthersCarry
<1>10. CASE UNCHANGED allVars
  BY <1>10, CarriersStand DEF allVars, vars, resumeVars
<1> QED
  BY <1>1, <1>2, <1>3, <1>4, <1>5, <1>6, <1>7, <1>8, <1>9, <1>10 DEF ResumeNext

\* What an execution carries stays what the host answered, while it applies it.
THEOREM CarriersInvariance == ResumeSpec => [](RInv /\ CarriersAreRight)
<1>1. ResumeInit => RInv /\ CarriersAreRight
  BY RInvInit DEF ResumeInit, CarriersAreRight
<1>2. RInv /\ CarriersAreRight /\ [ResumeNext]_allVars => RInv' /\ CarriersAreRight'
  BY RInvStep, CarriersStep
<1> QED BY <1>1, <1>2, PTL DEF ResumeSpec

\* An answer is recorded once, by an execution that carries the very answer the host gave
\* while the row still names its run: not after a withdrawal, not another run's, not again
\* after a recovered lease (run-task.ts:458-486).
THEOREM AnswersAreAppliedAsGiven == ResumeSpec => AppliedAsAnswered
<1> DEFINE Applies == \A d \in Decision :
         recorded'[d] # recorded[d]
         => /\ recorded[d] = 0
            /\ \E w \in Worker : /\ Resuming(w) /\ AnswerOf[task[w]] = d
                                 /\ Verdict[task[w]] = decision[d]
                                 /\ appliedBy[d] = task[w]
<1>1. ASSUME RInv, CarriersAreRight, [ResumeNext]_allVars PROVE Applies
  <2> SUFFICES ASSUME NEW d \in Decision, recorded'[d] # recorded[d]
               PROVE  /\ recorded[d] = 0
                      /\ \E w \in Worker : /\ Resuming(w) /\ AnswerOf[task[w]] = d
                                           /\ Verdict[task[w]] = decision[d]
                                           /\ appliedBy[d] = task[w]
    OBVIOUS
  <2>1. PICK w \in Worker : ApplyDecision(w)
    BY <1>1 DEF ResumeNext, ReconcileRuns, Withdraw, RecordHostDecision, QueueStep,
                MatchDecision, HoldDecision, Complete, Fail, ReleaseDecision, Die, Interrupt,
                Claim, AskForRun, allVars, resumeVars, decisionVars
  <2>2. /\ Resuming(w) /\ stage[w] = "held"
        /\ recorded' = [recorded EXCEPT ![AnswerOf[task[w]]] =
               IF appliedBy[AnswerOf[task[w]]] = task[w] /\ Answered(AnswerOf[task[w]]) /\ @ = 0
               THEN 1 ELSE @]
    BY <2>1 DEF ApplyDecision
  <2>3. /\ d = AnswerOf[task[w]] /\ recorded[d] = 0
        /\ appliedBy[d] = task[w] /\ Answered(d)
    BY <2>2, <1>1 DEF RInv, DecisionsTyped
  <2>4. decision[d] = Verdict[task[w]]
    BY <2>2, <2>3, <1>1 DEF CarriersAreRight, Answered, Answer
  <2> QED BY <2>2, <2>3, <2>4
<1>2. RInv /\ CarriersAreRight /\ [ResumeNext]_allVars => [Applies]_allVars
  BY <1>1
<1> QED BY <1>2, CarriersInvariance, PTL DEF ResumeSpec, AppliedAsAnswered

-----------------------------------------------------------------------------
(***************************************************************************)
(* The decisions are what HostDecisions promises.  An interrupt asks       *)
(* nothing about a withdrawn invitation because whoever works and still    *)
(* holds its claim is authorised; an answer is held by who compared it, so *)
(* it is the host's or was cancelled; and what is given back was not       *)
(* applied, whichever statement gives it back and however late.            *)
(***************************************************************************)

Effective == {d \in Decision : recorded[d] > 0}

decisionsAbove == <<decision, appliedBy, Effective, withdrawn>>

LEMMA DecisionsStart == ResumeInit => Decisions!Init
BY DEF ResumeInit, Init, Decisions!Init

\* What was given back of the given runs' answers.
LEMMA GiveBackMaps ==
    ASSUME DecisionsTyped, NEW R \in SUBSET Run, GiveBack(R),
           UNCHANGED <<decision, recorded, withdrawn>>
    PROVE  \E D \in SUBSET Decision : Decisions!TakeBack(D)
<1> DEFINE D == {d \in Decision : appliedBy[d] \in R /\ recorded[d] = 0}
<1>1. appliedBy' = [d \in Decision |-> IF d \in D THEN NoRun ELSE appliedBy[d]]
  BY DEF GiveBack
<1>2. D \cap Effective = {}
  BY DEF Effective, DecisionsTyped
<1>3. Decisions!TakeBack(D)
  BY <1>1, <1>2 DEF Decisions!TakeBack, Effective
<1> QED BY <1>3

LEMMA ReplyMaps ==
    ASSUME RInv, NEW d \in Decision, NEW v \in Answer, RecordHostDecision(d, v)
    PROVE  Decisions!Reply(d, v)
BY DEF RecordHostDecision, Decisions!Reply, vars

LEMMA WithdrawMaps ==
    ASSUME RInv, NEW i \in Invitation, Withdraw(i)
    PROVE  Decisions!Close(i)
<1>1. /\ i \notin withdrawn /\ withdrawn' = withdrawn \cup {i}
      /\ decision' = [d \in Decision |-> IF d \in OpenDecisions(i) THEN "cancelled"
                                         ELSE decision[d]]
      /\ UNCHANGED <<appliedBy, recorded>>
  BY DEF Withdraw, WithdrawInvitation
<1>2. ASSUME NEW d \in Decision
      PROVE  (IF d \in OpenDecisions(i) THEN "cancelled" ELSE decision[d])
             = (IF d \in Decisions!OpenQuestions(i) THEN "cancelled" ELSE decision[d])
  <2>1. i \in About[d] <=> \E r \in Run : InvitationOf[r] = i /\ SessionOf[r] = SessionAsking[d]
    BY DEF About
  <2>2. /\ decision[d] \in {"absent", "pending", "cancelled"} \cup Answer
        /\ recorded[d] \in 0..1
        /\ recorded[d] > 0 => decision[d] \in Answer
    BY DEF RInv, DecisionsTyped, DecisionStatus, AppliedIsNotRetried, Answered
  <2> QED BY <2>1, <2>2 DEF OpenDecisions, Answered, Answer, Decisions!OpenQuestions
<1>3. decision' = [d \in Decision |-> IF d \in Decisions!OpenQuestions(i) THEN "cancelled"
                                      ELSE decision[d]]
  BY <1>1, <1>2
<1> QED BY <1>1, <1>3 DEF Decisions!Close

\* The rows an execution writes are about an invitation that still stands.
LEMMA InterruptMaps ==
    ASSUME RInv, NEW w \in Worker, NEW D \in SUBSET Decision, Interrupt(w, D)
    PROVE  \E E \in SUBSET Decision : Decisions!Put(E)
<1> DEFINE E == {d \in D : decision[d] = "absent"}
<1>1. /\ D \subseteq Questions(w) /\ pc[w] = "working" /\ Holds(w, task[w])
      /\ decision' = [d \in Decision |-> IF d \in D /\ decision[d] = "absent"
                                         THEN "pending" ELSE decision[d]]
      /\ UNCHANGED <<appliedBy, recorded, withdrawn>>
  BY DEF Interrupt, ConcludeRun
<1>2. task[w] \in Run /\ InvitationOf[task[w]] \notin withdrawn
  BY <1>1 DEF RInv, IInv, BusyWorkersHaveTasks, OwnersAreAuthorised
<1>3. ASSUME NEW d \in E PROVE decision[d] = "absent" /\ About[d] \cap withdrawn = {}
  <2>1. SessionAsking[d] = SessionOf[task[w]]
    BY <1>1 DEF Questions
  <2>2. ASSUME NEW i \in About[d] PROVE i \notin withdrawn
    <3>1. PICK r \in Run : InvitationOf[r] = i /\ SessionOf[r] = SessionAsking[d]
      BY DEF About
    <3> QED BY <1>2, <2>1, <3>1, DecisionAssumption
  <2> QED BY <2>2
<1>4. Decisions!Put(E)
  BY <1>1, <1>3 DEF Decisions!Put
<1> QED BY <1>4

LEMMA HoldMaps ==
    ASSUME RInv, CarriersAreRight, NEW w \in Worker, HoldDecision(w)
    PROVE  (\E r \in Resume : Decisions!Give(r)) \/ UNCHANGED decisionsAbove
<1> DEFINE r == task[w]
           d == AnswerOf[task[w]]
<1>1. /\ r \in Resume /\ d \in Decision /\ stage[w] = "matched"
      /\ appliedBy[d] \in {NoRun, r} /\ appliedBy' = [appliedBy EXCEPT ![d] = r]
      /\ UNCHANGED <<decision, recorded, withdrawn>>
  BY DecisionAssumption DEF HoldDecision, Resuming, vars
<1>2. decision[d] \in {Verdict[r], "cancelled"}
  BY <1>1 DEF CarriersAreRight
<1>3. CASE appliedBy[d] = r
  <2>1. appliedBy' = appliedBy
    BY <1>1, <1>3 DEF RInv, DecisionsTyped
  <2> QED BY <1>1, <2>1 DEF decisionsAbove, Effective
<1>4. CASE appliedBy[d] = NoRun
  <2>1. ~(recorded[d] > 0)
    BY <1>1, <1>4 DEF RInv, AppliedIsNotRetried
  <2>2. Decisions!Give(r)
    BY <1>1, <1>2, <1>4, <2>1 DEF Decisions!Give
  <2> QED BY <1>1, <2>2
<1> QED BY <1>1, <1>3, <1>4

LEMMA ApplyMaps ==
    ASSUME RInv, CarriersAreRight, NEW w \in Worker, ApplyDecision(w)
    PROVE  (\E r \in Resume : Decisions!TakeEffect(r)) \/ UNCHANGED decisionsAbove
<1> DEFINE r == task[w]
           d == AnswerOf[task[w]]
           applies == appliedBy[d] = r /\ Answered(d) /\ recorded[d] = 0
<1>1. /\ r \in Resume /\ d \in Decision /\ stage[w] = "held"
      /\ recorded' = [recorded EXCEPT ![d] = IF applies THEN 1 ELSE @]
      /\ UNCHANGED <<decision, appliedBy, withdrawn>>
  BY DecisionAssumption DEF ApplyDecision, Resuming, vars
<1>2. decision[d] \in {Verdict[r], "cancelled"}
  BY <1>1 DEF CarriersAreRight
<1>3. recorded \in [Decision -> 0..1]
  BY DEF RInv, DecisionsTyped
<1>4. CASE ~applies
  <2>1. recorded' = recorded
    BY <1>1, <1>3, <1>4
  <2> QED BY <1>1, <2>1 DEF decisionsAbove, Effective
<1>5. CASE applies
  <2>1. recorded' = [recorded EXCEPT ![d] = 1]
    BY <1>1, <1>5
  <2>2. Effective' = Effective \cup {d}
    BY <1>1, <1>3, <2>1 DEF Effective
  <2>3. decision[d] = Verdict[r] /\ d \notin Effective
    BY <1>2, <1>5 DEF Answered, Answer, Effective
  <2>4. \E c \in Resume :
           /\ appliedBy[AnswerOf[c]] = c /\ AnswerOf[c] \notin Effective
           /\ decision[AnswerOf[c]] = Verdict[c]
           /\ Effective' = Effective \cup {AnswerOf[c]}
    BY <1>1, <1>5, <2>2, <2>3
  <2> QED BY <1>1, <2>4 DEF Decisions!TakeEffect, Effective
<1> QED BY <1>4, <1>5

\* The catch block's second statement, which may come after others have the run.
LEMMA TakenBackMaps ==
    ASSUME RInv, NEW w \in Worker, ReleaseDecision(w)
    PROVE  \E D \in SUBSET Decision : Decisions!TakeBack(D)
<1> DEFINE r == releasing[w]
           d == AnswerOf[releasing[w]]
           D == IF appliedBy[d] = r /\ Answered(d) /\ recorded[d] = 0 THEN {d} ELSE {}
<1>1. /\ d \in Decision
      /\ appliedBy' = [appliedBy EXCEPT ![d] =
                          IF @ = r /\ Answered(d) /\ recorded[d] = 0 THEN NoRun ELSE @]
      /\ UNCHANGED <<decision, recorded, withdrawn>>
  BY DecisionAssumption DEF ReleaseDecision, vars, RInv, DecisionsTyped
<1>2. appliedBy' = [e \in Decision |-> IF e \in D THEN NoRun ELSE appliedBy[e]]
  BY <1>1 DEF RInv, DecisionsTyped
<1>3. D \cap Effective = {}
  BY DEF Effective
<1>4. Decisions!TakeBack(D)
  BY <1>1, <1>2, <1>3 DEF Decisions!TakeBack, Effective
<1> QED BY <1>1, <1>4

LEMMA DecisionsStep ==
    ASSUME RInv, CarriersAreRight, [ResumeNext]_allVars
    PROVE  Decisions!Next \/ UNCHANGED decisionsAbove
<1> DEFINE Maps == Decisions!Next \/ UNCHANGED decisionsAbove
<1> SUFFICES Maps
  OBVIOUS
<1>t. DecisionsTyped
  BY DEF RInv
<1>1. ASSUME UNCHANGED <<decision, appliedBy, recorded, withdrawn>> PROVE Maps
  BY <1>1 DEF decisionsAbove, Effective
<1>2. ASSUME ReconcileRuns
             \/ \E w \in Worker, r \in Run, now \in BOOLEAN : AskForRun(w, r, now)
      PROVE  Maps
  <2>1. GiveBack(PastDeadline \ Recoverable) /\ UNCHANGED <<decision, recorded, withdrawn>>
    BY <1>2 DEF ReconcileRuns, Reconcile, AskForRun, Ask
  <2>2. PastDeadline \ Recoverable \in SUBSET Run
    BY DEF PastDeadline
  <2> QED BY <1>t, <2>1, <2>2, GiveBackMaps DEF Decisions!Next
<1>3. ASSUME NEW i \in Invitation, Withdraw(i) PROVE Maps
  BY <1>3, WithdrawMaps DEF Decisions!Next
<1>4. ASSUME NEW d \in Decision, NEW v \in Answer, RecordHostDecision(d, v) PROVE Maps
  BY <1>4, ReplyMaps DEF Decisions!Next
<1>5. ASSUME NEW w \in Worker, HoldDecision(w) PROVE Maps
  BY <1>5, HoldMaps DEF Decisions!Next
<1>6. ASSUME NEW w \in Worker, ApplyDecision(w) PROVE Maps
  BY <1>6, ApplyMaps DEF Decisions!Next
<1>7. ASSUME NEW w \in Worker, ReleaseDecision(w) PROVE Maps
  BY <1>7, TakenBackMaps DEF Decisions!Next
<1>8. ASSUME NEW w \in Worker, NEW D \in SUBSET Decision, Interrupt(w, D) PROVE Maps
  BY <1>8, InterruptMaps DEF Decisions!Next
<1>9. ASSUME NEW w \in Worker, MatchDecision(w) \/ Complete(w) \/ Fail(w) \/ Die(w)
      PROVE  Maps
  <2>1. UNCHANGED <<decision, appliedBy, recorded, withdrawn>>
    BY <1>9 DEF MatchDecision, Complete, Fail, Die, decisionVars, vars, ConcludeRun, FailRun,
                Crash
  <2> QED BY <1>1, <2>1
<1>10. ASSUME NEW w \in Worker, QueueStep(w) \/ \E r \in Run : Claim(w, r) PROVE Maps
  <2>1. UNCHANGED <<decision, appliedBy, recorded, withdrawn>>
    BY <1>10 DEF QueueStep, Claim, ClaimQueuedRun, InsertRun, RestartRun, Decline,
                 ResolveAuthority, resumeVars
  <2> QED BY <1>1, <2>1
<1>11. ASSUME NEW r \in Run, LeaseAges(r) \/ RejectUnreadable(r), UNCHANGED resumeVars
       PROVE  Maps
  <2>1. UNCHANGED <<decision, appliedBy, recorded, withdrawn>>
    BY <1>11 DEF LeaseAges, RejectUnreadable, resumeVars
  <2> QED BY <1>1, <2>1
<1>12. CASE UNCHANGED allVars
  BY <1>1, <1>12 DEF allVars, vars, resumeVars
<1> HIDE DEF Maps
<1> QED
  BY <1>2, <1>3, <1>4, <1>5, <1>6, <1>7, <1>8, <1>9, <1>10, <1>11, <1>12 DEF ResumeNext

\* Whatever executions die, lose their lease, come late or are run again, the queue and the
\* decisions together are the host's desk of HostDecisions: asked once, answered once,
\* effective once and as answered, or closed by the withdrawal (run-task.ts:381-542,
\* host-decision.ts, cancellation.ts:70-81).
THEOREM ResumeImplementsDecisions == ResumeSpec => ImplementsDecisions
<1>1. ResumeInit => Decisions!Init
  BY DecisionsStart
<1>2. RInv /\ CarriersAreRight /\ [ResumeNext]_allVars
      => [Decisions!Next]_decisionsAbove
  BY DecisionsStep
<1> QED BY <1>1, <1>2, CarriersInvariance, PTL
        DEF ResumeSpec, ImplementsDecisions, Decisions!Spec, decisionsAbove, Effective
=============================================================================
