--------------------------- MODULE Reconfirmation ---------------------------
(***************************************************************************)
(* Reconfirmation of one booked visit: the jobs that ask the guest and     *)
(* call in the hosts (core/reconfirmation), the cron that dispatches them  *)
(* to the agent queue, the runtime that runs them in line, the workers     *)
(* that drain the queue, and the guests and hosts who change the visit     *)
(* meanwhile.                                                              *)
(*                                                                         *)
(* A transaction is one action; what a process does between transactions   *)
(* is its `at`.  Due times and back-off are left open: a job may be        *)
(* claimed at any time, but an escalation not before the day of its stay   *)
(* has passed.  The agent queue (module RunQueue) appears as one run per   *)
(* job, because every tick of a job has the same intent.                   *)
(***************************************************************************)
EXTENDS Naturals, FiniteSets

CONSTANTS
    Cron,           \* processes in dispatchDueJobs
    Runtime,        \* processes in runJob
    Drain,          \* processes that execute queued runs
    Guest,          \* the party that a chase is for
    Hosts,          \* the hosts an escalation is for
    MaxJobs,        \* bound on the rows of scheduled_jobs
    MaxStays,       \* bound: the visit is booked this many times
    FaultKinds,     \* what goes wrong: a subset of AllFaults
    MaxFaults       \* bound on how often

Process == Cron \cup Runtime \cup Drain
Job == 1..MaxJobs
AllFaults == {"crash", "error", "slow", "omission"}
NoJob == 0
Nobody == "nobody"
MaxAttempts == 3

ASSUME ReconfirmationAssumption ==
    /\ Cron \cap Runtime = {} /\ Cron \cap Drain = {} /\ Runtime \cap Drain = {}
    /\ Nobody \notin Process
    /\ Guest \notin Hosts
    /\ MaxJobs \in Nat \ {0} /\ MaxStays \in Nat \ {0} /\ MaxFaults \in Nat
    /\ FaultKinds \subseteq AllFaults

VARIABLES
    visit,      \* visits.status
    stay,       \* the stay booked now, counting every booking
    waited,     \* stays whose 24 hours since reconfirm_requested_at have passed
    overtaken,  \* history: stays booked while a follow-up was still to be scheduled
    jobs,       \* scheduled_jobs in the order of their insertion
    told,       \* notifications: the recipients each job has reached
    runs,       \* the run of each job; one that failed or never was is "ended" too
    process,    \* what each process is doing
    answering,  \* a guest's yes whose escalation job is still to be cancelled
    syncing,    \* a booking whose syncChaseJob is still to run
    faults      \* faults so far

vars == <<visit, stay, waited, overtaken, jobs, told, runs, process, answering, syncing,
          faults>>

Locations == {"idle", "prepare", "schedule", "decide", "complete", "enqueue", "link",
              "invoke", "replay", "check", "fallback", "catch", "agent", "report", "finish",
              "failing"}

TypeOK ==
    /\ visit \in {"confirmed", "reconfirm_pending", "reconfirmed", "escalated", "cancelled"}
    /\ stay \in 1..MaxStays
    /\ waited \subseteq 1..stay
    /\ overtaken \subseteq 1..stay
    /\ jobs \in [Job -> [kind : {"none", "chase", "escalate"},
                         status : {"scheduled", "running", "done", "cancelled", "quarantined"},
                         stay : 0..MaxStays, claimant : Process \cup {Nobody},
                         attempts : 0..MaxAttempts, linked : BOOLEAN, expired : BOOLEAN]]
    /\ \A j \in Job : jobs[j].claimant # Nobody <=> jobs[j].status = "running"
    /\ told \in [Job -> SUBSET (Hosts \cup {Guest})]
    /\ runs \in [Job -> [status : {"ended", "queued", "running"},
                         by : Process \cup {Nobody}]]
    /\ \A j \in Job : runs[j].by # Nobody <=> runs[j].status = "running"
    /\ process \in [Process -> [at : Locations, job : Job \cup {NoJob},
                                acts : BOOLEAN, changed : BOOLEAN,
                                follow : 0..MaxStays]]
    /\ answering \in BOOLEAN
    /\ syncing \in BOOLEAN
    /\ faults \in 0..MaxFaults

Row(kind, forStay) ==
    [kind |-> kind, status |-> "scheduled", stay |-> forStay, claimant |-> Nobody,
     attempts |-> 0, linked |-> FALSE, expired |-> FALSE]

Ended == [status |-> "ended", by |-> Nobody]

Resting == [at |-> "idle", job |-> NoJob, acts |-> FALSE, changed |-> FALSE, follow |-> 0]

\* A visit as confirmVisit commits it: with its chase job, not yet synchronised.
Init ==
    /\ visit = "confirmed"
    /\ stay = 1
    /\ waited = {}
    /\ overtaken = {}
    /\ jobs = [j \in Job |-> IF j = 1 THEN Row("chase", 1)
                             ELSE [Row("none", 0) EXCEPT !.status = "done"]]
    /\ told = [j \in Job |-> {}]
    /\ runs = [j \in Job |-> Ended]
    /\ process = [p \in Process |-> Resting]
    /\ answering = FALSE
    /\ syncing = TRUE
    /\ faults = 0

-----------------------------------------------------------------------------
(***************************************************************************)
(* Jobs                                                                    *)
(***************************************************************************)

Open(table, kind) == {j \in Job : /\ table[j].kind = kind
                                  /\ table[j].status \in {"scheduled", "running"}}

Unused(table) == {j \in Job : table[j].kind = "none"}

FirstUnused(table) == CHOOSE j \in Unused(table) : \A i \in Unused(table) : j <= i

Insert(table, kind, forStay) == [table EXCEPT ![FirstUnused(table)] = Row(kind, forStay)]

\* What is never read again of a closed job, its attempts among others, is dropped.
Close(job, status) == [Row(job.kind, job.stay) EXCEPT !.status = status]

Cancel(table, S) == [j \in Job |-> IF j \in S THEN Close(table[j], "cancelled") ELSE table[j]]

HasRow(table, kind) == Open(table, kind) # {} \/ Unused(table) # {}

\* on conflict do nothing, by scheduled_jobs_one_open_kind_per_visit_idx.
ScheduleUnlessOpen(table, kind, forStay) ==
    IF Open(table, kind) = {} THEN Insert(table, kind, forStay) ELSE table

Needed(j) == IF jobs[j].kind = "chase" THEN {Guest} ELSE Hosts
DeliveryIsComplete(j) == Needed(j) \subseteq told[j]

\* The claim token of a job is the process that claimed it.
IsCurrent(p) ==
    /\ jobs[process[p].job].claimant = p
    /\ visit # "cancelled"

\* recordJobFailure
Failed(job) ==
    IF job.attempts >= MaxAttempts THEN Close(job, "quarantined")
    ELSE [Close(job, "scheduled") EXCEPT !.attempts = job.attempts]

\* completeClaimedJob
Completed(job) == Close(job, "done")

Goes(p, location) == process' = [process EXCEPT ![p].at = location]
Rests(p) == process' = [process EXCEPT ![p] = Resting]

Fault(kind) ==
    /\ kind \in FaultKinds
    /\ faults < MaxFaults
    /\ faults' = faults + 1

guestVars == <<stay, waited, overtaken, answering, syncing>>

-----------------------------------------------------------------------------
(***************************************************************************)
(* dispatchDueJobs and runJob                                              *)
(***************************************************************************)

RunLives(j) == jobs[j].linked /\ runs[j].status \in {"queued", "running"}

\* Mutant: a claim that was never finished is not taken over.
ClaimableWhenScheduled(j) ==
    /\ jobs[j].kind # "none"
    /\ jobs[j].kind = "escalate" => jobs[j].stay \in waited
    /\ jobs[j].status = "scheduled"

\* Mutant: an escalation may run before its day has passed.
ClaimableAtOnce(j) ==
    /\ jobs[j].kind # "none"
    /\ jobs[j].status = "scheduled" \/ (jobs[j].expired /\ ~RunLives(j))

Claimable(j) ==
    /\ jobs[j].kind # "none"
    /\ jobs[j].kind = "escalate" => jobs[j].stay \in waited
    /\ jobs[j].status = "scheduled" \/ (jobs[j].expired /\ ~RunLives(j))

\* The attempts saturate, since only a third one is told apart from earlier ones.
Claim(p, j) ==
    /\ process[p].at = "idle"
    /\ Claimable(j)
    /\ jobs' = [jobs EXCEPT ![j].status = "running", ![j].claimant = p, ![j].expired = FALSE,
                            ![j].attempts = IF @ < MaxAttempts THEN @ + 1 ELSE @]
    /\ process' = [process EXCEPT ![p] = [Resting EXCEPT !.at = "prepare", !.job = j]]
    /\ UNCHANGED <<visit, told, runs, faults, guestVars>>

Abandon(p) ==
    /\ ~IsCurrent(p)
    /\ Rests(p)
    /\ UNCHANGED <<visit, jobs, told, runs, faults, guestVars>>

\* applyChase and applyEscalation
Transition(kind) ==
    IF kind = "chase" /\ visit = "confirmed" THEN "reconfirm_pending"
    ELSE IF kind = "escalate" /\ visit = "reconfirm_pending" THEN "escalated"
    ELSE visit

\* The transition of the visit, with the stay an escalation is to be scheduled for.
Prepare(p) ==
    LET chase == jobs[process[p].job].kind = "chase"
        next == Transition(jobs[process[p].job].kind)
    IN  /\ process[p].at = "prepare"
        /\ IsCurrent(p)
        /\ visit' = next
        /\ process' = [process EXCEPT
             ![p].at = "schedule",
             ![p].acts = next = IF chase THEN "reconfirm_pending" ELSE "escalated",
             ![p].changed = next # visit,
             ![p].follow = IF chase /\ next = "reconfirm_pending" THEN stay ELSE 0]
        /\ UNCHANGED <<jobs, told, runs, faults, guestVars>>

\* Mutant: only the process that asked schedules the escalation.
ScheduleFirstOnly(p) ==
    /\ process[p].at = "schedule"
    /\ jobs' = IF process[p].follow # 0 /\ process[p].changed /\ visit # "cancelled"
               THEN ScheduleUnlessOpen(jobs, "escalate", process[p].follow) ELSE jobs
    /\ Goes(p, "decide")
    /\ UNCHANGED <<visit, told, runs, faults, guestVars>>

\* scheduleJobs, in a transaction of its own.
Schedule(p) ==
    /\ process[p].at = "schedule"
    /\ process[p].follow # 0 => HasRow(jobs, "escalate")
    /\ jobs' = IF process[p].follow # 0 /\ visit # "cancelled"
               THEN ScheduleUnlessOpen(jobs, "escalate", process[p].follow) ELSE jobs
    /\ Goes(p, "decide")
    /\ UNCHANGED <<visit, told, runs, faults, guestVars>>

\* Whether the visit, as Prepare left it, gives the job somebody to reach.
Decide(p) ==
    LET j == process[p].job
        reached == ~process[p].changed /\ DeliveryIsComplete(j)
    IN  /\ process[p].at = "decide"
        /\ IsCurrent(p)
        /\ process' = [process EXCEPT ![p] = [Resting EXCEPT !.job = j,
             !.at = IF ~process[p].acts \/ reached THEN "complete"
                    ELSE IF p \in Cron THEN "enqueue" ELSE "invoke"]]
        /\ UNCHANGED <<visit, jobs, told, runs, faults, guestVars>>

Complete(p) ==
    /\ process[p].at = "complete"
    /\ IsCurrent(p)
    /\ jobs' = [jobs EXCEPT ![process[p].job] = Completed(@)]
    /\ Rests(p)
    /\ UNCHANGED <<visit, told, runs, faults, guestVars>>

\* authorityForTask; a cancelled invitation has a cancelled visit.
Authorized(j) == jobs[j].status # "cancelled" /\ visit # "cancelled"

\* A tick whose run has ended starts again; one that has not is the same run.
Enqueue(p) ==
    LET j == process[p].job
    IN  /\ process[p].at = "enqueue"
        /\ runs' = IF Authorized(j) /\ runs[j].status = "ended"
                   THEN [runs EXCEPT ![j] = [status |-> "queued", by |-> Nobody]] ELSE runs
        /\ Goes(p, IF Authorized(j) THEN "link" ELSE "catch")
        /\ UNCHANGED <<visit, jobs, told, faults, guestVars>>

Link(p) ==
    /\ process[p].at = "link"
    /\ IsCurrent(p)
    /\ jobs' = [jobs EXCEPT ![process[p].job].linked = TRUE]
    /\ Rests(p)
    /\ UNCHANGED <<visit, told, runs, faults, guestVars>>

\* runAgentTask claims a run that it starts.
Invoke(p) ==
    LET j == process[p].job
        starts == Authorized(j) /\ runs[j].status = "ended"
    IN  /\ process[p].at = "invoke"
        /\ runs' = IF starts THEN [runs EXCEPT ![j] = [status |-> "running", by |-> p]]
                   ELSE runs
        /\ Goes(p, IF starts THEN "agent" ELSE IF Authorized(j) THEN "replay" ELSE "catch")
        /\ UNCHANGED <<visit, jobs, told, faults, guestVars>>

\* executeQueuedAgentRun for a run started before: claimed if it is queued and may be
\* (neither backing off nor out of attempts).  What it returns of one that is not is
\* no failure; that another execution has it, or that it failed, is one.
ExecuteQueuedRun(p) ==
    LET j == process[p].job
    IN  /\ process[p].at = "replay"
        /\ \/ /\ runs[j].status = "queued"
              /\ runs' = IF Authorized(j) THEN [runs EXCEPT ![j] = [status |-> "running", by |-> p]]
                         ELSE [runs EXCEPT ![j] = Ended]
              /\ Goes(p, IF Authorized(j) THEN "agent" ELSE "catch")
           \/ /\ runs[j].status \in {"queued", "ended"}
              /\ Goes(p, "check")
              /\ UNCHANGED runs
           \/ /\ runs[j].status \in {"running", "ended"}
              /\ Goes(p, "catch")
              /\ UNCHANGED runs
        /\ UNCHANGED <<visit, jobs, told, faults, guestVars>>

Check(p) ==
    /\ process[p].at = "check"
    /\ IsCurrent(p)
    /\ Goes(p, IF DeliveryIsComplete(process[p].job) THEN "complete" ELSE "fallback")
    /\ UNCHANGED <<visit, jobs, told, runs, faults, guestVars>>

\* deliverRequiredNotifications
Fallback(p) ==
    /\ process[p].at = "fallback"
    /\ IsCurrent(p)
    /\ told' = [told EXCEPT ![process[p].job] = @ \cup Needed(process[p].job)]
    /\ Goes(p, "complete")
    /\ UNCHANGED <<visit, jobs, runs, faults, guestVars>>

RecordFailure(p) ==
    /\ jobs' = IF IsCurrent(p) THEN [jobs EXCEPT ![process[p].job] = Failed(@)] ELSE jobs
    /\ Rests(p)
    /\ UNCHANGED <<visit, told, runs, guestVars>>

Catch(p) == process[p].at = "catch" /\ RecordFailure(p) /\ UNCHANGED faults

Working == {"prepare", "schedule", "decide", "complete", "enqueue", "link",
            "invoke", "replay", "check", "fallback"}

\* A statement or a call to the external scheduler throws.
Throw(p) == process[p].at \in Working /\ RecordFailure(p) /\ Fault("error")

\* Wherever the claim is checked, losing it ends the work.
Skip(p) ==
    /\ process[p].at \in {"prepare", "decide", "complete", "link", "check", "fallback"}
    /\ Abandon(p)

-----------------------------------------------------------------------------
(***************************************************************************)
(* Executing a tick's run                                                  *)
(***************************************************************************)

Holds(p) == runs[process[p].job] = [status |-> "running", by |-> p]

\* A run whose job was cancelled meanwhile fails for want of authority.
TakeRun(p, j) ==
    /\ process[p].at = "idle"
    /\ runs[j].status = "queued"
    /\ IF Authorized(j)
       THEN /\ runs' = [runs EXCEPT ![j] = [status |-> "running", by |-> p]]
            /\ process' = [process EXCEPT ![p] = [Resting EXCEPT !.at = "agent", !.job = j]]
       ELSE /\ runs' = [runs EXCEPT ![j] = Ended]
            /\ UNCHANGED process
    /\ UNCHANGED <<visit, jobs, told, faults, guestVars>>

Notify(p, recipient) ==
    LET j == process[p].job
    IN  /\ process[p].at = "agent"
        /\ recipient \in Needed(j) \ told[j]
        /\ Authorized(j)
        /\ told' = [told EXCEPT ![j] = @ \cup {recipient}]
        /\ UNCHANGED <<visit, jobs, runs, process, faults, guestVars>>

\* The agent ends its turn; it may have left somebody out.
EndTurn(p) ==
    /\ process[p].at = "agent"
    /\ IF DeliveryIsComplete(process[p].job) THEN UNCHANGED faults ELSE Fault("omission")
    /\ Goes(p, "report")
    /\ UNCHANGED <<visit, jobs, told, runs, guestVars>>

\* A notification is refused once the job or the visit is cancelled.
AgentFails(p) ==
    /\ process[p].at = "agent"
    /\ IF Authorized(process[p].job) THEN Fault("error") ELSE UNCHANGED faults
    /\ runs' = IF Holds(p) THEN [runs EXCEPT ![process[p].job] = Ended]
               ELSE runs
    /\ Goes(p, "failing")
    /\ UNCHANGED <<visit, jobs, told, guestVars>>

\* The job a run was dispatched for, if it is still linked to the run.
Dispatched(j) == jobs[j].linked /\ jobs[j].status = "running"

\* Mutant: the report is believed without looking at the notifications.
ReportAnyway(p) ==
    LET j == process[p].job
    IN  /\ process[p].at = "report"
        /\ jobs' = IF Dispatched(j) THEN [jobs EXCEPT ![j] = Completed(@)] ELSE jobs
        /\ Goes(p, "finish")
        /\ UNCHANGED <<visit, told, runs, faults, guestVars>>

\* completeDispatchedJob throws when somebody was left out.
Report(p) ==
    LET j == process[p].job
        short == Dispatched(j) /\ ~DeliveryIsComplete(j)
    IN  /\ process[p].at = "report"
        /\ jobs' = IF Dispatched(j) /\ ~short THEN [jobs EXCEPT ![j] = Completed(@)] ELSE jobs
        /\ runs' = IF short /\ Holds(p)
                   THEN [runs EXCEPT ![j] = Ended] ELSE runs
        /\ Goes(p, IF short THEN "failing" ELSE "finish")
        /\ UNCHANGED <<visit, told, faults, guestVars>>

\* Where an execution returns to: the runtime goes on with its job.
Returns(p, location) == IF p \in Runtime THEN Goes(p, location) ELSE Rests(p)

Finish(p) ==
    /\ process[p].at = "finish"
    /\ IF Holds(p)
       THEN /\ runs' = [runs EXCEPT ![process[p].job] = Ended]
            /\ Returns(p, "check")
       ELSE Goes(p, "failing") /\ UNCHANGED runs
    /\ UNCHANGED <<visit, jobs, told, faults, guestVars>>

\* failDispatchedJob names the run, not the claim of the run.
FailDispatched(p) ==
    LET j == process[p].job
    IN  /\ process[p].at = "failing"
        /\ jobs' = IF Dispatched(j) THEN [jobs EXCEPT ![j] = Failed(@)] ELSE jobs
        /\ Returns(p, "catch")
        /\ UNCHANGED <<visit, told, runs, faults, guestVars>>

\* The lease of a run lapses: its process is gone, or merely slow.
LoseRun(j) ==
    LET p == runs[j].by
        alive == /\ p # Nobody /\ process[p].job = j
                 /\ process[p].at \in {"agent", "report", "finish", "failing"}
    IN  /\ runs[j].status = "running"
        /\ IF alive THEN Fault("slow") ELSE UNCHANGED faults
        /\ \E status \in {"queued", "ended"} :
              runs' = [runs EXCEPT ![j] = [status |-> status, by |-> Nobody]]
        /\ UNCHANGED <<visit, jobs, told, process, guestVars>>

-----------------------------------------------------------------------------
(***************************************************************************)
(* Guests, hosts, time and faults                                          *)
(***************************************************************************)

\* applyGuestReconfirmation's transaction; any other status is left as it is.
Answer ==
    /\ visit = "reconfirm_pending"
    /\ ~answering
    /\ visit' = "reconfirmed"
    /\ answering' = TRUE
    /\ UNCHANGED <<stay, waited, overtaken, jobs, told, runs, process, syncing, faults>>

\* ... and its scheduleJobs afterwards, for whatever escalation is open by then.
CancelEscalation ==
    /\ answering
    /\ jobs' = Cancel(jobs, Open(jobs, "escalate"))
    /\ answering' = FALSE
    /\ UNCHANGED <<visit, stay, waited, overtaken, told, runs, process, syncing, faults>>

\* The booking comes between a transition and the jobs that follow from it.
FollowingUp ==
    answering \/ \E p \in Process : process[p].at = "schedule" /\ process[p].follow # 0

Rebooks ==
    /\ stay' = stay + 1
    /\ overtaken' = IF FollowingUp THEN overtaken \cup {stay + 1} ELSE overtaken

\* Mutant: only the old chase is cancelled.
RescheduleChaseOnly ==
    /\ visit # "cancelled"
    /\ stay < MaxStays
    /\ Unused(jobs) # {}
    /\ visit' = "confirmed"
    /\ Rebooks
    /\ jobs' = Insert(Cancel(jobs, Open(jobs, "chase")), "chase", stay + 1)
    /\ syncing' = TRUE
    /\ UNCHANGED <<waited, told, runs, process, answering, faults>>

\* rescheduleVisit cancels whatever is open or quarantined, and plans a new chase.
Reschedule ==
    LET open == {j \in Job : jobs[j].status \in {"scheduled", "running", "quarantined"}}
    IN  /\ visit # "cancelled"
        /\ stay < MaxStays
        /\ Unused(jobs) # {}
        /\ visit' = "confirmed"
        /\ Rebooks
        /\ jobs' = Insert(Cancel(jobs, open), "chase", stay + 1)
        /\ syncing' = TRUE
        /\ UNCHANGED <<waited, told, runs, process, answering, faults>>

\* syncChaseJob asks for the chase again, in case it is gone.
SyncChaseJob ==
    /\ syncing
    /\ HasRow(jobs, "chase")
    /\ jobs' = IF visit = "cancelled" THEN jobs ELSE ScheduleUnlessOpen(jobs, "chase", stay)
    /\ syncing' = FALSE
    /\ UNCHANGED <<visit, stay, waited, overtaken, told, runs, process, answering, faults>>

\* withdrawInvitation also ends the runs of the visit's jobs.
Withdraw ==
    LET open == {j \in Job : jobs[j].status \in {"scheduled", "running", "quarantined"}}
    IN  /\ visit # "cancelled"
        /\ visit' = "cancelled"
        /\ jobs' = Cancel(jobs, open)
        /\ runs' = [j \in Job |-> IF runs[j].status \in {"queued", "running"}
                                  THEN Ended ELSE runs[j]]
        /\ UNCHANGED <<stay, waited, overtaken, told, process, answering, syncing, faults>>

\* The operator's replayQuarantinedJob, subject to the index of open jobs.
Replay(j) ==
    /\ jobs[j].status = "quarantined"
    /\ Open(jobs, jobs[j].kind) = {}
    /\ jobs' = [jobs EXCEPT ![j] = Close(@, "scheduled")]
    /\ UNCHANGED <<visit, stay, waited, overtaken, told, runs, process, answering, syncing, faults>>

\* Twenty-four hours pass since the guest was asked about a stay.
DayPasses(s) ==
    /\ visit # "cancelled"
    /\ s = stay => visit # "confirmed"
    /\ waited' = waited \cup {s}
    /\ UNCHANGED <<visit, stay, overtaken, jobs, told, runs, process, answering, syncing,
                   faults>>

\* Ten minutes pass since the claim: nobody works on the job, or somebody slow.
LeasePasses(j) ==
    /\ jobs[j].status = "running"
    /\ ~jobs[j].expired
    /\ IF \E p \in Process : process[p].job = j THEN Fault("slow") ELSE UNCHANGED faults
    /\ jobs' = [jobs EXCEPT ![j].expired = TRUE]
    /\ UNCHANGED <<visit, told, runs, process, guestVars>>

Crash(p) ==
    /\ process[p].at # "idle"
    /\ Fault("crash")
    /\ Rests(p)
    /\ UNCHANGED <<visit, jobs, told, runs, guestVars>>

-----------------------------------------------------------------------------
DispatchStep(p) ==
    \/ Prepare(p) \/ Schedule(p) \/ Decide(p) \/ Complete(p) \/ Enqueue(p) \/ Link(p)
    \/ Invoke(p) \/ ExecuteQueuedRun(p) \/ Check(p) \/ Fallback(p) \/ Catch(p) \/ Skip(p)

ExecutionStep(p) ==
    \/ \E recipient \in Hosts \cup {Guest} : Notify(p, recipient)
    \/ EndTurn(p) \/ AgentFails(p) \/ Report(p) \/ Finish(p) \/ FailDispatched(p)

Next ==
    \/ \E p \in Cron \cup Runtime, j \in Job : Claim(p, j)
    \/ \E p \in Drain, j \in Job : TakeRun(p, j)
    \/ \E p \in Process : DispatchStep(p) \/ ExecutionStep(p) \/ Throw(p) \/ Crash(p)
    \/ \E j \in Job : LoseRun(j) \/ LeasePasses(j) \/ Replay(j)
    \/ Answer \/ CancelEscalation \/ Reschedule \/ SyncChaseJob \/ Withdraw
    \/ \E s \in 1..stay : DayPasses(s)

Spec == Init /\ [][Next]_vars

\* A process goes on with what it does, the cron and the drain run every minute,
\* and time passes.
Fairness ==
    /\ \A p \in Process : WF_vars(DispatchStep(p)) /\ WF_vars(ExecutionStep(p))
    /\ \A j \in Job : /\ WF_vars(\E p \in Cron : Claim(p, j))
                      /\ WF_vars(\E p \in Drain : TakeRun(p, j))
                      /\ WF_vars(LeasePasses(j)) /\ WF_vars(LoseRun(j))
    /\ \A s \in 1..MaxStays : WF_vars(s <= stay /\ DayPasses(s))
    /\ WF_vars(CancelEscalation) /\ WF_vars(SyncChaseJob)

FairSpec == Spec /\ Fairness

-----------------------------------------------------------------------------
(***************************************************************************)
(* Properties                                                              *)
(***************************************************************************)

Kept(j) == jobs[j].status \in {"scheduled", "running", "quarantined"} \/ DeliveryIsComplete(j)

\* A visit that waits for its guest has a chase for this very stay that reached the
\* guest, will be tried again, or is in quarantine for an operator; an escalated one
\* likewise has an escalation for every host, unless the stay was booked while what
\* follows from an earlier request or answer was still to be scheduled.  Nothing a crash,
\* a lost lease or a late worker does can drop them (jobs.ts:200-294, 498-602).
NobodyForgotten ==
    /\ visit = "reconfirm_pending"
       => \E j \in Job : jobs[j].kind = "chase" /\ jobs[j].stay = stay /\ Kept(j)
    /\ visit = "escalated" /\ stay \notin overtaken
       => \E j \in Job : jobs[j].kind = "escalate" /\ jobs[j].stay = stay /\ Kept(j)

Lifecycle == INSTANCE VisitLifecycle
    WITH waited <- stay \in waited, rushed <- stay \in overtaken

\* The jobs, leases and retries take the visit only through the steps of its
\* life cycle: the guest is asked once per stay, and escalation waits its day unless
\* the stay was booked in the middle of an earlier one's follow-up.
ImplementsLifecycle == Lifecycle!Spec

\* An unanswered request does not stay unanswered: it is escalated if nobody
\* answers, reschedules or withdraws (state-machine.ts:48-110).
RequestsAreResolved == visit = "reconfirm_pending" ~> visit # "reconfirm_pending"

\* An escalation reaches both hosts unless its job ends in quarantine.
EscalationsAreHeard ==
    visit = "escalated"
    ~> \/ visit # "escalated"
       \/ \E j \in Job : /\ jobs[j].kind = "escalate"
                         /\ DeliveryIsComplete(j) \/ jobs[j].status = "quarantined"

\* docs/archive/hackathon/evidence.md:151, "escalates an unanswered request after
\* 24 hours", as of the request the guest has not answered.
EscalatesAfterADay == [][visit' = "escalated" /\ visit # "escalated" => stay \in waited]_vars

\* CHANGELOG.md:345: when the agent leaves a recipient out, the job engine writes
\* the notification itself; so with agents that only omit, nothing is quarantined.
DeliveryIsGuaranteed ==
    \A j \in Job : jobs[j].status = "quarantined" => DeliveryIsComplete(j)
=============================================================================
