------------------------------ MODULE RunQueue ------------------------------
(***************************************************************************)
(* The durable agent-run queue of one home: the `runs` table and the       *)
(* processes that write it (src/src/agent/run-task.ts, queue.ts,           *)
(* core/reconfirmation/jobs.ts and core/booking/cancellation.ts).          *)
(*                                                                         *)
(* A Run is one (home, intent key): the unique index makes a second        *)
(* request with the same intent find the first one's row.  A Worker is one *)
(* server execution (a server action, the cron route or an AgentCore       *)
(* invocation): it asks for a run, executes at most one claim at a time,   *)
(* and may die between any two transactions.  A claim token is a fresh     *)
(* UUID held by the execution that took it, so it is named by its Worker.  *)
(*                                                                         *)
(* Every action is one transaction or one single-statement update; model   *)
(* execution happens between them and touches nothing here.                *)
(***************************************************************************)
EXTENDS Naturals, FiniteSets

CONSTANTS
    Run,            \* the intents requests are made of
    Worker,         \* executions alive at the same time
    Session,        \* agent sessions; a session runs one task at a time
    Invitation,     \* invitations that can be withdrawn
    Actor,          \* request owners the admission limits count by
    SessionOf,      \* [Run -> Session]
    InvitationOf,   \* [Run -> Invitation \cup {NoInvitation}]
    ActorOf,        \* [Run -> Actor]
    Tick,           \* the runs that are scheduled ticks
    NoInvitation, NoWorker, NoRun,
    MaxAttempts,    \* executions of one accepted request (3)
    MaxRequests,    \* times a host or guest may ask for one intent (3)
    MaxActorActive, \* running runs an actor may have and still ask (2)
    MaxHomeActive   \* running interactive runs a home may have and still ask (4)

ASSUME RunQueueAssumption ==
    /\ SessionOf \in [Run -> Session]
    /\ InvitationOf \in [Run -> Invitation \cup {NoInvitation}]
    /\ ActorOf \in [Run -> Actor]
    /\ Tick \subseteq Run
    /\ NoInvitation \notin Invitation
    /\ NoWorker \notin Worker
    /\ NoRun \notin Run
    /\ MaxAttempts \in Nat \ {0}
    /\ MaxRequests \in Nat \ {0}
    /\ MaxActorActive \in Nat
    /\ MaxHomeActive \in Nat

VARIABLES
    status,     \* runs.status, "absent" before the row exists
    attempts,   \* runs.execution_attempt_count
    requests,   \* runs.request_attempt_count
    token,      \* runs.queue_claim_token
    lease,      \* how old the claim is: deadline_at and queue_claimed_at against now()
    withdrawn,  \* invitations whose status is 'cancelled'
    pc,         \* where each execution stands
    task,       \* the run it is working for
    immediate   \* whether its request asked for an immediate claim

runVars == <<status, attempts, requests, token, lease>>
workerVars == <<pc, task, immediate>>
vars == <<status, attempts, requests, token, lease, withdrawn, pc, task, immediate>>

Terminal == {"completed", "interrupted", "failed"}
Status == {"absent", "queued", "running"} \cup Terminal

\* "live" until deadline_at (claim + 4 minutes), "expired" after it, "stale" once
\* queue_claimed_at is 6 minutes old.
Lease == {"none", "live", "expired", "stale"}

TypeOK ==
    /\ status \in [Run -> Status]
    /\ attempts \in [Run -> 0..MaxAttempts]
    /\ requests \in [Run -> 0..MaxRequests]
    /\ token \in [Run -> Worker \cup {NoWorker}]
    /\ lease \in [Run -> Lease]
    /\ withdrawn \in SUBSET Invitation
    /\ pc \in [Worker -> {"idle", "asking", "claimed", "working"}]
    /\ task \in [Worker -> Run \cup {NoRun}]
    /\ immediate \in [Worker -> BOOLEAN]

Init ==
    /\ status = [r \in Run |-> "absent"]
    /\ attempts = [r \in Run |-> 0]
    /\ requests = [r \in Run |-> 0]
    /\ token = [r \in Run |-> NoWorker]
    /\ lease = [r \in Run |-> "none"]
    /\ withdrawn = {}
    /\ pc = [w \in Worker |-> "idle"]
    /\ task = [w \in Worker |-> NoRun]
    /\ immediate = [w \in Worker |-> FALSE]

-----------------------------------------------------------------------------
(***************************************************************************)
(* Helpers                                                                 *)
(***************************************************************************)

Busy(s) == \E q \in Run : SessionOf[q] = s /\ status[q] = "running"

\* The execution still owns the claim its fenced updates name.
Holds(w, r) == status[r] = "running" /\ token[r] = w

Becomes(w, state, r, now) ==
    /\ pc' = [pc EXCEPT ![w] = state]
    /\ task' = [task EXCEPT ![w] = r]
    /\ immediate' = [immediate EXCEPT ![w] = now]

Idles(w) == Becomes(w, "idle", NoRun, FALSE)

\* Mutant: the update is fenced by the status alone.
SettleRunning(w, r, outcome) ==
    IF status[r] = "running"
    THEN /\ status' = [status EXCEPT ![r] = outcome]
         /\ token' = [token EXCEPT ![r] = NoWorker]
         /\ lease' = [lease EXCEPT ![r] = "none"]
         /\ UNCHANGED <<attempts, requests>>
    ELSE UNCHANGED runVars

\* `update runs set status = ..., queue_claim_token = null ... where status =
\* 'running' and queue_claim_token = <mine>`: nothing happens to a run that is
\* no longer ours.
FencedSettle(w, r, outcome) ==
    IF Holds(w, r)
    THEN /\ status' = [status EXCEPT ![r] = outcome]
         /\ token' = [token EXCEPT ![r] = NoWorker]
         /\ lease' = [lease EXCEPT ![r] = "none"]
         /\ UNCHANGED <<attempts, requests>>
    ELSE UNCHANGED runVars

-----------------------------------------------------------------------------
(***************************************************************************)
(* Lease recovery                                                          *)
(***************************************************************************)

PastDeadline == {r \in Run : status[r] = "running" /\ lease[r] \in {"expired", "stale"}}
\* Mutant: recovery forgets how often the run was executed.
RecoverableForever == {r \in PastDeadline : token[r] # NoWorker}

Recoverable == {r \in PastDeadline : token[r] # NoWorker /\ attempts[r] < MaxAttempts}

\* Mutant: runs out of attempts are left running.
ReconcileRecoverableOnly ==
    /\ status' = [r \in Run |-> IF r \in Recoverable THEN "queued" ELSE status[r]]
    /\ token' = [r \in Run |-> IF r \in Recoverable THEN NoWorker ELSE token[r]]
    /\ lease' = [r \in Run |-> IF r \in Recoverable THEN "none" ELSE lease[r]]
    /\ UNCHANGED <<attempts, requests>>

\* Not under the home lock: it only ever takes a run away from its session.
ReconcileStaleRuns ==
    /\ status' = [r \in Run |-> IF r \in Recoverable THEN "queued"
                                ELSE IF r \in PastDeadline THEN "failed"
                                ELSE status[r]]
    /\ token' = [r \in Run |-> IF r \in PastDeadline THEN NoWorker ELSE token[r]]
    /\ lease' = [r \in Run |-> IF r \in PastDeadline THEN "none" ELSE lease[r]]
    /\ UNCHANGED <<attempts, requests>>

\* The cron route reconciles every home before it claims anything.
Reconcile ==
    /\ PastDeadline # {}
    /\ ReconcileStaleRuns
    /\ UNCHANGED <<withdrawn, workerVars>>

\* Wall time passes the claim's deadline, then its six minutes.
LeaseAges(r) ==
    /\ status[r] = "running"
    /\ \/ lease[r] = "live" /\ lease' = [lease EXCEPT ![r] = "expired"]
       \/ lease[r] = "expired" /\ lease' = [lease EXCEPT ![r] = "stale"]
    /\ UNCHANGED <<status, attempts, requests, token, withdrawn, workerVars>>

-----------------------------------------------------------------------------
(***************************************************************************)
(* Asking for a run                                                        *)
(***************************************************************************)

\* authorityForTask reads the invitation, then reconcileStaleRuns commits, then
\* startRun opens its own transaction: a withdrawal can fall in between.
Ask(w, r, now) ==
    /\ pc[w] = "idle"
    /\ InvitationOf[r] \notin withdrawn
    /\ ReconcileStaleRuns
    /\ Becomes(w, "asking", r, now)
    /\ UNCHANGED withdrawn

ActorActive(a) == Cardinality({q \in Run : ActorOf[q] = a /\ status[q] = "running"})
HomeActive == Cardinality({q \in Run \ Tick : status[q] = "running"})

WithinLimits(r) ==
    r \notin Tick => ActorActive(ActorOf[r]) < MaxActorActive /\ HomeActive < MaxHomeActive

\* Mutant: an immediate claim does not look at the session.
AcceptRegardless(w, r) ==
    LET claims == immediate[w]
    IN  /\ status' = [status EXCEPT ![r] = IF claims THEN "running" ELSE "queued"]
        /\ attempts' = [attempts EXCEPT ![r] = IF claims THEN 1 ELSE 0]
        /\ token' = [token EXCEPT ![r] = IF claims THEN w ELSE NoWorker]
        /\ lease' = [lease EXCEPT ![r] = IF claims THEN "live" ELSE "none"]
        /\ IF claims THEN Becomes(w, "claimed", r, FALSE) ELSE Idles(w)

\* The row becomes claimed by its own request, or queued when the request did not
\* ask for that or another run owns the session.
Accept(w, r) ==
    LET claims == immediate[w] /\ ~Busy(SessionOf[r])
    IN  /\ status' = [status EXCEPT ![r] = IF claims THEN "running" ELSE "queued"]
        /\ attempts' = [attempts EXCEPT ![r] = IF claims THEN 1 ELSE 0]
        /\ token' = [token EXCEPT ![r] = IF claims THEN w ELSE NoWorker]
        /\ lease' = [lease EXCEPT ![r] = IF claims THEN "live" ELSE "none"]
        /\ IF claims THEN Becomes(w, "claimed", r, FALSE) ELSE Idles(w)

InsertRun(w) ==
    LET r == task[w]
    IN  /\ pc[w] = "asking"
        /\ status[r] = "absent"
        /\ WithinLimits(r)
        /\ requests' = [requests EXCEPT ![r] = 1]
        /\ Accept(w, r)
        /\ UNCHANGED withdrawn

Restartable(r) == status[r] = "failed" \/ (r \in Tick /\ status[r] \in Terminal)

RestartRun(w) ==
    LET r == task[w]
    IN  /\ pc[w] = "asking"
        /\ Restartable(r)
        /\ r \notin Tick => requests[r] < MaxRequests
        /\ WithinLimits(r)
        /\ requests' = [requests EXCEPT ![r] = IF r \in Tick THEN @ ELSE @ + 1]
        /\ Accept(w, r)
        /\ UNCHANGED withdrawn

\* A replay of a run in flight or already answered, a retry past its limit, or a
\* request over the rolling rate limits (whose windows are not modelled: any
\* request may meet them): the row is left alone.
Decline(w) ==
    /\ pc[w] = "asking"
    /\ Idles(w)
    /\ UNCHANGED <<runVars, withdrawn>>

-----------------------------------------------------------------------------
(***************************************************************************)
(* Executing a run                                                         *)
(***************************************************************************)

\* Mutant: the claim does not look at the session's other runs.
ClaimableAcrossSession(r) ==
    /\ attempts[r] < MaxAttempts
    /\ status[r] = "queued" \/ (status[r] = "running" /\ lease[r] = "stale")

Claimable(r) ==
    /\ \A q \in Run \ {r} : SessionOf[q] = SessionOf[r] => status[q] # "running"
    /\ attempts[r] < MaxAttempts
    /\ status[r] = "queued" \/ (status[r] = "running" /\ lease[r] = "stale")

\* By the cron drain, by the request's own after() callback or by an AgentCore
\* dispatch, whichever comes first; a dispatch that is lost is one never taken.
ClaimQueuedRun(w, r) ==
    /\ pc[w] = "idle"
    /\ Claimable(r)
    /\ status' = [status EXCEPT ![r] = "running"]
    /\ attempts' = [attempts EXCEPT ![r] = @ + 1]
    /\ token' = [token EXCEPT ![r] = w]
    /\ lease' = [lease EXCEPT ![r] = "live"]
    /\ Becomes(w, "claimed", r, FALSE)
    /\ UNCHANGED <<requests, withdrawn>>

\* Mutant: the authority resolved when the run was asked for is trusted.
TrustRequestAuthority(w) ==
    /\ pc[w] = "claimed"
    /\ Becomes(w, "working", task[w], FALSE)
    /\ UNCHANGED <<runVars, withdrawn>>

\* Authority is resolved afresh after the claim, never taken from the request.
ResolveAuthority(w) ==
    /\ pc[w] = "claimed"
    /\ InvitationOf[task[w]] \notin withdrawn
    /\ Becomes(w, "working", task[w], FALSE)
    /\ UNCHANGED <<runVars, withdrawn>>

\* The authority is gone, the payload no longer parses, a tool or the model threw,
\* or the 240 s budget ran out.
FailRun(w) ==
    /\ pc[w] \in {"claimed", "working"}
    /\ FencedSettle(w, task[w], "failed")
    /\ Idles(w)
    /\ UNCHANGED withdrawn

\* Completed, or interrupted for a host decision.  An execution whose claim is
\* gone throws instead, and its catch block's update is fenced too.
ConcludeRun(w, outcome) ==
    /\ pc[w] = "working"
    /\ FencedSettle(w, task[w], outcome)
    /\ Idles(w)
    /\ UNCHANGED withdrawn

\* The process dies: its row keeps the claim until someone recovers the lease.
Crash(w) ==
    /\ pc[w] # "idle"
    /\ Idles(w)
    /\ UNCHANGED <<runVars, withdrawn>>

\* drainAgentQueue retires a queued or abandoned row whose payload no longer parses.
RejectUnreadable(r) ==
    /\ status[r] = "queued" \/ (status[r] = "running" /\ lease[r] = "stale")
    /\ status' = [status EXCEPT ![r] = "failed"]
    /\ token' = [token EXCEPT ![r] = NoWorker]
    /\ lease' = [lease EXCEPT ![r] = "none"]
    /\ UNCHANGED <<attempts, requests, withdrawn, workerVars>>

-----------------------------------------------------------------------------
(***************************************************************************)
(* Withdrawing an invitation                                               *)
(***************************************************************************)

Outstanding(i) == {r \in Run : InvitationOf[r] = i
                               /\ status[r] \in {"queued", "running", "interrupted"}}

WithdrawInvitation(i) ==
    /\ i \notin withdrawn
    /\ withdrawn' = withdrawn \cup {i}
    /\ status' = [r \in Run |-> IF r \in Outstanding(i) THEN "failed" ELSE status[r]]
    /\ token' = [r \in Run |-> IF r \in Outstanding(i) THEN NoWorker ELSE token[r]]
    /\ lease' = [r \in Run |-> IF r \in Outstanding(i) THEN "none" ELSE lease[r]]
    /\ UNCHANGED <<attempts, requests, workerVars>>

-----------------------------------------------------------------------------
WorkerStep(w) ==
    \/ InsertRun(w) \/ RestartRun(w) \/ Decline(w)
    \/ ResolveAuthority(w) \/ FailRun(w) \/ Crash(w)
    \/ \E outcome \in {"completed", "interrupted"} : ConcludeRun(w, outcome)

Next ==
    \/ Reconcile
    \/ \E r \in Run : LeaseAges(r) \/ RejectUnreadable(r)
    \/ \E i \in Invitation : WithdrawInvitation(i)
    \/ \E w \in Worker :
          \/ WorkerStep(w)
          \/ \E r \in Run : ClaimQueuedRun(w, r)
          \/ \E r \in Run, now \in BOOLEAN : Ask(w, r, now)

Spec == Init /\ [][Next]_vars

(***************************************************************************)
(* Fairness.  A claim is bounded: the model budget aborts it or the        *)
(* process dies.  The clock runs.  The cron route reconciles each minute   *)
(* and drains the oldest claimable rows first, each drain in an execution  *)
(* of its own: a run that keeps becoming claimable is eventually claimed.  *)
(***************************************************************************)
Fairness ==
    /\ WF_vars(Reconcile)
    /\ \A w \in Worker : WF_vars(WorkerStep(w))
    /\ \A r \in Run : WF_vars(LeaseAges(r))
    /\ \A r \in Run : SF_vars(\E w \in Worker : ClaimQueuedRun(w, r))

FairSpec == Spec /\ Fairness

-----------------------------------------------------------------------------
(***************************************************************************)
(* Properties                                                              *)
(***************************************************************************)

\* A session executes one run at a time: the immediate claim of startRun, the
\* claim of claimQueuedRun (run-task.ts:591-638) and the unlocked recovery of
\* reconcileStaleRuns never leave two rows of a session running.
OneRunningPerSession ==
    \A p, q \in Run :
        status[p] = "running" /\ status[q] = "running" /\ SessionOf[p] = SessionOf[q]
        => p = q

\* No row is stranded: a queued run has an execution left, so the drain's
\* `execution_attempt_count < 3` never hides it for good, and a running run has a
\* deadline and a claim someone can recover (jobs.ts:707-764).
NothingStranded ==
    \A r \in Run :
        /\ status[r] = "queued" => attempts[r] < MaxAttempts
        /\ status[r] = "running" <=> lease[r] # "none"
        /\ status[r] = "running" <=> token[r] # NoWorker

\* The answer of a completed host or guest task is final: no replay, retry,
\* recovered lease, late worker or withdrawal changes it (run-task.ts:709-760,
\* cancellation.ts:83).
CompletedIsFinal ==
    [][\A r \in Run \ Tick : status[r] = "completed" => status'[r] = "completed"]_vars

\* Once an invitation is withdrawn no run of it completes or raises a new host
\* decision: a request authorised before the withdrawal may still insert a row
\* after it, but whoever claims that row resolves authority again.
WithdrawnNeverConcludes ==
    [][\A r \in Run :
         InvitationOf[r] \in withdrawn /\ status'[r] \in {"completed", "interrupted"}
         => status'[r] = status[r]]_vars

\* Only the execution that holds the claim can record an answer: one that lost its
\* lease, and whose run was recovered and perhaps claimed again, records nothing
\* (finish, run-task.ts:916-944, and the interrupt branch, 416-456).
OnlyTheClaimantAnswers ==
    [][\A r \in Run :
         status[r] # status'[r] /\ status'[r] \in {"completed", "interrupted"}
         => \E w \in Worker : /\ pc[w] = "working" /\ task[w] = r /\ Holds(w, r)
                              /\ pc'[w] = "idle"]_vars

\* Every queued run is eventually answered or failed, with workers that crash,
\* leases that expire and sessions that are busy.
EveryRunSettles ==
    \A r \in Run : status[r] \in {"queued", "running"} ~> status[r] \in Terminal

-----------------------------------------------------------------------------
(***************************************************************************)
(* What the queue implements                                               *)
(***************************************************************************)

SessionOwner ==
    [s \in Session |-> IF Busy(s)
                       THEN CHOOSE r \in Run : SessionOf[r] = s /\ status[r] = "running"
                       ELSE NoRun]

Ownership == INSTANCE SessionOwnership
                WITH owner <- SessionOwner,
                     answered <- {r \in Run \ Tick : status[r] = "completed"},
                     Repeatable <- Tick,
                     Nobody <- NoRun

\* Claims, recoveries, late workers and withdrawals together never hand a session
\* over directly, share it, or execute a finally answered intent again.
ImplementsOwnership == Ownership!Spec
=============================================================================
