--------------------------- MODULE DecisionResume ---------------------------
(***************************************************************************)
(* The host decisions a run waits for, on top of the run queue: an         *)
(* interrupted run leaves pending_decisions rows, a host answers them, and *)
(* a `resume` run of the same session consumes the answer and records it   *)
(* with a decision_applied audit event (agent/run-task.ts,                 *)
(* core/decisions/host-decision.ts and the host home page).                *)
(*                                                                         *)
(* applied_run_id is the decision's own claim.  It outlives the claim on   *)
(* the run: the statement that takes it and the one that gives it back are *)
(* separate from the fenced update of the run, and name the run, not the   *)
(* execution.                                                              *)
(***************************************************************************)
EXTENDS RunQueue

CONSTANTS
    Decision,   \* (agent session, interrupt id) pairs
    SessionAsking, \* [Decision -> Session], the session a decision interrupts
    Resume,     \* the runs that carry a host's answer
    AnswerOf,   \* [Resume -> Decision]
    Verdict     \* [Resume -> Answer]

Answer == {"approved", "declined"}

ASSUME DecisionAssumption ==
    /\ SessionAsking \in [Decision -> Session]
    /\ Resume \subseteq Run \ Tick
    /\ AnswerOf \in [Resume -> Decision]
    /\ Verdict \in [Resume -> Answer]
    /\ \A r \in Resume : SessionOf[r] = SessionAsking[AnswerOf[r]]
    \* A session is named after its invitation, host or job.
    /\ \A p, q \in Run : SessionOf[p] = SessionOf[q] => InvitationOf[p] = InvitationOf[q]

VARIABLES
    decision,   \* pending_decisions.status, "absent" before the row exists
    appliedBy,  \* pending_decisions.applied_run_id
    recorded,   \* how many decision_applied events name the decision
    stage,      \* how far a resume execution got
    releasing   \* the failed resume whose catch block has a statement left to run

decisionVars == <<decision, appliedBy, recorded>>
resumeVars == <<decision, appliedBy, recorded, stage, releasing>>
allVars == <<vars, resumeVars>>

DecisionStatus == {"absent", "pending", "cancelled"} \cup Answer

ResumeTypeOK ==
    /\ TypeOK
    /\ decision \in [Decision -> DecisionStatus]
    /\ appliedBy \in [Decision -> Resume \cup {NoRun}]
    /\ recorded \in [Decision -> 0..1]
    /\ stage \in [Worker -> {"none", "matched", "held", "applied"}]
    /\ releasing \in [Worker -> Resume \cup {NoRun}]

ResumeInit ==
    /\ Init
    /\ decision = [d \in Decision |-> "absent"]
    /\ appliedBy = [d \in Decision |-> NoRun]
    /\ recorded = [d \in Decision |-> 0]
    /\ stage = [w \in Worker |-> "none"]
    /\ releasing = [w \in Worker |-> NoRun]

-----------------------------------------------------------------------------
Answered(d) == decision[d] \in Answer

Free(w) == pc[w] = "idle" /\ releasing[w] = NoRun

Resuming(w) == pc[w] = "working" /\ task[w] \in Resume

\* Where an execution that is about to leave its run stands next.
Leaves(w) == stage' = [stage EXCEPT ![w] = "none"]

\* Answers claimed by the given runs and not yet recorded can be retried again.
GiveBack(R) ==
    appliedBy' = [d \in Decision |-> IF appliedBy[d] \in R /\ recorded[d] = 0
                                     THEN NoRun ELSE appliedBy[d]]

-----------------------------------------------------------------------------
(***************************************************************************)
(* Hosts                                                                   *)
(***************************************************************************)

\* Mutant: a host may change an answer that was not applied yet.
ChangeHostDecision(d, v) ==
    /\ decision[d] = "pending" \/ (Answered(d) /\ appliedBy[d] = NoRun)
    /\ decision' = [decision EXCEPT ![d] = v]
    /\ UNCHANGED <<vars, appliedBy, recorded, stage, releasing>>

\* Repeating the same, not yet applied answer changes nothing; any other change
\* to an answered row is refused.
RecordHostDecision(d, v) ==
    /\ decision[d] = "pending"
    /\ decision' = [decision EXCEPT ![d] = v]
    /\ UNCHANGED <<vars, appliedBy, recorded, stage, releasing>>

\* The authority of a resume needs the decision it answers to exist.
AskForRun(w, r, now) ==
    /\ Free(w)
    /\ r \in Resume => decision[AnswerOf[r]] # "absent"
    /\ Ask(w, r, now)
    /\ GiveBack(PastDeadline \ Recoverable)
    /\ UNCHANGED <<decision, recorded, stage, releasing>>

ReconcileRuns ==
    /\ Reconcile
    /\ GiveBack(PastDeadline \ Recoverable)
    /\ UNCHANGED <<decision, recorded, stage, releasing>>

\* The decisions a withdrawal retires: an answer that was applied keeps its row.
OpenDecisions(i) ==
    {d \in Decision : /\ \E r \in Run : InvitationOf[r] = i /\ SessionOf[r] = SessionAsking[d]
                      /\ decision[d] = "pending" \/ (Answered(d) /\ recorded[d] = 0)}

Withdraw(i) ==
    /\ WithdrawInvitation(i)
    /\ decision' = [d \in Decision |-> IF d \in OpenDecisions(i) THEN "cancelled" ELSE decision[d]]
    /\ UNCHANGED <<appliedBy, recorded, stage, releasing>>

-----------------------------------------------------------------------------
(***************************************************************************)
(* Executions                                                              *)
(***************************************************************************)

Claim(w, r) ==
    /\ Free(w)
    /\ ClaimQueuedRun(w, r)
    /\ UNCHANGED resumeVars

\* The steps of the queue that do not concern decisions.
QueueStep(w) ==
    /\ InsertRun(w) \/ RestartRun(w) \/ Decline(w) \/ ResolveAuthority(w)
    /\ UNCHANGED resumeVars

MatchDecision(w) ==
    /\ Resuming(w) /\ stage[w] = "none"
    /\ decision[AnswerOf[task[w]]] = Verdict[task[w]]
    /\ stage' = [stage EXCEPT ![w] = "matched"]
    /\ UNCHANGED <<vars, decision, appliedBy, recorded, releasing>>

\* Not fenced by the claim token and blind to the decision's status.
HoldDecision(w) ==
    LET d == AnswerOf[task[w]]
    IN  /\ Resuming(w) /\ stage[w] = "matched"
        /\ appliedBy[d] \in {NoRun, task[w]}
        /\ appliedBy' = [appliedBy EXCEPT ![d] = task[w]]
        /\ stage' = [stage EXCEPT ![w] = "held"]
        /\ UNCHANGED <<vars, decision, recorded, releasing>>

\* After the agent consumed the answer without another interrupt.  A decision that
\* is no longer this run's is passed over in silence.
ApplyDecision(w) ==
    LET d == AnswerOf[task[w]]
    IN  /\ Resuming(w) /\ stage[w] = "held"
        /\ recorded' = [recorded EXCEPT ![d] =
                           IF appliedBy[d] = task[w] /\ Answered(d) /\ @ = 0 THEN 1 ELSE @]
        /\ stage' = [stage EXCEPT ![w] = "applied"]
        /\ UNCHANGED <<vars, decision, appliedBy, releasing>>

\* What an execution may ask: its session's questions, but the one it carries the
\* answer of (the answered interrupt returns the response).
Questions(w) ==
    {d \in Decision : /\ SessionAsking[d] = SessionOf[task[w]]
                      /\ task[w] \in Resume => d # AnswerOf[task[w]]}

\* Mutant: the rows are written outside the fence.
InterruptUnfenced(w, D) ==
    /\ pc[w] = "working"
    /\ task[w] \in Resume => stage[w] = "held"
    /\ D # {} /\ D \subseteq Questions(w)
    /\ ConcludeRun(w, "interrupted")
    /\ decision' = [d \in Decision |-> IF d \in D /\ decision[d] = "absent"
                                       THEN "pending" ELSE decision[d]]
    /\ Leaves(w)
    /\ UNCHANGED <<appliedBy, recorded, releasing>>

\* The agent needs a host: the rows are written and the run is interrupted in one
\* transaction under the home lock.  A resume that is interrupted again ends here.
Interrupt(w, D) ==
    /\ pc[w] = "working"
    /\ task[w] \in Resume => stage[w] = "held"
    /\ Holds(w, task[w])
    /\ D # {} /\ D \subseteq Questions(w)
    /\ ConcludeRun(w, "interrupted")
    /\ decision' = [d \in Decision |-> IF d \in D /\ decision[d] = "absent"
                                       THEN "pending" ELSE decision[d]]
    /\ Leaves(w)
    /\ UNCHANGED <<appliedBy, recorded, releasing>>

\* Mutant: the run is finished by its id.
CompleteById(w) ==
    /\ pc[w] = "working"
    /\ task[w] \in Resume => stage[w] = "applied"
    /\ SettleRunning(w, task[w], "completed")
    /\ Idles(w)
    /\ Leaves(w)
    /\ UNCHANGED <<withdrawn, decision, appliedBy, recorded, releasing>>

Complete(w) ==
    /\ pc[w] = "working"
    /\ task[w] \in Resume => stage[w] = "applied"
    /\ Holds(w, task[w])
    /\ ConcludeRun(w, "completed")
    /\ Leaves(w)
    /\ UNCHANGED <<decision, appliedBy, recorded, releasing>>

\* Authority was lost before the task began, or the task threw, a lost claim
\* included.  Only a resume that had begun still gives its answer back.
Fail(w) ==
    /\ FailRun(w)
    /\ releasing' = [releasing EXCEPT ![w] = IF Resuming(w) THEN task[w] ELSE NoRun]
    /\ Leaves(w)
    /\ UNCHANGED decisionVars

\* Mutant: an answer that was already applied is given back too.
ReleaseRecorded(w) ==
    LET r == releasing[w]
    IN  /\ r # NoRun
        /\ appliedBy' = [appliedBy EXCEPT ![AnswerOf[r]] = IF @ = r /\ Answered(AnswerOf[r])
                                                           THEN NoRun ELSE @]
        /\ releasing' = [releasing EXCEPT ![w] = NoRun]
        /\ UNCHANGED <<vars, decision, recorded, stage>>

\* The catch block's second statement names the run, not the execution's token.
ReleaseDecision(w) ==
    LET r == releasing[w]
    IN  /\ r # NoRun
        /\ appliedBy' = [appliedBy EXCEPT ![AnswerOf[r]] =
                            IF @ = r /\ Answered(AnswerOf[r]) /\ recorded[AnswerOf[r]] = 0
                            THEN NoRun ELSE @]
        /\ releasing' = [releasing EXCEPT ![w] = NoRun]
        /\ UNCHANGED <<vars, decision, recorded, stage>>

\* The process dies while executing, or between the catch block's two statements.
Die(w) ==
    /\ \/ Crash(w) /\ Leaves(w) /\ UNCHANGED releasing
       \/ /\ releasing[w] # NoRun
          /\ releasing' = [releasing EXCEPT ![w] = NoRun]
          /\ UNCHANGED <<vars, stage>>
    /\ UNCHANGED decisionVars

-----------------------------------------------------------------------------
ResumeNext ==
    \/ ReconcileRuns
    \/ \E i \in Invitation : Withdraw(i)
    \/ \E r \in Run : (LeaseAges(r) \/ RejectUnreadable(r)) /\ UNCHANGED resumeVars
    \/ \E d \in Decision, v \in Answer : RecordHostDecision(d, v)
    \/ \E w \in Worker :
          \/ QueueStep(w) \/ MatchDecision(w) \/ HoldDecision(w) \/ ApplyDecision(w)
          \/ Complete(w) \/ Fail(w) \/ ReleaseDecision(w) \/ Die(w)
          \/ \E D \in SUBSET Decision : Interrupt(w, D)
          \/ \E r \in Run : Claim(w, r)
          \/ \E r \in Run, now \in BOOLEAN : AskForRun(w, r, now)

ResumeSpec == ResumeInit /\ [][ResumeNext]_allVars

-----------------------------------------------------------------------------
(***************************************************************************)
(* Properties                                                              *)
(***************************************************************************)

\* A withdrawn invitation has no open decision left: no pending question and no
\* answer still to be applied, although the run that raises a question, the host
\* who answers it and the withdrawal race each other (cancellation.ts:70-81,
\* run-task.ts:416-456).
WithdrawalRetiresDecisions ==
    \A d \in Decision :
        (\E r \in Run : InvitationOf[r] \in withdrawn /\ SessionOf[r] = SessionAsking[d])
        => \/ decision[d] \in {"absent", "cancelled"}
           \/ Answered(d) /\ recorded[d] > 0

\* decision_applied is written once per decision, by an execution that carries the
\* very answer the host gave, while the row still holds it: not a cancelled one,
\* not another host's, not a second time after a lease was recovered
\* (run-task.ts:458-486).
AppliedAsAnswered ==
    [][\A d \in Decision :
         recorded'[d] # recorded[d]
         => /\ recorded[d] = 0
            /\ \E w \in Worker : /\ Resuming(w) /\ AnswerOf[task[w]] = d
                                 /\ Verdict[task[w]] = decision[d]
                                 /\ appliedBy[d] = task[w]]_allVars

\* An applied answer stays claimed by the run that applied it: neither a late
\* catch block nor the lease recovery offers it to the host for a retry
\* (run-task.ts:526-542, jobs.ts:748-760; the Retry button of page.tsx:105-112).
AppliedIsNotRetried ==
    \A d \in Decision : recorded[d] > 0 => Answered(d) /\ appliedBy[d] # NoRun

\* The invitations a decision is about.
About == [d \in Decision |-> {i \in Invitation : \E r \in Run : InvitationOf[r] = i
                                                 /\ SessionOf[r] = SessionAsking[d]}]

Decisions == INSTANCE HostDecisions
                WITH Concerns <- About, Carrier <- Resume, Brings <- AnswerOf, Says <- Verdict,
                     Nobody <- NoRun, question <- decision, carrier <- appliedBy,
                     effective <- {d \in Decision : recorded[d] > 0}, closed <- withdrawn

\* A question is put once, answered once, carried by one run at a time and takes effect
\* once, as answered, or is closed by the withdrawal, whatever executions die, lose their
\* lease or come late with a statement that names the run and not their claim
\* (run-task.ts:381-542, host-decision.ts, cancellation.ts:70-81).
ImplementsDecisions == Decisions!Spec

\* Decisions, executions and hosts drive the queue only through its own steps:
\* every theorem about RunQueue holds of the composition.
StepsOfTheQueue == Spec
=============================================================================
