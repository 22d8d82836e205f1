----------------------------- MODULE Schedules -----------------------------
(***************************************************************************)
(* The external schedule of one job (core/reconfirmation/jobs.ts,          *)
(* agent/scheduler).  The database row is written first; a caller then     *)
(* claims the row with a token, creates the schedule at the provider and   *)
(* stores its name, and deletes it again when the row was closed or taken  *)
(* meanwhile.  The name is made of the job's kind and id, so every caller  *)
(* creates the same schedule, and creating it twice succeeds.              *)
(***************************************************************************)
EXTENDS Naturals

CONSTANT Caller     \* calls that ensure the schedule of the job, or cancel the job

VARIABLES
    job,        \* the row of scheduled_jobs; claim: the caller whose token it carries
    schedule,   \* the provider's schedule; one that fired deletes itself
    caller,     \* where each call stands
    late        \* a claim has outlived its ten minutes

scheduleVars == <<job, schedule, caller, late>>

Unclaimed == "nobody"

ASSUME SchedulesAssumption == Unclaimed \notin Caller
Live == {"scheduled", "running"}

ScheduleTypeOK ==
    /\ job \in [status : Live \cup {"done", "quarantined", "cancelled"},
                stored : BOOLEAN, claim : Caller \cup {Unclaimed}]
    /\ schedule \in {"none", "set", "fired"}
    /\ caller \in [Caller -> {"idle", "create", "store", "delete", "done", "lost"}]
    /\ late \in BOOLEAN

\* scheduleJobs has committed the row.
ScheduleInit ==
    /\ job = [status |-> "scheduled", stored |-> FALSE, claim |-> Unclaimed]
    /\ schedule = "none"
    /\ caller = [c \in Caller |-> "idle"]
    /\ late = FALSE

Moves(c, to) == caller' = [caller EXCEPT ![c] = to]

-----------------------------------------------------------------------------
\* Mutant: the claim of another caller is overlooked.
ClaimHeldSchedule(c) ==
    /\ caller[c] = "idle"
    /\ job.status \in Live /\ ~job.stored
    /\ job' = [job EXCEPT !.claim = c]
    /\ Moves(c, "create")
    /\ UNCHANGED <<schedule, late>>

\* A free row, or one whose claim is ten minutes old.
ClaimSchedule(c) ==
    /\ caller[c] = "idle"
    /\ job.status \in Live /\ ~job.stored
    /\ job' = [job EXCEPT !.claim = c]
    /\ late' = (late \/ job.claim # Unclaimed)
    /\ Moves(c, "create")
    /\ UNCHANGED schedule

\* The schedule is there, or another caller sees to it.
LeaveSchedule(c) ==
    /\ caller[c] = "idle"
    /\ job.stored \/ job.claim # Unclaimed \/ job.status \notin Live
    /\ Moves(c, "done")
    /\ UNCHANGED <<job, schedule, late>>

\* A conflict means that the schedule exists.
CreateSchedule(c) ==
    /\ caller[c] = "create"
    /\ schedule' = "set"
    /\ Moves(c, "store")
    /\ UNCHANGED <<job, late>>

Released(c) == IF job.claim = c THEN [job EXCEPT !.claim = Unclaimed] ELSE job

\* Mutant: the row's status is not looked at again.
StoreAnyway(c) ==
    /\ caller[c] = "store"
    /\ IF job.claim = c
       THEN /\ job' = [job EXCEPT !.stored = TRUE, !.claim = Unclaimed]
            /\ Moves(c, "done")
       ELSE Moves(c, "delete") /\ UNCHANGED job
    /\ UNCHANGED <<schedule, late>>

StoreSchedule(c) ==
    /\ caller[c] = "store"
    /\ IF job.claim = c /\ job.status \in Live
       THEN /\ job' = [job EXCEPT !.stored = TRUE, !.claim = Unclaimed]
            /\ Moves(c, "done")
       ELSE Moves(c, "delete") /\ UNCHANGED job
    /\ UNCHANGED <<schedule, late>>

DeleteSchedule(c) ==
    /\ caller[c] = "delete"
    /\ schedule' = "none"
    /\ Moves(c, "done")
    /\ UNCHANGED <<job, late>>

\* A call to the provider throws, though it may have taken effect: the claim is given back.
CallFails(c) ==
    /\ caller[c] \in {"create", "delete"}
    /\ schedule' \in {schedule, IF caller[c] = "create" THEN "set" ELSE "none"}
    /\ job' = Released(c)
    /\ Moves(c, "lost")
    /\ UNCHANGED late

CallerDies(c) ==
    /\ caller[c] \in {"create", "store", "delete"}
    /\ Moves(c, "lost")
    /\ UNCHANGED <<job, schedule, late>>

-----------------------------------------------------------------------------
\* The visit is cancelled or moved: the row in a transaction, the schedule after it.
CancelJob(c) ==
    /\ caller[c] = "idle"
    /\ job.status \in Live \cup {"quarantined"}
    /\ job' = [job EXCEPT !.status = "cancelled"]
    /\ Moves(c, IF job.stored THEN "delete" ELSE "done")
    /\ UNCHANGED <<schedule, late>>

\* A tick claims the job, and finishes, retries or quarantines it.
JobRuns ==
    /\ \/ job.status = "scheduled" /\ job' = [job EXCEPT !.status = "running"]
       \/ /\ job.status = "running"
          /\ \E s \in {"done", "scheduled", "quarantined"} : job' = [job EXCEPT !.status = s]
       \/ job.status = "quarantined" /\ job' = [job EXCEPT !.status = "scheduled"]
    /\ UNCHANGED <<schedule, caller, late>>

ScheduleFires ==
    /\ schedule = "set"
    /\ schedule' = "fired"
    /\ UNCHANGED <<job, caller, late>>

ScheduleNext ==
    \/ JobRuns \/ ScheduleFires
    \/ \E c \in Caller :
          \/ ClaimSchedule(c) \/ LeaveSchedule(c) \/ CreateSchedule(c) \/ StoreSchedule(c)
          \/ DeleteSchedule(c) \/ CallFails(c) \/ CallerDies(c) \/ CancelJob(c)

ScheduleSpec == ScheduleInit /\ [][ScheduleNext]_scheduleVars

-----------------------------------------------------------------------------
CancelledJobsAreUnscheduled ==
    job.status = "cancelled" /\ schedule = "set" =>
        \E c \in Caller : caller[c] \in {"create", "store", "delete", "lost"}

StoredScheduleExists ==
    job.stored /\ job.status \in Live /\ ~late => schedule # "none"

\* A cancelled job leaves no schedule behind, however its cancellation crosses the
\* creation: while there is one, a call is under way that will still look at the row
\* or delete it (jobs.ts:883-898, holds.ts:367) - unless a call failed or died.  And a
\* job that names its schedule has it (or it fired): nobody deletes the schedule that
\* another call stored, as long as no claim outlives its ten minutes.
SchedulesFollowTheirJobs == CancelledJobsAreUnscheduled /\ StoredScheduleExists
=============================================================================
