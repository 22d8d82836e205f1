------------------------ MODULE ReconfirmationProofs ------------------------
(***************************************************************************)
(* Proofs about Reconfirmation for any number of processes, hosts, jobs,   *)
(* bookings and faults.  What a process may conclude from a claim that is  *)
(* still its own, and which booking an open job is for, make the           *)
(* invariants inductive; what an escalation is for is sure of every stay   *)
(* but those booked in the middle of an earlier one's follow-up.           *)
(***************************************************************************)
EXTENDS Reconfirmation, TLAPS, WellFoundedInduction

\* A process that is at work has a job.
BusyHaveJobs == \A p \in Process : process[p].at # "idle" => process[p].job \in Job

\* A row that was never used is closed, and only a claim can lapse.
RowsAreConsistent ==
    \A j \in Job : /\ jobs[j].kind = "none" => jobs[j].status = "done"
                   /\ jobs[j].expired => jobs[j].status = "running"

Standing(j) == jobs[j].status \in {"scheduled", "running", "quarantined"}

\* Rescheduling closes the chases of the stay before.
ChasesAreCurrent ==
    \A j \in Job : jobs[j].kind = "chase" /\ Standing(j) => jobs[j].stay = stay

\* A follow-up that nothing overtook is about the stay booked, whose guest was asked.
FollowUpsAreCurrent ==
    stay \notin overtaken => \A p \in Process :
        process[p].at = "schedule" /\ process[p].follow # 0 =>
            process[p].follow = stay /\ visit # "confirmed"

EscalationsAreCurrent ==
    stay \notin overtaken => \A j \in Job :
        jobs[j].kind = "escalate" /\ Standing(j) => jobs[j].stay = stay /\ visit # "confirmed"

\* An escalation that runs has waited its day.
EscalationsWaited ==
    \A j \in Job : jobs[j].kind = "escalate" /\ jobs[j].status = "running"
                   => jobs[j].stay \in waited

AnswersStand ==
    answering /\ stay \notin overtaken => visit \in {"reconfirmed", "cancelled"}

\* The statuses at which a job of each kind has nothing left to do.
Passed(kind) == IF kind = "chase" THEN {"reconfirmed", "escalated"} ELSE {"reconfirmed"}

Settles(p) ==
    LET j == process[p].job
    IN  jobs[j].kind = "chase" \/ stay \notin overtaken =>
            \/ visit \in Passed(jobs[j].kind)
            \/ process[p].at = "complete" /\ DeliveryIsComplete(j)

\* Whoever will close a job that is still its own may do so.
ClosersAreRight ==
    \A p \in Process :
        /\ \/ process[p].at \in {"schedule", "decide"} /\ ~process[p].acts
           \/ process[p].at = "complete"
        /\ IsCurrent(p)
        => Settles(p)

\* NobodyForgotten in its two parts.
RequestsAreKept ==
    visit = "reconfirm_pending"
    => \E j \in Job : jobs[j].kind = "chase" /\ jobs[j].stay = stay /\ Kept(j)

EscalationsAreKept ==
    visit = "escalated" /\ stay \notin overtaken
    => \E j \in Job : jobs[j].kind = "escalate" /\ jobs[j].stay = stay /\ Kept(j)

IInv ==
    /\ TypeOK
    /\ BusyHaveJobs
    /\ RowsAreConsistent
    /\ ChasesAreCurrent
    /\ FollowUpsAreCurrent
    /\ EscalationsAreCurrent
    /\ EscalationsWaited
    /\ AnswersStand
    /\ ClosersAreRight
    /\ RequestsAreKept
    /\ EscalationsAreKept

-----------------------------------------------------------------------------
(***************************************************************************)
(* Rows of scheduled_jobs                                                  *)
(***************************************************************************)

RowType == [kind : {"none", "chase", "escalate"},
            status : {"scheduled", "running", "done", "cancelled", "quarantined"},
            stay : 0..MaxStays, claimant : Process \cup {Nobody},
            attempts : 0..MaxAttempts, linked : BOOLEAN, expired : BOOLEAN]

RowOK(row) == row \in RowType /\ (row.claimant # Nobody <=> row.status = "running")

JobsOK(table) == table \in [Job -> RowType] /\ \A j \in Job : RowOK(table[j])

\* Any set of row numbers has a least one.
LEMMA FirstUnusedExists ==
    ASSUME NEW table, Unused(table) # {}
    PROVE  FirstUnused(table) \in Unused(table)
<1>1. Job \subseteq Nat
  BY ReconfirmationAssumption DEF Job
<1>2. Unused(table) \subseteq Nat
  BY <1>1 DEF Unused
<1>3. \E x \in Unused(table) : \A y \in Unused(table) : ~ (<<y, x>> \in OpToRel(<, Nat))
  BY <1>2, NatLessThanWellFounded, WFMin
<1>4. \E x \in Unused(table) : \A y \in Unused(table) : x <= y
  <2>1. ASSUME NEW x \in Nat, NEW y \in Nat, ~(<<y, x>> \in OpToRel(<, Nat)) PROVE x <= y
    BY <2>1 DEF OpToRel
  <2> QED BY <1>2, <1>3, <2>1
<1> QED BY <1>4 DEF FirstUnused

LEMMA RowFacts ==
    ASSUME NEW kind \in {"none", "chase", "escalate"}, NEW s \in 0..MaxStays
    PROVE  /\ RowOK(Row(kind, s)) /\ Row(kind, s).kind = kind /\ Row(kind, s).stay = s
           /\ Row(kind, s).status = "scheduled" /\ Row(kind, s).claimant = Nobody
           /\ ~Row(kind, s).expired
BY ReconfirmationAssumption DEF RowOK, RowType, Row, MaxAttempts

LEMMA CloseFacts ==
    ASSUME NEW job, RowOK(job),
           NEW status \in {"scheduled", "done", "cancelled", "quarantined"}
    PROVE  /\ RowOK(Close(job, status)) /\ Close(job, status).kind = job.kind
           /\ Close(job, status).stay = job.stay /\ Close(job, status).status = status
           /\ Close(job, status).claimant = Nobody /\ ~Close(job, status).expired
<1>1. job.kind \in {"none", "chase", "escalate"} /\ job.stay \in 0..MaxStays
  BY DEF RowOK, RowType
<1>2. RowOK(Row(job.kind, job.stay)) /\ Row(job.kind, job.stay).kind = job.kind
      /\ Row(job.kind, job.stay).stay = job.stay /\ Row(job.kind, job.stay).claimant = Nobody
      /\ ~Row(job.kind, job.stay).expired
  BY <1>1, RowFacts
<1> QED BY <1>2 DEF Close, RowOK, RowType

LEMMA FailedFacts ==
    ASSUME NEW job, RowOK(job)
    PROVE  /\ RowOK(Failed(job)) /\ Failed(job).kind = job.kind
           /\ Failed(job).stay = job.stay /\ Failed(job).claimant = Nobody
           /\ Failed(job).status \in {"scheduled", "quarantined"} /\ ~Failed(job).expired
<1>1. CASE job.attempts >= MaxAttempts
  BY <1>1, CloseFacts DEF Failed
<1>2. CASE ~(job.attempts >= MaxAttempts)
  <2>1. Failed(job) = [kind |-> job.kind, status |-> "scheduled", stay |-> job.stay,
                       claimant |-> Nobody, attempts |-> job.attempts, linked |-> FALSE,
                       expired |-> FALSE]
    BY <1>2 DEF Failed, Close, Row
  <2> QED BY <2>1, ReconfirmationAssumption DEF RowOK, RowType
<1> QED BY <1>1, <1>2

LEMMA CancelFacts ==
    ASSUME NEW table, JobsOK(table), NEW S
    PROVE  /\ JobsOK(Cancel(table, S))
           /\ \A j \in Job : /\ Cancel(table, S)[j].kind = table[j].kind
                             /\ Cancel(table, S)[j].stay = table[j].stay
                             /\ j \in S => /\ Cancel(table, S)[j].status = "cancelled"
                                           /\ Cancel(table, S)[j].claimant = Nobody
                                           /\ ~Cancel(table, S)[j].expired
                             /\ j \notin S => Cancel(table, S)[j] = table[j]
<1>1. \A j \in Job : RowOK(table[j])
  BY DEF JobsOK
<1> QED BY <1>1, CloseFacts DEF JobsOK, Cancel, RowOK

\* An insertion takes one row that was never used.
LEMMA InsertFacts ==
    ASSUME NEW table, JobsOK(table), Unused(table) # {},
           NEW kind \in {"chase", "escalate"}, NEW s \in 0..MaxStays
    PROVE  /\ JobsOK(Insert(table, kind, s))
           /\ \E i \in Job : /\ table[i].kind = "none"
                             /\ Insert(table, kind, s)[i] = Row(kind, s)
                             /\ \A j \in Job \ {i} : Insert(table, kind, s)[j] = table[j]
<1> DEFINE i == FirstUnused(table)
<1>1. i \in Job /\ table[i].kind = "none"
  BY FirstUnusedExists DEF Unused
<1> HIDE DEF i
<1>2. Insert(table, kind, s) = [table EXCEPT ![i] = Row(kind, s)]
  BY DEF Insert, i
<1>3. RowOK(Row(kind, s))
  BY RowFacts
<1> QED BY <1>1, <1>2, <1>3 DEF JobsOK, RowOK

-----------------------------------------------------------------------------
(***************************************************************************)
(* Processes and runs                                                      *)
(***************************************************************************)

ProcessType == [at : Locations, job : Job \cup {NoJob}, acts : BOOLEAN, changed : BOOLEAN,
                follow : 0..MaxStays]

ProcessesOK == process \in [Process -> ProcessType] /\ BusyHaveJobs

RunsOK == /\ runs \in [Job -> [status : {"ended", "queued", "running"},
                              by : Process \cup {Nobody}]]
          /\ \A j \in Job : runs[j].by # Nobody <=> runs[j].status = "running"

ToldOK == told \in [Job -> SUBSET (Hosts \cup {Guest})]

VisitOK ==
    /\ visit \in {"confirmed", "reconfirm_pending", "reconfirmed", "escalated", "cancelled"}
    /\ stay \in 1..MaxStays /\ waited \subseteq 1..stay /\ overtaken \subseteq 1..stay
    /\ answering \in BOOLEAN /\ syncing \in BOOLEAN /\ faults \in 0..MaxFaults

LEMMA TypeParts ==
    TypeOK /\ BusyHaveJobs <=> VisitOK /\ JobsOK(jobs) /\ ToldOK /\ RunsOK /\ ProcessesOK
BY DEF TypeOK, VisitOK, JobsOK, RowOK, RowType, ToldOK, RunsOK, ProcessesOK, ProcessType

LEMMA GoesFacts ==
    ASSUME ProcessesOK, NEW p \in Process, process[p].at # "idle", NEW location \in Locations,
           Goes(p, location)
    PROVE  /\ ProcessesOK'
           /\ process'[p].at = location /\ process'[p].job = process[p].job
           /\ \A q \in Process \ {p} : process'[q] = process[q]
BY DEF ProcessesOK, ProcessType, BusyHaveJobs, Goes

LEMMA RestsFacts ==
    ASSUME ProcessesOK, NEW p \in Process, Rests(p)
    PROVE  /\ ProcessesOK' /\ process'[p].at = "idle"
           /\ \A q \in Process \ {p} : process'[q] = process[q]
BY ReconfirmationAssumption
   DEF ProcessesOK, ProcessType, BusyHaveJobs, Rests, Resting, Locations

LEMMA StartsFacts ==
    ASSUME ProcessesOK, NEW p \in Process, NEW j \in Job, NEW location \in Locations,
           process' = [process EXCEPT ![p] = [Resting EXCEPT !.at = location, !.job = j]]
    PROVE  /\ ProcessesOK' /\ process'[p].at = location /\ process'[p].job = j
           /\ \A q \in Process \ {p} : process'[q] = process[q]
<1>1. Resting \in ProcessType
  BY ReconfirmationAssumption DEF Resting, ProcessType, Locations
<1> HIDE DEF Resting
<1> QED BY <1>1 DEF ProcessesOK, ProcessType, BusyHaveJobs

\* One row is replaced by one in order.
LEMMA TableFacts ==
    ASSUME JobsOK(jobs), NEW j \in Job, NEW row, RowOK(row),
           jobs' = [jobs EXCEPT ![j] = row]
    PROVE  /\ JobsOK(jobs') /\ jobs'[j] = row
           /\ \A i \in Job \ {j} : jobs'[i] = jobs[i]
BY DEF JobsOK, RowOK

-----------------------------------------------------------------------------
(***************************************************************************)
(* The invariant                                                           *)
(***************************************************************************)

\* Nobody waits for the delivery of job j any more.
MayClose(j) ==
    /\ jobs[j].kind = "chase" => visit # "reconfirm_pending" \/ DeliveryIsComplete(j)
    /\ jobs[j].kind = "escalate" /\ stay \notin overtaken
       => visit # "escalated" \/ DeliveryIsComplete(j)

\* A row stays what it is: it does not start again, and is closed only if it may be.
GoesOn(j) ==
    /\ jobs'[j].kind = jobs[j].kind /\ jobs'[j].stay = jobs[j].stay
    /\ jobs'[j].kind = "none" => jobs'[j].status = "done"
    /\ jobs'[j].expired => jobs'[j].status = "running"
    /\ Standing(j)' => Standing(j)
    /\ jobs'[j].status = "running" /\ jobs[j].kind = "escalate"
       => jobs[j].status = "running" \/ jobs[j].stay \in waited
    /\ Standing(j) /\ ~Standing(j)' => MayClose(j)

\* Or it is a new one, for the stay that is booked.
IsNew(j) ==
    /\ jobs[j].kind = "none" /\ jobs'[j].kind # "none"
    /\ jobs'[j].status = "scheduled" /\ jobs'[j].claimant = Nobody /\ ~jobs'[j].expired
    /\ jobs'[j].kind = "chase" => jobs'[j].stay = stay
    /\ jobs'[j].kind = "escalate" /\ stay \notin overtaken
       => jobs'[j].stay = stay /\ visit # "confirmed"

\* A process that may close its job if the job is still its own.
Closing(p) == \/ process[p].at \in {"schedule", "decide"} /\ ~process[p].acts
              \/ process[p].at = "complete"

\* A step that leaves the visit alone, of p or of nobody at work.
LEMMA QuietStep ==
    ASSUME IInv, VisitOK', JobsOK(jobs'), ToldOK', RunsOK', ProcessesOK',
           visit' = visit, stay' = stay, overtaken' = overtaken, waited \subseteq waited',
           answering' => answering,
           \A j \in Job : GoesOn(j) \/ IsNew(j),
           \A j \in Job : told[j] \subseteq told'[j],
           NEW p,
           \A q \in Process \ {p} :
               /\ process'[q] = process[q]
               /\ \A j \in Job : jobs'[j].claimant = q => jobs[j].claimant = q,
           p \in Process => /\ process'[p].at # "schedule"
                            /\ Closing(p)' /\ IsCurrent(p)' => Settles(p)'
    PROVE  IInv'
<1>1. VisitOK /\ JobsOK(jobs) /\ ToldOK /\ RunsOK /\ ProcessesOK
  BY TypeParts DEF IInv
<1>2. (TypeOK /\ BusyHaveJobs)'
  BY TypeParts DEF JobsOK, RowOK, TypeOK, VisitOK, RowType, ToldOK, RunsOK, ProcessesOK,
     ProcessType
<1>3. RowsAreConsistent'
  BY DEF IInv, RowsAreConsistent, GoesOn, IsNew
<1>4. ChasesAreCurrent'
  BY DEF IInv, ChasesAreCurrent, GoesOn, IsNew, Standing
<1>5. FollowUpsAreCurrent'
  BY DEF IInv, FollowUpsAreCurrent
<1>6. EscalationsAreCurrent'
  BY DEF IInv, EscalationsAreCurrent, GoesOn, IsNew, Standing
<1>7. EscalationsWaited'
  BY DEF IInv, EscalationsWaited, GoesOn, IsNew
<1>8. AnswersStand'
  BY DEF IInv, AnswersStand
<1>9. ClosersAreRight'
  <2>1. SUFFICES ASSUME NEW q \in Process \ {p}, Closing(q)', IsCurrent(q)' PROVE Settles(q)'
    BY DEF ClosersAreRight, Closing
  <2> DEFINE j == process[q].job
  <2>2. process'[q] = process[q] /\ j \in Job
    BY <2>1, <1>1 DEF Closing, ProcessesOK, BusyHaveJobs
  <2> HIDE DEF j
  <2>3. process[q].job = j
    BY DEF j
  <2>4. jobs'[j].claimant = q /\ jobs[j].claimant = q /\ visit # "cancelled"
    BY <2>1, <2>2, <2>3 DEF IsCurrent
  <2>5. jobs[j].status = "running" /\ jobs[j].kind # "none"
    BY <2>2, <2>4, <1>1, ReconfirmationAssumption DEF JobsOK, RowOK, IInv, RowsAreConsistent
  <2>6. jobs'[j].kind = jobs[j].kind /\ told[j] \subseteq told'[j]
    BY <2>2, <2>5 DEF GoesOn, IsNew
  <2>7. Settles(q)
    BY <2>1, <2>2, <2>3, <2>4 DEF IInv, ClosersAreRight, Closing, IsCurrent
  <2> QED BY <2>2, <2>3, <2>6, <2>7 DEF Settles, DeliveryIsComplete, Needed, Passed
<1>10. ASSUME NEW j \in Job, Kept(j), jobs[j].kind # "none"
       PROVE  /\ jobs'[j].kind = jobs[j].kind /\ jobs'[j].stay = jobs[j].stay
              /\ Kept(j)' \/ (MayClose(j) /\ ~DeliveryIsComplete(j))
  <2>1. GoesOn(j) /\ told[j] \subseteq told'[j]
    BY <1>10 DEF IsNew
  <2>2. DeliveryIsComplete(j) => DeliveryIsComplete(j)'
    BY <2>1 DEF GoesOn, DeliveryIsComplete, Needed
  <2> QED BY <1>10, <2>1, <2>2 DEF Kept, GoesOn, Standing
<1>11. RequestsAreKept'
  BY <1>10 DEF IInv, RequestsAreKept, MayClose
<1>12. EscalationsAreKept'
  BY <1>10 DEF IInv, EscalationsAreKept, MayClose
<1> QED BY <1>2, <1>3, <1>4, <1>5, <1>6, <1>7, <1>8, <1>9, <1>11, <1>12 DEF IInv

-----------------------------------------------------------------------------
(***************************************************************************)
(* The dispatcher's steps                                                  *)
(***************************************************************************)

LEMMA Parts ==
    ASSUME IInv
    PROVE  /\ VisitOK /\ JobsOK(jobs) /\ ToldOK /\ RunsOK /\ ProcessesOK
           /\ \A j \in Job : RowOK(jobs[j])
           /\ \A p \in Process : process[p].at # "idle" => process[p].job \in Job
BY TypeParts DEF IInv, JobsOK, BusyHaveJobs

LEMMA RowsStay ==
    ASSUME IInv, jobs' = jobs
    PROVE  /\ JobsOK(jobs')
           /\ \A j \in Job : GoesOn(j) /\ jobs'[j].claimant = jobs[j].claimant
BY Parts DEF IInv, RowsAreConsistent, GoesOn, Standing

\* An open row is replaced, by one that is open too or may be closed.
LEMMA RowIsReplaced ==
    ASSUME IInv, NEW j \in Job, NEW row, jobs' = [jobs EXCEPT ![j] = row], RowOK(row),
           Standing(j), row.kind = jobs[j].kind, row.stay = jobs[j].stay,
           row.claimant \in {Nobody, jobs[j].claimant},
           row.status = "running" => jobs[j].status = "running",
           row.expired => row.status = "running",
           row.status \in {"scheduled", "running", "quarantined"} \/ MayClose(j)
    PROVE  /\ JobsOK(jobs') /\ \A i \in Job : GoesOn(i)
           /\ \A i \in Job, q \in Process : jobs'[i].claimant = q => jobs[i].claimant = q
<1>1. JobsOK(jobs') /\ jobs'[j] = row /\ \A i \in Job \ {j} : jobs'[i] = jobs[i]
  BY Parts, TableFacts
<1>2. jobs[j].kind # "none"
  BY DEF IInv, RowsAreConsistent, Standing
<1> QED BY <1>1, <1>2, ReconfirmationAssumption DEF IInv, RowsAreConsistent, GoesOn, Standing

LEMMA CurrentJob ==
    ASSUME IInv, NEW p \in Process, process[p].at # "idle", IsCurrent(p)
    PROVE  /\ process[p].job \in Job /\ jobs[process[p].job].status = "running"
           /\ Standing(process[p].job) /\ jobs[process[p].job].claimant = p
           /\ jobs[process[p].job].kind \in {"chase", "escalate"} /\ visit # "cancelled"
<1> DEFINE j == process[p].job
<1>1. j \in Job /\ RowOK(jobs[j]) /\ jobs[j].claimant = p /\ visit # "cancelled"
  BY Parts DEF IsCurrent
<1>2. jobs[j].status = "running"
  BY <1>1, ReconfirmationAssumption DEF RowOK
<1> QED BY <1>1, <1>2 DEF IInv, RowsAreConsistent, Standing, RowOK, RowType

LEMMA ClaimKeeps ==
    ASSUME IInv, NEW p \in Process, NEW j \in Job, Claim(p, j)
    PROVE  IInv'
<1>1. PICK n \in 0..MaxAttempts : n = IF jobs[j].attempts < MaxAttempts
                                      THEN jobs[j].attempts + 1 ELSE jobs[j].attempts
  BY Parts DEF RowOK, RowType, MaxAttempts
<1> DEFINE row == [jobs[j] EXCEPT !.status = "running", !.claimant = p, !.expired = FALSE,
                                  !.attempts = n]
<1>2. jobs' = [jobs EXCEPT ![j] = row]
  BY <1>1 DEF Claim
<1>3. /\ RowOK(row) /\ row.kind = jobs[j].kind /\ row.stay = jobs[j].stay
      /\ row.status = "running" /\ row.claimant = p
  <2>1. jobs[j] \in RowType /\ p # Nobody
    BY Parts, ReconfirmationAssumption DEF RowOK
  <2>2. row \in RowType
    BY <1>1, <2>1 DEF RowType
  <2> QED BY <2>1, <2>2 DEF RowOK, RowType
<1> HIDE DEF row
<1>4. JobsOK(jobs') /\ jobs'[j] = row /\ \A i \in Job \ {j} : jobs'[i] = jobs[i]
  BY <1>2, <1>3, Parts, TableFacts
<1>5. /\ Standing(j) /\ jobs[j].kind # "none"
      /\ jobs[j].kind = "escalate" => jobs[j].stay \in waited
  BY DEF Claim, Claimable, Standing, IInv, RowsAreConsistent
<1>6. \A i \in Job : GoesOn(i)
  BY <1>3, <1>4, <1>5 DEF GoesOn, Standing, IInv, RowsAreConsistent
<1>7. \A i \in Job, q \in Process \ {p} : jobs'[i].claimant = q => jobs[i].claimant = q
  BY <1>3, <1>4
<1>8. /\ ProcessesOK' /\ process'[p].at = "prepare"
      /\ \A q \in Process \ {p} : process'[q] = process[q]
  BY Parts, StartsFacts DEF Claim, Locations
<1>9. UNCHANGED <<visit, told, runs, faults, guestVars>>
  BY DEF Claim
<1>10. VisitOK' /\ ToldOK' /\ RunsOK'
  BY <1>9, Parts DEF VisitOK, ToldOK, RunsOK, guestVars
<1> QED BY <1>4, <1>6, <1>7, <1>8, <1>9, <1>10, QuietStep DEF guestVars, Closing

LEMMA VisitStays ==
    ASSUME VisitOK, UNCHANGED <<visit, guestVars>>, UNCHANGED faults \/ \E kind : Fault(kind)
    PROVE  /\ VisitOK' /\ visit' = visit /\ stay' = stay /\ waited' = waited
           /\ answering' = answering /\ overtaken' = overtaken
BY ReconfirmationAssumption DEF VisitOK, guestVars, Fault

LEMMA VisitFacts ==
    ASSUME VisitOK, stay' = stay, waited' = waited, overtaken' = overtaken,
           faults' = faults,
           visit' \in {"confirmed", "reconfirm_pending", "reconfirmed", "escalated", "cancelled"},
           answering' \in BOOLEAN, syncing' \in BOOLEAN
    PROVE  VisitOK'
BY DEF VisitOK

\* A process moves on, or stops, and leaves the jobs alone.
LEMMA ProcessKeeps ==
    ASSUME IInv, NEW p \in Process, jobs' = jobs,
           UNCHANGED <<visit, guestVars>>, UNCHANGED faults \/ \E kind : Fault(kind),
           ToldOK', \A j \in Job : told[j] \subseteq told'[j], RunsOK', ProcessesOK',
           \A q \in Process \ {p} : process'[q] = process[q],
           process'[p].at \notin {"schedule", "decide"},
           process'[p].at = "complete" => process'[p].job \in Job /\ Settles(p)'
    PROVE  IInv'
<1>1. /\ VisitOK' /\ visit' = visit /\ stay' = stay /\ waited' = waited
      /\ answering' = answering /\ overtaken' = overtaken
  BY Parts, VisitStays
<1>2. JobsOK(jobs') /\ \A j \in Job : GoesOn(j) /\ jobs'[j].claimant = jobs[j].claimant
  BY RowsStay
<1> QED BY <1>1, <1>2, QuietStep DEF Closing

LEMMA StopKeeps ==
    ASSUME IInv, NEW p \in Process, Skip(p) \/ Crash(p)
    PROVE  IInv'
<1>1. Rests(p) /\ UNCHANGED <<visit, jobs, told, runs, guestVars>>
  BY DEF Skip, Abandon, Crash
<1>2. UNCHANGED faults \/ \E kind : Fault(kind)
  BY DEF Skip, Abandon, Crash
<1>3. ProcessesOK' /\ process'[p].at = "idle" /\ \A q \in Process \ {p} : process'[q] = process[q]
  BY <1>1, Parts, RestsFacts
<1>4. ToldOK' /\ RunsOK' /\ \A j \in Job : told[j] \subseteq told'[j]
  BY <1>1, Parts DEF ToldOK, RunsOK
<1> QED BY <1>1, <1>2, <1>3, <1>4, ProcessKeeps

LEMMA DecideKeeps ==
    ASSUME IInv, NEW p \in Process, Decide(p)
    PROVE  IInv'
<1> DEFINE j == process[p].job
<1> DEFINE location == IF ~process[p].acts \/ (~process[p].changed /\ DeliveryIsComplete(j))
                       THEN "complete" ELSE IF p \in Cron THEN "enqueue" ELSE "invoke"
<1>1. /\ process[p].at = "decide" /\ IsCurrent(p)
      /\ UNCHANGED <<visit, jobs, told, runs, faults, guestVars>>
  BY DEF Decide
<1>2. j \in Job /\ location \in Locations
  BY <1>1, Parts DEF Locations
<1>3. process' = [process EXCEPT ![p] = [Resting EXCEPT !.at = location, !.job = j]]
  BY DEF Decide, Resting
<1> HIDE DEF location
<1>4. /\ ProcessesOK' /\ process'[p].at = location /\ process'[p].job = j
      /\ \A q \in Process \ {p} : process'[q] = process[q]
  BY <1>2, <1>3, Parts, StartsFacts
<1>5. ToldOK' /\ RunsOK' /\ \A i \in Job : told[i] \subseteq told'[i]
  BY <1>1, Parts DEF ToldOK, RunsOK
<1>6. location = "complete" => Settles(p) \/ DeliveryIsComplete(j)
  BY <1>1 DEF location, IInv, ClosersAreRight
<1>7. location = "complete" => Settles(p)'
  BY <1>1, <1>4, <1>6 DEF Settles, DeliveryIsComplete, Needed, guestVars
<1>8. location \notin {"schedule", "decide"}
  BY DEF location
<1> QED BY <1>1, <1>2, <1>4, <1>5, <1>7, <1>8, ProcessKeeps

LEMMA CompleteKeeps ==
    ASSUME IInv, NEW p \in Process, Complete(p)
    PROVE  IInv'
<1> DEFINE j == process[p].job
<1>1. /\ process[p].at = "complete" /\ IsCurrent(p) /\ Rests(p)
      /\ jobs' = [jobs EXCEPT ![j] = Completed(jobs[j])]
      /\ UNCHANGED <<visit, told, runs, faults, guestVars>>
  BY DEF Complete
<1>2. j \in Job /\ Standing(j)
  BY <1>1, CurrentJob
<1>3. /\ RowOK(Completed(jobs[j])) /\ Completed(jobs[j]).kind = jobs[j].kind
      /\ Completed(jobs[j]).stay = jobs[j].stay /\ Completed(jobs[j]).status = "done"
      /\ Completed(jobs[j]).claimant = Nobody /\ ~Completed(jobs[j]).expired
  BY <1>2, Parts, CloseFacts DEF Completed
<1>4. MayClose(j)
  <2>1. Settles(p)
    BY <1>1 DEF IInv, ClosersAreRight
  <2> QED BY <2>1 DEF Settles, MayClose, Passed
<1>5. /\ JobsOK(jobs') /\ \A i \in Job : GoesOn(i)
      /\ \A i \in Job, q \in Process : jobs'[i].claimant = q => jobs[i].claimant = q
  BY <1>1, <1>2, <1>3, <1>4, RowIsReplaced
<1>6. ProcessesOK' /\ process'[p].at = "idle" /\ \A q \in Process \ {p} : process'[q] = process[q]
  BY <1>1, Parts, RestsFacts
<1>7. ToldOK' /\ RunsOK' /\ \A i \in Job : told[i] \subseteq told'[i]
  BY <1>1, Parts DEF ToldOK, RunsOK
<1>8. /\ VisitOK' /\ visit' = visit /\ stay' = stay /\ waited' = waited
      /\ answering' = answering /\ overtaken' = overtaken
  BY <1>1, Parts, VisitStays
<1> QED BY <1>5, <1>6, <1>7, <1>8, QuietStep DEF Closing

LEMMA RunIsReplaced ==
    ASSUME RunsOK, NEW j \in Job, NEW status \in {"ended", "queued"},
           runs' = [runs EXCEPT ![j] = [status |-> status, by |-> Nobody]]
    PROVE  RunsOK'
BY DEF RunsOK

LEMMA RunIsTaken ==
    ASSUME RunsOK, NEW j \in Job, NEW p \in Process,
           runs' = [runs EXCEPT ![j] = [status |-> "running", by |-> p]]
    PROVE  RunsOK'
BY ReconfirmationAssumption DEF RunsOK

LEMMA EnqueueKeeps ==
    ASSUME IInv, NEW p \in Process, Enqueue(p)
    PROVE  IInv'
<1> DEFINE j == process[p].job
<1>1. /\ process[p].at = "enqueue" /\ UNCHANGED <<visit, jobs, told, faults, guestVars>>
      /\ Goes(p, "link") \/ Goes(p, "catch")
  BY DEF Enqueue
<1>2. j \in Job
  BY <1>1, Parts
<1>3. RunsOK'
  <2>1. CASE runs' = runs
    BY <2>1, Parts DEF RunsOK
  <2>2. CASE runs' = [runs EXCEPT ![j] = [status |-> "queued", by |-> Nobody]]
    BY <1>2, <2>2, Parts, RunIsReplaced
  <2> QED BY <2>1, <2>2 DEF Enqueue
<1>4. /\ ProcessesOK' /\ process'[p].at \in {"link", "catch"}
      /\ \A q \in Process \ {p} : process'[q] = process[q]
  BY <1>1, Parts, GoesFacts DEF Locations
<1>5. ToldOK' /\ \A i \in Job : told[i] \subseteq told'[i]
  BY <1>1, Parts DEF ToldOK
<1> QED BY <1>1, <1>3, <1>4, <1>5, ProcessKeeps

LEMMA InvokeKeeps ==
    ASSUME IInv, NEW p \in Process, Invoke(p)
    PROVE  IInv'
<1> DEFINE j == process[p].job
<1>1. /\ process[p].at = "invoke" /\ UNCHANGED <<visit, jobs, told, faults, guestVars>>
      /\ Goes(p, "agent") \/ Goes(p, "replay") \/ Goes(p, "catch")
  BY DEF Invoke
<1>2. j \in Job
  BY <1>1, Parts
<1>3. RunsOK'
  <2>1. CASE runs' = runs
    BY <2>1, Parts DEF RunsOK
  <2>2. CASE runs' = [runs EXCEPT ![j] = [status |-> "running", by |-> p]]
    BY <1>2, <2>2, Parts, RunIsTaken
  <2> QED BY <2>1, <2>2 DEF Invoke
<1>4. /\ ProcessesOK' /\ process'[p].at \in {"agent", "replay", "catch"}
      /\ \A q \in Process \ {p} : process'[q] = process[q]
  BY <1>1, Parts, GoesFacts DEF Locations
<1>5. ToldOK' /\ \A i \in Job : told[i] \subseteq told'[i]
  BY <1>1, Parts DEF ToldOK
<1> QED BY <1>1, <1>3, <1>4, <1>5, ProcessKeeps

LEMMA ExecuteQueuedRunKeeps ==
    ASSUME IInv, NEW p \in Process, ExecuteQueuedRun(p)
    PROVE  IInv'
<1> DEFINE j == process[p].job
<1>1. /\ process[p].at = "replay" /\ UNCHANGED <<visit, jobs, told, faults, guestVars>>
      /\ Goes(p, "agent") \/ Goes(p, "check") \/ Goes(p, "catch")
  BY DEF ExecuteQueuedRun
<1>2. j \in Job
  BY <1>1, Parts
<1>3. RunsOK'
  <2>1. CASE runs' = runs
    BY <2>1, Parts DEF RunsOK
  <2>2. CASE runs' = [runs EXCEPT ![j] = [status |-> "running", by |-> p]]
    BY <1>2, <2>2, Parts, RunIsTaken
  <2>3. CASE runs' = [runs EXCEPT ![j] = Ended]
    BY <1>2, <2>3, Parts, RunIsReplaced DEF Ended
  <2> QED BY <2>1, <2>2, <2>3 DEF ExecuteQueuedRun
<1>4. /\ ProcessesOK' /\ process'[p].at \in {"agent", "check", "catch"}
      /\ \A q \in Process \ {p} : process'[q] = process[q]
  BY <1>1, Parts, GoesFacts DEF Locations
<1>5. ToldOK' /\ \A i \in Job : told[i] \subseteq told'[i]
  BY <1>1, Parts DEF ToldOK
<1> QED BY <1>1, <1>3, <1>4, <1>5, ProcessKeeps

LEMMA CheckKeeps ==
    ASSUME IInv, NEW p \in Process, Check(p)
    PROVE  IInv'
<1> DEFINE j == process[p].job
<1> DEFINE location == IF DeliveryIsComplete(j) THEN "complete" ELSE "fallback"
<1>1. /\ process[p].at = "check" /\ Goes(p, location)
      /\ UNCHANGED <<visit, jobs, told, runs, faults, guestVars>>
  BY DEF Check
<1>2. j \in Job /\ location \in Locations /\ location \in {"complete", "fallback"}
  BY <1>1, Parts DEF Locations
<1>3. location = "complete" => DeliveryIsComplete(j)
  OBVIOUS
<1> HIDE DEF location
<1>4. /\ ProcessesOK' /\ process'[p].at = location /\ process'[p].job = j
      /\ \A q \in Process \ {p} : process'[q] = process[q]
  BY <1>1, <1>2, Parts, GoesFacts
<1>5. ToldOK' /\ RunsOK' /\ \A i \in Job : told[i] \subseteq told'[i]
  BY <1>1, Parts DEF ToldOK, RunsOK
<1>6. location = "complete" => Settles(p)'
  BY <1>1, <1>3, <1>4 DEF Settles, DeliveryIsComplete, Needed
<1> QED BY <1>1, <1>2, <1>4, <1>5, <1>6, ProcessKeeps

LEMMA FallbackKeeps ==
    ASSUME IInv, NEW p \in Process, Fallback(p)
    PROVE  IInv'
<1> DEFINE j == process[p].job
<1>1. /\ process[p].at = "fallback" /\ Goes(p, "complete")
      /\ told' = [told EXCEPT ![j] = told[j] \cup Needed(j)]
      /\ UNCHANGED <<visit, jobs, runs, faults, guestVars>>
  BY DEF Fallback
<1>2. j \in Job
  BY <1>1, Parts
<1>3. /\ ProcessesOK' /\ process'[p].at = "complete" /\ process'[p].job = j
      /\ \A q \in Process \ {p} : process'[q] = process[q]
  BY <1>1, Parts, GoesFacts DEF Locations
<1>4. /\ ToldOK' /\ RunsOK' /\ \A i \in Job : told[i] \subseteq told'[i]
      /\ Needed(j) \subseteq told'[j]
  BY <1>1, <1>2, Parts DEF ToldOK, RunsOK, Needed
<1>5. Settles(p)'
  BY <1>1, <1>3, <1>4 DEF Settles, DeliveryIsComplete, Needed
<1> QED BY <1>1, <1>2, <1>3, <1>4, <1>5, ProcessKeeps

LEMMA LinkKeeps ==
    ASSUME IInv, NEW p \in Process, Link(p)
    PROVE  IInv'
<1> DEFINE j == process[p].job
<1> DEFINE row == [jobs[j] EXCEPT !.linked = TRUE]
<1>1. /\ process[p].at = "link" /\ IsCurrent(p) /\ Rests(p)
      /\ jobs' = [jobs EXCEPT ![j] = row]
      /\ UNCHANGED <<visit, told, runs, faults, guestVars>>
  BY Parts DEF Link, JobsOK, RowType
<1>2. j \in Job /\ Standing(j) /\ jobs[j].status = "running"
  BY <1>1, CurrentJob
<1>3. /\ RowOK(row) /\ row.kind = jobs[j].kind /\ row.stay = jobs[j].stay
      /\ row.status = jobs[j].status /\ row.claimant = jobs[j].claimant
  <2>1. jobs[j] \in RowType /\ RowOK(jobs[j])
    BY <1>2, Parts DEF RowOK
  <2>2. row \in RowType
    BY <2>1 DEF RowType
  <2> QED BY <2>1, <2>2 DEF RowOK, RowType
<1> HIDE DEF row
<1>4. /\ JobsOK(jobs') /\ \A i \in Job : GoesOn(i)
      /\ \A i \in Job, q \in Process : jobs'[i].claimant = q => jobs[i].claimant = q
  BY <1>1, <1>2, <1>3, RowIsReplaced
<1>5. ProcessesOK' /\ process'[p].at = "idle" /\ \A q \in Process \ {p} : process'[q] = process[q]
  BY <1>1, Parts, RestsFacts
<1>6. ToldOK' /\ RunsOK' /\ \A i \in Job : told[i] \subseteq told'[i]
  BY <1>1, Parts DEF ToldOK, RunsOK
<1>7. /\ VisitOK' /\ visit' = visit /\ stay' = stay /\ waited' = waited
      /\ answering' = answering /\ overtaken' = overtaken
  BY <1>1, Parts, VisitStays
<1> QED BY <1>4, <1>5, <1>6, <1>7, QuietStep DEF Closing

\* A failure leaves the job open, for another attempt or for an operator.
LEMMA JobFails ==
    ASSUME IInv, NEW j \in Job, jobs[j].status = "running",
           jobs' = [jobs EXCEPT ![j] = Failed(jobs[j])]
    PROVE  /\ JobsOK(jobs') /\ \A i \in Job : GoesOn(i)
           /\ \A i \in Job, q \in Process : jobs'[i].claimant = q => jobs[i].claimant = q
<1>1. /\ RowOK(Failed(jobs[j])) /\ Failed(jobs[j]).kind = jobs[j].kind
      /\ Failed(jobs[j]).stay = jobs[j].stay /\ Failed(jobs[j]).claimant = Nobody
      /\ Failed(jobs[j]).status \in {"scheduled", "quarantined"} /\ ~Failed(jobs[j]).expired
  BY Parts, FailedFacts
<1> QED BY <1>1, RowIsReplaced DEF Standing

LEMMA FailureKeeps ==
    ASSUME IInv, NEW p \in Process, process[p].at # "idle", RecordFailure(p),
           UNCHANGED faults \/ \E kind : Fault(kind)
    PROVE  IInv'
<1> DEFINE j == process[p].job
<1>1. Rests(p) /\ UNCHANGED <<visit, told, runs, guestVars>>
  BY DEF RecordFailure
<1>2. /\ JobsOK(jobs') /\ \A i \in Job : GoesOn(i)
      /\ \A i \in Job, q \in Process : jobs'[i].claimant = q => jobs[i].claimant = q
  <2>1. CASE IsCurrent(p)
    BY <2>1, CurrentJob, JobFails DEF RecordFailure
  <2>2. CASE ~IsCurrent(p)
    BY <2>2, RowsStay DEF RecordFailure
  <2> QED BY <2>1, <2>2
<1>3. ProcessesOK' /\ process'[p].at = "idle" /\ \A q \in Process \ {p} : process'[q] = process[q]
  BY <1>1, Parts, RestsFacts
<1>4. ToldOK' /\ RunsOK' /\ \A i \in Job : told[i] \subseteq told'[i]
  BY <1>1, Parts DEF ToldOK, RunsOK
<1>5. /\ VisitOK' /\ visit' = visit /\ stay' = stay /\ waited' = waited
      /\ answering' = answering /\ overtaken' = overtaken
  BY <1>1, Parts, VisitStays
<1> QED BY <1>2, <1>3, <1>4, <1>5, QuietStep DEF Closing

\* A new row, or none if one of its kind is open.
LEMMA ScheduleFacts ==
    ASSUME IInv, NEW kind \in {"chase", "escalate"}, NEW s \in 0..MaxStays,
           HasRow(jobs, kind), jobs' = ScheduleUnlessOpen(jobs, kind, s),
           kind = "chase" => s = stay,
           kind = "escalate" /\ stay \notin overtaken => s = stay /\ visit # "confirmed"
    PROVE  /\ JobsOK(jobs') /\ \A i \in Job : GoesOn(i) \/ IsNew(i)
           /\ \A i \in Job, q \in Process : jobs'[i].claimant = q => jobs[i].claimant = q
<1>1. CASE jobs' = jobs
  BY <1>1, RowsStay
<1>2. CASE Unused(jobs) # {} /\ jobs' = Insert(jobs, kind, s)
  <2>1. PICK i \in Job : /\ jobs[i].kind = "none" /\ jobs'[i] = Row(kind, s)
                         /\ \A j \in Job \ {i} : jobs'[j] = jobs[j]
    BY <1>2, Parts, InsertFacts
  <2>2. JobsOK(jobs')
    BY <1>2, Parts, InsertFacts
  <2>3. /\ jobs'[i].kind = kind /\ jobs'[i].stay = s /\ jobs'[i].status = "scheduled"
        /\ jobs'[i].claimant = Nobody /\ ~jobs'[i].expired
    BY <2>1, RowFacts
  <2>4. IsNew(i)
    BY <2>1, <2>3 DEF IsNew
  <2>5. \A j \in Job \ {i} : GoesOn(j)
    BY <2>1 DEF GoesOn, Standing, IInv, RowsAreConsistent
  <2> QED BY <2>1, <2>2, <2>3, <2>4, <2>5, ReconfirmationAssumption
<1> QED BY <1>1, <1>2 DEF ScheduleUnlessOpen, HasRow

LEMMA ScheduleKeeps ==
    ASSUME IInv, NEW p \in Process, Schedule(p)
    PROVE  IInv'
<1> DEFINE j == process[p].job
<1>1. /\ process[p].at = "schedule" /\ Goes(p, "decide")
      /\ UNCHANGED <<visit, told, runs, faults, guestVars>>
  BY DEF Schedule
<1>2. process[p].follow \in 0..MaxStays
  BY Parts DEF ProcessesOK, ProcessType
<1>3. /\ JobsOK(jobs') /\ \A i \in Job : GoesOn(i) \/ IsNew(i)
      /\ \A i \in Job, q \in Process : jobs'[i].claimant = q => jobs[i].claimant = q
  <2>1. CASE jobs' = jobs
    BY <2>1, RowsStay
  <2>2. CASE /\ process[p].follow # 0
             /\ jobs' = ScheduleUnlessOpen(jobs, "escalate", process[p].follow)
    <3>1. stay \notin overtaken => process[p].follow = stay /\ visit # "confirmed"
      BY <1>1, <2>2 DEF IInv, FollowUpsAreCurrent
    <3>2. HasRow(jobs, "escalate")
      BY <2>2 DEF Schedule
    <3> QED BY <1>2, <2>2, <3>1, <3>2, ScheduleFacts
  <2> QED BY <2>1, <2>2 DEF Schedule
<1>4. /\ ProcessesOK' /\ process'[p].at = "decide" /\ process'[p].job = j
      /\ process'[p].acts = process[p].acts
      /\ \A q \in Process \ {p} : process'[q] = process[q]
  <2>1. process'[p].acts = process[p].acts
    BY <1>1, Parts DEF Goes, ProcessesOK, ProcessType
  <2> QED BY <1>1, <2>1, Parts, GoesFacts DEF Locations
<1>5. ToldOK' /\ RunsOK' /\ \A i \in Job : told[i] \subseteq told'[i]
  BY <1>1, Parts DEF ToldOK, RunsOK
<1>6. /\ VisitOK' /\ visit' = visit /\ stay' = stay /\ waited' = waited
      /\ answering' = answering /\ overtaken' = overtaken
  BY <1>1, Parts, VisitStays
<1>7. ASSUME Closing(p)', IsCurrent(p)' PROVE Settles(p)'
  <2>1. j \in Job /\ ~process[p].acts /\ jobs[j].claimant = p /\ visit # "cancelled"
    BY <1>1, <1>3, <1>4, <1>6, <1>7, Parts DEF Closing, IsCurrent
  <2>2. IsCurrent(p) /\ Settles(p)
    BY <1>1, <2>1 DEF IInv, ClosersAreRight, IsCurrent
  <2>3. jobs'[j].kind = jobs[j].kind
    BY <1>1, <1>3, <2>1, <2>2, CurrentJob DEF GoesOn, IsNew
  <2> QED BY <1>1, <1>4, <1>6, <2>2, <2>3 DEF Settles, Passed
<1> QED BY <1>3, <1>4, <1>5, <1>6, <1>7, QuietStep

-----------------------------------------------------------------------------
(***************************************************************************)
(* Executions of a tick's run                                              *)
(***************************************************************************)

LEMMA TakeRunKeeps ==
    ASSUME IInv, NEW p \in Process, NEW j \in Job, TakeRun(p, j)
    PROVE  IInv'
<1>1. UNCHANGED <<visit, jobs, told, faults, guestVars>>
  BY DEF TakeRun
<1>2. ToldOK' /\ \A i \in Job : told[i] \subseteq told'[i]
  BY <1>1, Parts DEF ToldOK
<1>3. CASE runs' = [runs EXCEPT ![j] = Ended] /\ UNCHANGED process
  <2>1. RunsOK'
    BY <1>3, Parts, RunIsReplaced DEF Ended
  <2>2. ProcessesOK' /\ process'[p].at \notin {"schedule", "decide", "complete"}
    BY <1>3, Parts DEF TakeRun, ProcessesOK, BusyHaveJobs
  <2> QED BY <1>1, <1>2, <1>3, <2>1, <2>2, ProcessKeeps
<1>4. CASE /\ runs' = [runs EXCEPT ![j] = [status |-> "running", by |-> p]]
           /\ process' = [process EXCEPT ![p] = [Resting EXCEPT !.at = "agent", !.job = j]]
  <2>1. RunsOK'
    BY <1>4, Parts, RunIsTaken
  <2>2. /\ ProcessesOK' /\ process'[p].at = "agent"
        /\ \A q \in Process \ {p} : process'[q] = process[q]
    BY <1>4, Parts, StartsFacts DEF Locations
  <2> QED BY <1>1, <1>2, <2>1, <2>2, ProcessKeeps
<1> QED BY <1>3, <1>4 DEF TakeRun

LEMMA NotifyKeeps ==
    ASSUME IInv, NEW p \in Process, NEW recipient, Notify(p, recipient)
    PROVE  IInv'
<1> DEFINE j == process[p].job
<1>1. /\ process[p].at = "agent" /\ recipient \in Needed(j)
      /\ told' = [told EXCEPT ![j] = told[j] \cup {recipient}]
      /\ UNCHANGED <<visit, jobs, runs, process, faults, guestVars>>
  BY DEF Notify
<1>2. j \in Job
  BY <1>1, Parts
<1>3. /\ ToldOK' /\ RunsOK' /\ ProcessesOK' /\ \A i \in Job : told[i] \subseteq told'[i]
  BY <1>1, <1>2, Parts DEF ToldOK, RunsOK, Needed, ProcessesOK, BusyHaveJobs
<1> QED BY <1>1, <1>3, ProcessKeeps

LEMMA EndTurnKeeps ==
    ASSUME IInv, NEW p \in Process, EndTurn(p)
    PROVE  IInv'
<1>1. /\ process[p].at = "agent" /\ Goes(p, "report")
      /\ UNCHANGED <<visit, jobs, told, runs, guestVars>>
      /\ (UNCHANGED faults \/ \E kind : Fault(kind))
  BY DEF EndTurn
<1>2. /\ ProcessesOK' /\ process'[p].at = "report"
      /\ \A q \in Process \ {p} : process'[q] = process[q]
  BY <1>1, Parts, GoesFacts DEF Locations
<1>3. ToldOK' /\ RunsOK' /\ \A i \in Job : told[i] \subseteq told'[i]
  BY <1>1, Parts DEF ToldOK, RunsOK
<1> QED BY <1>1, <1>2, <1>3, ProcessKeeps

LEMMA AgentFailsKeeps ==
    ASSUME IInv, NEW p \in Process, AgentFails(p)
    PROVE  IInv'
<1>1. /\ process[p].at = "agent" /\ Goes(p, "failing")
      /\ UNCHANGED <<visit, jobs, told, guestVars>>
      /\ (UNCHANGED faults \/ \E kind : Fault(kind))
  BY DEF AgentFails
<1>2. RunsOK'
  <2>1. CASE runs' = runs
    BY <2>1, Parts DEF RunsOK
  <2>2. CASE runs' = [runs EXCEPT ![process[p].job] = Ended]
    BY <1>1, <2>2, Parts, RunIsReplaced DEF Ended
  <2> QED BY <2>1, <2>2 DEF AgentFails
<1>3. /\ ProcessesOK' /\ process'[p].at = "failing"
      /\ \A q \in Process \ {p} : process'[q] = process[q]
  BY <1>1, Parts, GoesFacts DEF Locations
<1>4. ToldOK' /\ \A i \in Job : told[i] \subseteq told'[i]
  BY <1>1, Parts DEF ToldOK
<1> QED BY <1>1, <1>2, <1>3, <1>4, ProcessKeeps

\* A report closes the job only when everybody it is for was told.
LEMMA ReportKeeps ==
    ASSUME IInv, NEW p \in Process, Report(p)
    PROVE  IInv'
<1> DEFINE j == process[p].job
<1>1. /\ process[p].at = "report" /\ (Goes(p, "failing") \/ Goes(p, "finish"))
      /\ UNCHANGED <<visit, told, faults, guestVars>>
  BY DEF Report
<1>2. j \in Job
  BY <1>1, Parts
<1>3. RunsOK'
  <2>1. CASE runs' = runs
    BY <2>1, Parts DEF RunsOK
  <2>2. CASE runs' = [runs EXCEPT ![j] = Ended]
    BY <1>2, <2>2, Parts, RunIsReplaced DEF Ended
  <2> QED BY <2>1, <2>2 DEF Report
<1>4. /\ JobsOK(jobs') /\ \A i \in Job : GoesOn(i)
      /\ \A i \in Job, q \in Process : jobs'[i].claimant = q => jobs[i].claimant = q
  <2>1. CASE jobs' = jobs
    BY <2>1, RowsStay
  <2>2. CASE /\ Dispatched(j) /\ DeliveryIsComplete(j)
             /\ jobs' = [jobs EXCEPT ![j] = Completed(jobs[j])]
    <3>1. /\ RowOK(Completed(jobs[j])) /\ Completed(jobs[j]).kind = jobs[j].kind
          /\ Completed(jobs[j]).stay = jobs[j].stay /\ Completed(jobs[j]).status = "done"
          /\ Completed(jobs[j]).claimant = Nobody /\ ~Completed(jobs[j]).expired
      BY <1>2, Parts, CloseFacts DEF Completed
    <3>2. MayClose(j) /\ Standing(j)
      BY <2>2 DEF MayClose, Standing, Dispatched
    <3> QED BY <1>2, <2>2, <3>1, <3>2, RowIsReplaced
  <2> QED BY <2>1, <2>2 DEF Report
<1>5. /\ ProcessesOK' /\ process'[p].at \in {"failing", "finish"}
      /\ \A q \in Process \ {p} : process'[q] = process[q]
  BY <1>1, Parts, GoesFacts DEF Locations
<1>6. ToldOK' /\ \A i \in Job : told[i] \subseteq told'[i]
  BY <1>1, Parts DEF ToldOK
<1>7. /\ VisitOK' /\ visit' = visit /\ stay' = stay /\ waited' = waited
      /\ answering' = answering /\ overtaken' = overtaken
  BY <1>1, Parts, VisitStays
<1> QED BY <1>3, <1>4, <1>5, <1>6, <1>7, QuietStep DEF Closing

LEMMA ReturnsFacts ==
    ASSUME ProcessesOK, NEW p \in Process, process[p].at # "idle",
           NEW location \in {"check", "catch"}, Returns(p, location)
    PROVE  /\ ProcessesOK' /\ process'[p].at \in {"check", "catch", "idle"}
           /\ \A q \in Process \ {p} : process'[q] = process[q]
BY GoesFacts, RestsFacts DEF Returns, Locations

LEMMA FinishKeeps ==
    ASSUME IInv, NEW p \in Process, Finish(p)
    PROVE  IInv'
<1>1. /\ process[p].at = "finish" /\ UNCHANGED <<visit, jobs, told, faults, guestVars>>
      /\ (Returns(p, "check") \/ Goes(p, "failing"))
  BY DEF Finish
<1>2. RunsOK'
  <2>1. CASE runs' = runs
    BY <2>1, Parts DEF RunsOK
  <2>2. CASE runs' = [runs EXCEPT ![process[p].job] = Ended]
    BY <1>1, <2>2, Parts, RunIsReplaced DEF Ended
  <2> QED BY <2>1, <2>2 DEF Finish
<1>3. /\ ProcessesOK' /\ process'[p].at \in {"check", "catch", "idle", "failing"}
      /\ \A q \in Process \ {p} : process'[q] = process[q]
  BY <1>1, Parts, GoesFacts, ReturnsFacts DEF Locations
<1>4. ToldOK' /\ \A i \in Job : told[i] \subseteq told'[i]
  BY <1>1, Parts DEF ToldOK
<1> QED BY <1>1, <1>2, <1>3, <1>4, ProcessKeeps

LEMMA FailDispatchedKeeps ==
    ASSUME IInv, NEW p \in Process, FailDispatched(p)
    PROVE  IInv'
<1> DEFINE j == process[p].job
<1>1. /\ process[p].at = "failing" /\ Returns(p, "catch")
      /\ UNCHANGED <<visit, told, runs, faults, guestVars>>
  BY DEF FailDispatched
<1>2. /\ JobsOK(jobs') /\ \A i \in Job : GoesOn(i)
      /\ \A i \in Job, q \in Process : jobs'[i].claimant = q => jobs[i].claimant = q
  <2>1. CASE jobs' = jobs
    BY <2>1, RowsStay
  <2>2. CASE Dispatched(j) /\ jobs' = [jobs EXCEPT ![j] = Failed(jobs[j])]
    BY <1>1, <2>2, Parts, JobFails DEF Dispatched
  <2> QED BY <2>1, <2>2 DEF FailDispatched
<1>3. /\ ProcessesOK' /\ process'[p].at \in {"check", "catch", "idle"}
      /\ \A q \in Process \ {p} : process'[q] = process[q]
  BY <1>1, Parts, ReturnsFacts
<1>4. ToldOK' /\ RunsOK' /\ \A i \in Job : told[i] \subseteq told'[i]
  BY <1>1, Parts DEF ToldOK, RunsOK
<1>5. /\ VisitOK' /\ visit' = visit /\ stay' = stay /\ waited' = waited
      /\ answering' = answering /\ overtaken' = overtaken
  BY <1>1, Parts, VisitStays
<1> QED BY <1>2, <1>3, <1>4, <1>5, QuietStep DEF Closing

-----------------------------------------------------------------------------
(***************************************************************************)
(* Nobody's steps: leases, operators, time, follow-ups of guests and hosts *)
(***************************************************************************)

\* Of QuietStep, when no process moves.
LEMMA TableStep ==
    ASSUME IInv, VisitOK', visit' = visit, stay' = stay, overtaken' = overtaken,
           waited \subseteq waited', answering' => answering, UNCHANGED <<told, process>>, RunsOK',
           JobsOK(jobs'), \A j \in Job : GoesOn(j) \/ IsNew(j),
           \A j \in Job, q \in Process : jobs'[j].claimant = q => jobs[j].claimant = q
    PROVE  IInv'
<1>1. ToldOK' /\ ProcessesOK' /\ \A j \in Job : told[j] \subseteq told'[j]
  BY Parts DEF ToldOK, ProcessesOK, BusyHaveJobs
<1>2. Nobody \notin Process
  BY ReconfirmationAssumption
<1>3. \A q \in Process \ {Nobody} :
          /\ process'[q] = process[q]
          /\ \A j \in Job : jobs'[j].claimant = q => jobs[j].claimant = q
  OBVIOUS
<1> QED BY <1>1, <1>2, <1>3, QuietStep

LEMMA LoseRunKeeps ==
    ASSUME IInv, NEW j \in Job, LoseRun(j)
    PROVE  IInv'
<1>1. /\ UNCHANGED <<visit, jobs, told, process, guestVars>>
      /\ (UNCHANGED faults \/ \E kind : Fault(kind))
  BY DEF LoseRun
<1>2. RunsOK'
  BY Parts, RunIsReplaced DEF LoseRun
<1>3. /\ VisitOK' /\ visit' = visit /\ stay' = stay /\ waited' = waited
      /\ answering' = answering /\ overtaken' = overtaken
  BY <1>1, Parts, VisitStays
<1> QED BY <1>1, <1>2, <1>3, RowsStay, TableStep

LEMMA LeasePassesKeeps ==
    ASSUME IInv, NEW j \in Job, LeasePasses(j)
    PROVE  IInv'
<1> DEFINE row == [jobs[j] EXCEPT !.expired = TRUE]
<1>1. /\ jobs[j].status = "running" /\ jobs' = [jobs EXCEPT ![j] = row]
      /\ UNCHANGED <<visit, told, runs, process, guestVars>>
      /\ (UNCHANGED faults \/ \E kind : Fault(kind))
  BY Parts DEF LeasePasses, JobsOK, RowType
<1>2. /\ RowOK(row) /\ row.kind = jobs[j].kind /\ row.stay = jobs[j].stay
      /\ row.status = jobs[j].status /\ row.claimant = jobs[j].claimant
  <2>1. jobs[j] \in RowType /\ RowOK(jobs[j])
    BY Parts DEF RowOK
  <2>2. row \in RowType
    BY <2>1 DEF RowType
  <2> QED BY <2>1, <2>2 DEF RowOK, RowType
<1> HIDE DEF row
<1>3. /\ JobsOK(jobs') /\ \A i \in Job : GoesOn(i)
      /\ \A i \in Job, q \in Process : jobs'[i].claimant = q => jobs[i].claimant = q
  BY <1>1, <1>2, RowIsReplaced DEF Standing
<1>4. /\ VisitOK' /\ visit' = visit /\ stay' = stay /\ waited' = waited
      /\ answering' = answering /\ overtaken' = overtaken /\ RunsOK'
  BY <1>1, Parts, VisitStays DEF RunsOK
<1> QED BY <1>1, <1>3, <1>4, TableStep

LEMMA ReplayKeeps ==
    ASSUME IInv, NEW j \in Job, Replay(j)
    PROVE  IInv'
<1> DEFINE row == Close(jobs[j], "scheduled")
<1>1. /\ jobs[j].status = "quarantined" /\ jobs' = [jobs EXCEPT ![j] = row]
      /\ UNCHANGED <<visit, told, runs, process, faults, guestVars>>
  BY DEF Replay, guestVars
<1>2. /\ RowOK(row) /\ row.kind = jobs[j].kind /\ row.stay = jobs[j].stay
      /\ row.status = "scheduled" /\ row.claimant = Nobody /\ ~row.expired
  BY Parts, CloseFacts
<1> HIDE DEF row
<1>3. /\ JobsOK(jobs') /\ \A i \in Job : GoesOn(i)
      /\ \A i \in Job, q \in Process : jobs'[i].claimant = q => jobs[i].claimant = q
  BY <1>1, <1>2, RowIsReplaced DEF Standing
<1>4. /\ VisitOK' /\ visit' = visit /\ stay' = stay /\ waited' = waited
      /\ answering' = answering /\ overtaken' = overtaken /\ RunsOK'
  BY <1>1, Parts, VisitStays DEF RunsOK
<1> QED BY <1>1, <1>3, <1>4, TableStep

LEMMA DayPassesKeeps ==
    ASSUME IInv, NEW s \in 1..stay, DayPasses(s)
    PROVE  IInv'
<1>1. /\ waited' = waited \cup {s}
      /\ UNCHANGED <<visit, stay, overtaken, jobs, told, runs, process, answering, syncing, faults>>
  BY DEF DayPasses
<1>2. VisitOK' /\ RunsOK'
  BY <1>1, Parts DEF VisitOK, RunsOK
<1> QED BY <1>1, <1>2, RowsStay, TableStep

\* The guest's answer settles the visit before it cancels the escalation.
LEMMA CancelEscalationKeeps ==
    ASSUME IInv, CancelEscalation
    PROVE  IInv'
<1> DEFINE S == Open(jobs, "escalate")
<1>1. /\ answering /\ answering' = FALSE /\ jobs' = Cancel(jobs, S)
      /\ UNCHANGED <<visit, stay, waited, overtaken, told, runs, process, syncing, faults>>
  BY DEF CancelEscalation
<1>2. stay \notin overtaken => visit # "escalated"
  BY <1>1 DEF IInv, AnswersStand
<1>3. /\ JobsOK(jobs')
      /\ \A j \in Job : /\ jobs'[j].kind = jobs[j].kind /\ jobs'[j].stay = jobs[j].stay
                        /\ j \in S => /\ jobs'[j].status = "cancelled"
                                      /\ jobs'[j].claimant = Nobody /\ ~jobs'[j].expired
                        /\ j \notin S => jobs'[j] = jobs[j]
  BY <1>1, Parts, CancelFacts
<1>4. \A j \in S : jobs[j].kind = "escalate" /\ Standing(j)
  BY DEF Open, Standing
<1> HIDE DEF S
<1>5. \A j \in Job : GoesOn(j)
  BY <1>2, <1>3, <1>4 DEF GoesOn, Standing, MayClose, IInv, RowsAreConsistent
<1>6. \A j \in Job, q \in Process : jobs'[j].claimant = q => jobs[j].claimant = q
  BY <1>3, ReconfirmationAssumption
<1>7. VisitOK' /\ RunsOK'
  BY <1>1, Parts DEF VisitOK, RunsOK
<1> QED BY <1>1, <1>3, <1>5, <1>6, <1>7, TableStep

LEMMA SyncChaseJobKeeps ==
    ASSUME IInv, SyncChaseJob
    PROVE  IInv'
<1>1. /\ syncing' = FALSE /\ HasRow(jobs, "chase")
      /\ UNCHANGED <<visit, stay, waited, overtaken, told, runs, process, answering, faults>>
  BY DEF SyncChaseJob
<1>2. /\ JobsOK(jobs') /\ \A i \in Job : GoesOn(i) \/ IsNew(i)
      /\ \A i \in Job, q \in Process : jobs'[i].claimant = q => jobs[i].claimant = q
  <2>1. CASE jobs' = jobs
    BY <2>1, RowsStay
  <2>2. CASE jobs' = ScheduleUnlessOpen(jobs, "chase", stay)
    <3>1. stay \in 0..MaxStays
      BY Parts, ReconfirmationAssumption DEF VisitOK
    <3> QED BY <1>1, <2>2, <3>1, ScheduleFacts
  <2> QED BY <2>1, <2>2 DEF SyncChaseJob
<1>3. RunsOK'
  BY <1>1, Parts DEF RunsOK
<1>4. VisitOK'
  <2>1. syncing' \in BOOLEAN
    BY <1>1
  <2> QED BY <1>1, <2>1, Parts, VisitFacts DEF VisitOK
<1> QED BY <1>1, <1>2, <1>3, <1>4, TableStep

-----------------------------------------------------------------------------
(***************************************************************************)
(* The steps that change the visit                                         *)
(***************************************************************************)

LEMMA TypeIsKept ==
    ASSUME VisitOK', JobsOK(jobs'), ToldOK', RunsOK', ProcessesOK'
    PROVE  (TypeOK /\ BusyHaveJobs)'
BY DEF JobsOK, RowOK, TypeOK, VisitOK, RowType, ToldOK, RunsOK, ProcessesOK, ProcessType

\* Claims are of rows that run.
LEMMA ClaimsAreRunning ==
    ASSUME JobsOK(jobs'), ProcessesOK', NEW p \in Process, process'[p].at # "idle", IsCurrent(p)'
    PROVE  /\ process'[p].job \in Job /\ jobs'[process'[p].job].status = "running"
           /\ visit' # "cancelled"
BY ReconfirmationAssumption DEF JobsOK, RowOK, ProcessesOK, BusyHaveJobs, IsCurrent

\* A guest was asked by a chase that runs, hosts are called in by an escalation.
LEMMA PrepareKeeps ==
    ASSUME IInv, NEW p \in Process, Prepare(p)
    PROVE  IInv'
<1> DEFINE j == process[p].job
<1> DEFINE target == IF jobs[j].kind = "chase" THEN "reconfirm_pending" ELSE "escalated"
<1> DEFINE follow == IF jobs[j].kind = "chase" /\ visit' = "reconfirm_pending" THEN stay ELSE 0
<1> DEFINE busy == [process[p] EXCEPT !.at = "schedule", !.acts = visit' = target,
                                      !.changed = visit' # visit, !.follow = follow]
<1>1. /\ process[p].at = "prepare" /\ IsCurrent(p) /\ visit' = Transition(jobs[j].kind)
      /\ UNCHANGED <<jobs, told, runs, faults, guestVars>>
  BY DEF Prepare
<1>2. process' = [process EXCEPT ![p] = busy]
  BY Parts DEF Prepare, ProcessesOK, ProcessType
<1>3. /\ j \in Job /\ jobs[j].status = "running" /\ Standing(j) /\ jobs[j].claimant = p
      /\ jobs[j].kind \in {"chase", "escalate"} /\ visit # "cancelled"
  BY <1>1, CurrentJob
<1>4. /\ visit' \in {visit, target}
      /\ visit' = "confirmed" => visit = "confirmed"
      /\ visit' # "cancelled"
      /\ visit \in {"reconfirmed", "cancelled"} => visit' = visit
  BY <1>1, <1>3 DEF Transition
<1>5. VisitOK'
  <2>1. /\ stay' = stay /\ waited' = waited /\ overtaken' = overtaken /\ faults' = faults
        /\ answering' \in BOOLEAN /\ syncing' \in BOOLEAN
    BY <1>1, Parts DEF VisitOK, guestVars
  <2>2. visit' \in {"confirmed", "reconfirm_pending", "reconfirmed", "escalated", "cancelled"}
    BY <1>1, Parts DEF VisitOK, Transition
  <2> QED BY <2>1, <2>2, Parts, VisitFacts
<1>6. busy \in ProcessType
  <2>1. follow \in 0..MaxStays
    BY Parts, ReconfirmationAssumption DEF VisitOK
  <2> HIDE DEF follow, target
  <2>2. process[p] \in ProcessType
    BY Parts DEF ProcessesOK
  <2> QED BY <2>1, <2>2 DEF ProcessType, Locations
<1>7. /\ busy.at = "schedule" /\ busy.job = j /\ busy.acts = (visit' = target)
      /\ busy.follow = follow
  BY Parts DEF ProcessesOK, ProcessType
<1> HIDE DEF busy
<1>8. process'[p] = busy /\ \A q \in Process \ {p} : process'[q] = process[q]
  BY <1>2, Parts DEF ProcessesOK
<1>9. ProcessesOK'
  BY <1>2, <1>3, <1>6, <1>7, <1>8, Parts DEF ProcessesOK, BusyHaveJobs
<1>10. JobsOK(jobs') /\ ToldOK' /\ RunsOK'
  BY <1>1, Parts DEF ToldOK, RunsOK
<1>11. (TypeOK /\ BusyHaveJobs)'
  BY <1>5, <1>9, <1>10, TypeIsKept
<1>12. RowsAreConsistent' /\ ChasesAreCurrent' /\ EscalationsWaited'
  BY <1>1 DEF IInv, RowsAreConsistent, ChasesAreCurrent, EscalationsWaited, Standing, guestVars
<1>13. FollowUpsAreCurrent'
  BY <1>1, <1>4, <1>7, <1>8 DEF IInv, FollowUpsAreCurrent, guestVars
<1>14. EscalationsAreCurrent' /\ AnswersStand'
  BY <1>1, <1>4 DEF IInv, EscalationsAreCurrent, AnswersStand, Standing, guestVars
<1>15. jobs[j].kind = "escalate" /\ stay \notin overtaken
       => jobs[j].stay = stay /\ visit # "confirmed"
  BY <1>3 DEF IInv, EscalationsAreCurrent
<1>16. ClosersAreRight'
  <2>1. SUFFICES ASSUME NEW q \in Process, Closing(q)', IsCurrent(q)' PROVE Settles(q)'
    BY DEF ClosersAreRight, Closing
  <2>2. CASE q = p
    <3>1. visit' # target
      BY <1>7, <1>8, <2>1, <2>2 DEF Closing
    <3>2. jobs[j].kind = "chase" \/ stay \notin overtaken => visit' \in Passed(jobs[j].kind)
      BY <1>1, <1>3, <1>5, <1>15, <3>1 DEF Transition, Passed, VisitOK
    <3> QED BY <1>1, <1>7, <1>8, <2>2, <3>2 DEF Settles, guestVars
  <2>3. CASE q # p
    <3>1. process'[q] = process[q]
      BY <1>8, <2>3
    <3>2. Settles(q)
      BY <1>1, <1>3, <2>1, <3>1 DEF IInv, ClosersAreRight, Closing, IsCurrent
    <3>3. visit \in {"reconfirmed", "escalated"} => visit' = visit
      BY <1>1 DEF Transition
    <3> QED BY <1>1, <3>1, <3>2, <3>3 DEF Settles, Passed, DeliveryIsComplete, Needed, guestVars
  <2> QED BY <2>2, <2>3
<1>17. \A i \in Job : Kept(i) => Kept(i)'
  BY <1>1 DEF Kept, DeliveryIsComplete, Needed
<1>18. RequestsAreKept'
  <2>1. SUFFICES ASSUME visit' = "reconfirm_pending"
                 PROVE  \E i \in Job : jobs[i].kind = "chase" /\ jobs[i].stay = stay /\ Kept(i)
    BY <1>1, <1>17 DEF RequestsAreKept, guestVars
  <2>2. CASE visit' = visit
    BY <2>1, <2>2 DEF IInv, RequestsAreKept
  <2>3. CASE visit' # visit
    <3>1. jobs[j].kind = "chase"
      BY <1>1, <2>1, <2>3 DEF Transition
    <3> QED BY <1>3, <3>1 DEF IInv, ChasesAreCurrent, Standing, Kept
  <2> QED BY <2>2, <2>3
<1>19. EscalationsAreKept'
  <2>1. SUFFICES ASSUME stay \notin overtaken, visit' = "escalated"
                 PROVE  \E i \in Job : jobs[i].kind = "escalate" /\ jobs[i].stay = stay /\ Kept(i)
    BY <1>1, <1>17 DEF EscalationsAreKept, guestVars
  <2>2. CASE visit' = visit
    BY <2>1, <2>2 DEF IInv, EscalationsAreKept
  <2>3. CASE visit' # visit
    <3>1. jobs[j].kind = "escalate"
      BY <1>1, <2>1, <2>3 DEF Transition
    <3> QED BY <1>3, <1>15, <2>1, <3>1 DEF Standing, Kept
  <2> QED BY <2>2, <2>3
<1> QED BY <1>11, <1>12, <1>13, <1>14, <1>16, <1>18, <1>19 DEF IInv

LEMMA AnswerKeeps ==
    ASSUME IInv, Answer
    PROVE  IInv'
<1>1. /\ visit = "reconfirm_pending" /\ visit' = "reconfirmed" /\ answering' = TRUE
      /\ UNCHANGED <<stay, waited, overtaken, jobs, told, runs, process, syncing, faults>>
  BY DEF Answer
<1>2. (TypeOK /\ BusyHaveJobs)'
  BY <1>1, Parts, TypeIsKept DEF VisitOK, ToldOK, RunsOK, ProcessesOK, BusyHaveJobs
<1>3. RowsAreConsistent' /\ ChasesAreCurrent' /\ EscalationsWaited'
  BY <1>1 DEF IInv, RowsAreConsistent, ChasesAreCurrent, EscalationsWaited, Standing
<1>4. FollowUpsAreCurrent' /\ EscalationsAreCurrent' /\ AnswersStand'
  BY <1>1 DEF IInv, FollowUpsAreCurrent, EscalationsAreCurrent, AnswersStand, Standing
<1>5. ClosersAreRight'
  BY <1>1 DEF ClosersAreRight, Settles, Passed
<1>6. RequestsAreKept' /\ EscalationsAreKept'
  BY <1>1 DEF RequestsAreKept, EscalationsAreKept
<1> QED BY <1>2, <1>3, <1>4, <1>5, <1>6 DEF IInv

\* Nothing of the stay before stays open, so nobody holds a claim any more.
LEMMA RescheduleKeeps ==
    ASSUME IInv, Reschedule
    PROVE  IInv'
<1> DEFINE open == {j \in Job : jobs[j].status \in {"scheduled", "running", "quarantined"}}
<1> DEFINE table == Cancel(jobs, open)
<1>1. /\ visit' = "confirmed" /\ stay < MaxStays /\ stay' = stay + 1
      /\ overtaken' \in {overtaken, overtaken \cup {stay + 1}}
      /\ stay + 1 \notin overtaken' => ~FollowingUp
      /\ Unused(jobs) # {} /\ jobs' = Insert(table, "chase", stay + 1)
      /\ syncing' = TRUE /\ UNCHANGED <<waited, told, runs, process, answering, faults>>
  BY DEF Reschedule, Rebooks
<1>2. /\ JobsOK(table)
      /\ \A j \in Job : /\ table[j].kind = jobs[j].kind
                        /\ table[j].status \notin {"scheduled", "running", "quarantined"}
                        /\ ~table[j].expired
                        /\ jobs[j].kind = "none" => table[j].status = "done"
  BY Parts, CancelFacts DEF IInv, RowsAreConsistent
<1> HIDE DEF table
<1>3. Unused(table) # {}
  BY <1>1, <1>2 DEF Unused
<1>4. /\ stay + 1 \in 1..MaxStays /\ stay + 1 \in 0..MaxStays /\ waited \subseteq 1..(stay + 1)
      /\ overtaken' \subseteq 1..(stay + 1)
  BY <1>1, Parts, ReconfirmationAssumption DEF VisitOK
<1>5. PICK i \in Job : /\ table[i].kind = "none" /\ jobs'[i] = Row("chase", stay + 1)
                       /\ \A j \in Job \ {i} : jobs'[j] = table[j]
  BY <1>1, <1>2, <1>3, <1>4, InsertFacts
<1>6. JobsOK(jobs')
  BY <1>1, <1>2, <1>3, <1>4, InsertFacts
<1>7. /\ jobs'[i].kind = "chase" /\ jobs'[i].stay = stay + 1 /\ jobs'[i].status = "scheduled"
      /\ jobs'[i].claimant = Nobody /\ ~jobs'[i].expired
  BY <1>4, <1>5, RowFacts
<1>8. \A j \in Job \ {i} : /\ jobs'[j].kind = jobs[j].kind /\ ~jobs'[j].expired
                           /\ jobs'[j].status \notin {"scheduled", "running", "quarantined"}
                           /\ jobs[j].kind = "none" => jobs'[j].status = "done"
  BY <1>2, <1>5
<1>9. VisitOK'
  <2>1. waited' \subseteq 1..stay' /\ overtaken' \subseteq 1..stay' /\ stay' \in 1..MaxStays
    BY <1>1, <1>4
  <2>2. answering' \in BOOLEAN /\ syncing' \in BOOLEAN /\ faults' \in 0..MaxFaults
    BY <1>1, Parts DEF VisitOK
  <2> QED BY <1>1, <2>1, <2>2 DEF VisitOK
<1>10. ToldOK' /\ RunsOK' /\ ProcessesOK'
  BY <1>1, Parts DEF ToldOK, RunsOK, ProcessesOK, BusyHaveJobs
<1>11. (TypeOK /\ BusyHaveJobs)'
  BY <1>6, <1>9, <1>10, TypeIsKept
<1>12. RowsAreConsistent' /\ EscalationsWaited'
  BY <1>7, <1>8 DEF RowsAreConsistent, EscalationsWaited
<1>13. ChasesAreCurrent' /\ EscalationsAreCurrent'
  BY <1>1, <1>7, <1>8 DEF ChasesAreCurrent, EscalationsAreCurrent, Standing
<1>14. FollowUpsAreCurrent' /\ AnswersStand'
  BY <1>1 DEF FollowUpsAreCurrent, AnswersStand, FollowingUp
<1>15. ClosersAreRight'
  <2>1. SUFFICES ASSUME NEW q \in Process, Closing(q)', IsCurrent(q)' PROVE FALSE
    BY DEF ClosersAreRight, Closing
  <2>2. process'[q].at # "idle"
    BY <2>1 DEF Closing
  <2>3. process'[q].job \in Job /\ jobs'[process'[q].job].status = "running"
    BY <1>6, <1>10, <2>1, <2>2, ClaimsAreRunning
  <2> QED BY <1>7, <1>8, <2>3
<1>16. RequestsAreKept' /\ EscalationsAreKept'
  BY <1>1 DEF RequestsAreKept, EscalationsAreKept
<1> QED BY <1>11, <1>12, <1>13, <1>14, <1>15, <1>16 DEF IInv

LEMMA WithdrawKeeps ==
    ASSUME IInv, Withdraw
    PROVE  IInv'
<1> DEFINE open == {j \in Job : jobs[j].status \in {"scheduled", "running", "quarantined"}}
<1>1. /\ visit' = "cancelled" /\ jobs' = Cancel(jobs, open)
      /\ runs' = [j \in Job |-> IF runs[j].status \in {"queued", "running"}
                                THEN Ended ELSE runs[j]]
      /\ UNCHANGED <<stay, waited, overtaken, told, process, answering, syncing, faults>>
  BY DEF Withdraw
<1>2. /\ JobsOK(jobs')
      /\ \A j \in Job : /\ jobs'[j].kind = jobs[j].kind /\ ~jobs'[j].expired
                        /\ jobs'[j].status \notin {"scheduled", "running", "quarantined"}
                        /\ jobs[j].kind = "none" => jobs'[j].status = "done"
  BY <1>1, Parts, CancelFacts DEF IInv, RowsAreConsistent
<1>3. VisitOK'
  BY <1>1, Parts, VisitFacts DEF VisitOK
<1>4. RunsOK'
  BY <1>1, Parts DEF RunsOK, Ended
<1>5. ToldOK' /\ ProcessesOK'
  BY <1>1, Parts DEF ToldOK, ProcessesOK, BusyHaveJobs
<1>6. (TypeOK /\ BusyHaveJobs)'
  BY <1>2, <1>3, <1>4, <1>5, TypeIsKept
<1>7. RowsAreConsistent' /\ EscalationsWaited' /\ ChasesAreCurrent' /\ EscalationsAreCurrent'
  BY <1>2 DEF RowsAreConsistent, EscalationsWaited, ChasesAreCurrent,
     EscalationsAreCurrent, Standing
<1>8. FollowUpsAreCurrent' /\ AnswersStand'
  BY <1>1 DEF IInv, FollowUpsAreCurrent, AnswersStand
<1>9. ClosersAreRight' /\ RequestsAreKept' /\ EscalationsAreKept'
  BY <1>1 DEF ClosersAreRight, IsCurrent, RequestsAreKept, EscalationsAreKept
<1> QED BY <1>6, <1>7, <1>8, <1>9 DEF IInv

-----------------------------------------------------------------------------
(***************************************************************************)
(* Every step                                                              *)
(***************************************************************************)

LEMMA InitEstablishes ==
    ASSUME Init
    PROVE  IInv
<1>1. JobsOK(jobs)
  <2>1. 1 \in 0..MaxStays /\ 0 \in 0..MaxStays
    BY ReconfirmationAssumption
  <2>2. RowOK(Row("chase", 1)) /\ RowOK(Row("none", 0))
    BY <2>1, RowFacts
  <2>3. RowOK(Close(Row("none", 0), "done"))
    BY <2>2, CloseFacts
  <2>4. [Row("none", 0) EXCEPT !.status = "done"] = Close(Row("none", 0), "done")
    BY DEF Close, Row
  <2> QED BY <2>2, <2>3, <2>4 DEF Init, JobsOK, RowOK
<1>2. /\ \A j \in Job : j # 1 => jobs[j].kind = "none" /\ jobs[j].status = "done"
                                 /\ ~jobs[j].expired
      /\ 1 \in Job => jobs[1].kind = "chase" /\ jobs[1].stay = 1
                      /\ jobs[1].status = "scheduled" /\ ~jobs[1].expired
  BY DEF Init, Row
<1>3. VisitOK
  <2>1. stay \in 1..MaxStays /\ faults \in 0..MaxFaults
    BY ReconfirmationAssumption DEF Init
  <2> QED BY <2>1 DEF Init, VisitOK
<1>4. ToldOK /\ RunsOK
  BY DEF Init, ToldOK, RunsOK, Ended
<1>5. Resting \in ProcessType
  BY ReconfirmationAssumption DEF Resting, ProcessType, Locations
<1>6. \A p \in Process : process[p] = Resting /\ process[p].at = "idle"
  BY DEF Init, Resting
<1>7. ProcessesOK
  BY <1>5, <1>6 DEF Init, ProcessesOK, BusyHaveJobs
<1>8. TypeOK /\ BusyHaveJobs
  BY <1>1, <1>3, <1>4, <1>7, TypeParts
<1>9. RowsAreConsistent /\ ChasesAreCurrent /\ EscalationsAreCurrent /\ EscalationsWaited
  BY <1>2 DEF Init, RowsAreConsistent, ChasesAreCurrent, EscalationsAreCurrent,
     EscalationsWaited, Standing
<1>10. FollowUpsAreCurrent /\ AnswersStand /\ ClosersAreRight
  BY <1>6 DEF Init, FollowUpsAreCurrent, AnswersStand, ClosersAreRight
<1>11. RequestsAreKept /\ EscalationsAreKept
  BY DEF Init, RequestsAreKept, EscalationsAreKept
<1> QED BY <1>8, <1>9, <1>10, <1>11 DEF IInv

LEMMA StutteringKeeps ==
    ASSUME IInv, UNCHANGED vars
    PROVE  IInv'
<1>1. UNCHANGED <<visit, stay, waited, overtaken, jobs, told, runs, process, answering,
                   syncing, faults>>
  BY DEF vars
<1>2. VisitOK' /\ RunsOK'
  BY <1>1, Parts DEF VisitOK, RunsOK
<1> QED BY <1>1, <1>2, RowsStay, TableStep

LEMMA StepKeeps ==
    ASSUME IInv, [Next]_vars
    PROVE  IInv'
<1>1. ASSUME NEW p \in Cron \cup Runtime, NEW j \in Job, Claim(p, j) PROVE IInv'
  BY <1>1, ClaimKeeps DEF Process
<1>2. ASSUME NEW p \in Drain, NEW j \in Job, TakeRun(p, j) PROVE IInv'
  BY <1>2, TakeRunKeeps DEF Process
<1>3. ASSUME NEW p \in Process, DispatchStep(p) PROVE IInv'
  <2>1. CASE Catch(p)
    <3>1. process[p].at # "idle" /\ RecordFailure(p) /\ UNCHANGED faults
      BY <2>1 DEF Catch
    <3> QED BY <3>1, FailureKeeps
  <2> QED BY <1>3, <2>1, PrepareKeeps, ScheduleKeeps, DecideKeeps, CompleteKeeps, EnqueueKeeps,
             LinkKeeps, InvokeKeeps, ExecuteQueuedRunKeeps, CheckKeeps, FallbackKeeps,
             StopKeeps
             DEF DispatchStep
<1>4. ASSUME NEW p \in Process, ExecutionStep(p) PROVE IInv'
  BY <1>4, NotifyKeeps, EndTurnKeeps, AgentFailsKeeps, ReportKeeps, FinishKeeps,
     FailDispatchedKeeps DEF ExecutionStep
<1>5. ASSUME NEW p \in Process, Throw(p) PROVE IInv'
  <2>1. process[p].at # "idle" /\ RecordFailure(p) /\ Fault("error")
    BY <1>5 DEF Throw, Working
  <2> QED BY <2>1, FailureKeeps
<1>6. ASSUME NEW p \in Process, Crash(p) PROVE IInv'
  BY <1>6, StopKeeps
<1>7. ASSUME NEW j \in Job, LoseRun(j) \/ LeasePasses(j) \/ Replay(j) PROVE IInv'
  BY <1>7, LoseRunKeeps, LeasePassesKeeps, ReplayKeeps
<1>8. ASSUME NEW s \in 1..stay, DayPasses(s) PROVE IInv'
  BY <1>8, DayPassesKeeps
<1> QED BY <1>1, <1>2, <1>3, <1>4, <1>5, <1>6, <1>7, <1>8, AnswerKeeps, CancelEscalationKeeps,
           RescheduleKeeps, SyncChaseJobKeeps, WithdrawKeeps, StutteringKeeps DEF Next

\* Only a job of a stay that had its day calls in the hosts.
LEMMA StepEscalates ==
    ASSUME IInv, [Next]_vars
    PROVE  visit' = "escalated" /\ visit # "escalated" => stay \in waited \cup overtaken
<1> SUFFICES ASSUME visit' = "escalated", visit # "escalated", stay \notin overtaken
              PROVE  stay \in waited
  OBVIOUS
<1>1. \E p \in Process : Prepare(p)
  BY DEF Next, vars, DispatchStep, ExecutionStep, Claim, TakeRun, Schedule, Decide, Complete,
     Enqueue, Link, Invoke, ExecuteQueuedRun, Check, Fallback, Catch, Skip, Abandon, Throw,
     RecordFailure, Crash, Notify, EndTurn, AgentFails, Report, Finish, FailDispatched,
     LoseRun, LeasePasses, Replay,
     Answer, CancelEscalation, Reschedule, SyncChaseJob, Withdraw, DayPasses
<1>2. PICK p \in Process : Prepare(p)
  BY <1>1
<1> DEFINE j == process[p].job
<1>3. process[p].at # "idle" /\ IsCurrent(p) /\ visit' = Transition(jobs[j].kind)
  BY <1>2 DEF Prepare
<1>4. jobs[j].kind = "escalate"
  BY <1>3 DEF Transition
<1>5. j \in Job /\ jobs[j].status = "running" /\ Standing(j)
  BY <1>3, CurrentJob
<1> QED BY <1>4, <1>5 DEF IInv, EscalationsWaited, EscalationsAreCurrent

LEMMA StepFollowsLifecycle ==
    ASSUME IInv, [Next]_vars
    PROVE  [Lifecycle!Next]_(Lifecycle!lifecycle)
<1> USE DEF Lifecycle!Next, Lifecycle!lifecycle
<1>1. CASE UNCHANGED <<visit, stay, waited, overtaken>>
  BY <1>1
<1>2. ASSUME NEW p \in Process, Prepare(p) PROVE [Lifecycle!Next]_(Lifecycle!lifecycle)
  <2>1. /\ visit' = Transition(jobs[process[p].job].kind)
        /\ stay' = stay /\ waited' = waited /\ overtaken' = overtaken
    BY <1>2 DEF Prepare, guestVars
  <2>2. visit' = "escalated" /\ visit # "escalated" => stay \in waited \cup overtaken
    BY StepEscalates
  <2>3. CASE visit' = visit
    BY <2>1, <2>3
  <2>4. CASE visit = "confirmed" /\ visit' = "reconfirm_pending"
    BY <2>1, <2>4 DEF Lifecycle!Ask
  <2>5. CASE visit = "reconfirm_pending" /\ visit' = "escalated"
    BY <2>1, <2>2, <2>5 DEF Lifecycle!Escalate
  <2> QED BY <2>1, <2>3, <2>4, <2>5 DEF Transition
<1>3. CASE Answer
  BY <1>3 DEF Answer, Lifecycle!Answer
<1>4. CASE Reschedule
  <2>1. visit # "cancelled" /\ visit' = "confirmed" /\ stay' = stay + 1 /\ waited' = waited
    BY <1>4 DEF Reschedule, Rebooks
  <2>2. stay' \notin waited'
    BY <2>1, Parts DEF VisitOK
  <2> QED BY <2>1, <2>2 DEF Lifecycle!Rebook
<1>5. CASE Withdraw
  BY <1>5 DEF Withdraw, Lifecycle!Cancel
<1>6. ASSUME NEW s \in 1..stay, DayPasses(s) PROVE [Lifecycle!Next]_(Lifecycle!lifecycle)
  <2>1. /\ visit # "cancelled"
        /\ s = stay => visit # "confirmed"
        /\ waited' = waited \cup {s} /\ visit' = visit /\ stay' = stay
        /\ overtaken' = overtaken
    BY <1>6 DEF DayPasses
  <2>2. CASE s = stay
    <3>1. visit \in {"reconfirm_pending", "reconfirmed", "escalated"}
      BY <2>1, <2>2, Parts DEF VisitOK
    <3>2. stay' \in waited'
      BY <2>1, <2>2
    <3>3. Lifecycle!DayPasses
      BY <2>1, <3>1, <3>2 DEF Lifecycle!DayPasses
    <3> QED BY <3>3
  <2>3. CASE s # stay
    BY <2>1, <2>3
  <2> QED BY <2>2, <2>3
<1> QED
  BY <1>1, <1>2, <1>3, <1>4, <1>5, <1>6, ZenonT(60)
     DEF Next, vars, guestVars, DispatchStep, ExecutionStep,
     Claim, TakeRun, Schedule, Decide, Complete, Enqueue, Link, Invoke, ExecuteQueuedRun,
     Check, Fallback, Catch, Skip, Abandon, Throw, RecordFailure, Crash, Notify, EndTurn,
     AgentFails, Report, Finish,
     FailDispatched, LoseRun, LeasePasses, Replay, CancelEscalation, SyncChaseJob

-----------------------------------------------------------------------------
(***************************************************************************)
(* Theorems                                                                *)
(***************************************************************************)

LEMMA Invariance == Spec => []IInv
<1>1. Init => IInv
  BY InitEstablishes
<1>2. IInv /\ [Next]_vars => IInv'
  BY StepKeeps
<1> QED BY <1>1, <1>2, PTL DEF Spec

\* Every row of scheduled_jobs is claimed exactly while it runs, every run taken exactly
\* while it is executed (jobs.ts:200-294, run-queue.ts).
THEOREM TypeCorrect == Spec => []TypeOK
<1>1. IInv => TypeOK
  BY DEF IInv
<1> QED BY <1>1, Invariance, PTL

\* A visit that waits for its guest has a chase for the booked stay that reached the
\* guest, will be tried again, or is in quarantine, and an escalated one an escalation
\* likewise, if the stay was not booked in the middle of a follow-up: no crash, lost
\* lease, late worker, answer or rescheduling drops them (jobs.ts:200-294, 498-602).
THEOREM NobodyIsForgotten == Spec => []NobodyForgotten
<1>1. IInv => NobodyForgotten
  BY DEF IInv, RequestsAreKept, EscalationsAreKept, NobodyForgotten
<1> QED BY <1>1, Invariance, PTL

\* A stay is escalated before its own day has passed only if it was booked between an
\* earlier request or answer and the transaction that schedules what follows from it
\* (jobs.ts:200-294, 498-541, state-machine.ts:48-110).
THEOREM EscalationsWaitADay ==
    Spec => [][visit' = "escalated" /\ visit # "escalated" => stay \in waited \cup overtaken]_vars
<1>1. IInv /\ [Next]_vars
      => [visit' = "escalated" /\ visit # "escalated" => stay \in waited \cup overtaken]_vars
  BY StepEscalates
<1> QED BY <1>1, Invariance, PTL DEF Spec

\* The jobs, leases, retries and workers take the visit only through the steps of its
\* life cycle (state-machine.ts:48-110, jobs.ts:200-602).
THEOREM JobsImplementLifecycle == Spec => ImplementsLifecycle
<1>1. Init => Lifecycle!Init
  BY DEF Init, Lifecycle!Init
<1>2. IInv /\ [Next]_vars => [Lifecycle!Next]_(Lifecycle!lifecycle)
  BY StepFollowsLifecycle
<1> QED BY <1>1, <1>2, Invariance, PTL DEF Spec, ImplementsLifecycle, Lifecycle!Spec
=============================================================================
