# L'Ayalga: specification and verification

L'Ayalga books family visits to a shared house. Guests and hosts talk to an
agent; the agent calls tools; the tools run transactions on one Postgres
database. Everything that must be right is in those transactions and in the
order in which several processes run them. This directory models that part in
TLA+, checks it with TLC and proves its safety properties with TLAPS.

Line numbers refer to the files under `src/` of the repository at this commit
(`src/src/agent/run-task.ts` is the repository's `src/agent/run-task.ts`).

## 1. Inventory

### Processes

- **Server actions** of the Next.js application: a host or guest asks for a run
  (and may execute it at once), answers a question, registers an email address.
- **The cron** `GET /api/ticks` (`app/api/ticks/route.ts:14-34`), every minute and
  for at most five: it reconciles stale runs and dispatches due jobs, drains the run
  queue with two workers, sends the host pings, then the guest pings. Two
  executions of it may overlap.
- **The AgentCore runtime** (`agent/runtime/handler.ts`): executes runs and
  scheduled ticks that were sent to it, in a process of its own.

They share no memory. Booking transactions, withdrawal, answers to a
reconfirmation and the authorization of guest emails take one advisory lock per
home; the queue, the jobs and the outboxes do not, and use leases, claim tokens
and conditional updates.

### Components

| Component | State | Operations | What makes it correct |
|---|---|---|---|
| Run queue (`agent/run-task.ts`, `queue.ts`, `reconcileStaleRuns`) | `runs`: status, two attempt counters, claim token, deadline | ask, claim, conclude, restart, recover, reject, withdraw | a session executes one run at a time; answers are final and recorded by the claimant; nothing is stranded |
| Host decisions (`core/decisions`, resume part of `run-task.ts`) | `pending_decisions`: status, applied run; `decision_applied` events | raise, answer, hold, apply, give back, close | an answer is applied once, as given, and never after withdrawal |
| Booking (`core/booking/holds.ts`, `cancellation.ts`) | visits, visit rooms, approvals, invitations | hold, confirm, reschedule, cancel, expire, withdraw | rooms are exclusive per night; house rules hold when a visit is confirmed; an approval is for these terms |
| Rooms (`core/rooms`) | rooms, private blocks, availability overrides, proposals | block, open and close dates, change inventory, propose and apply | selections fit and are free |
| House policy (`core/policy`) | policy of the home | evaluate, update | rules per night |
| Reconfirmation (`core/reconfirmation`, `notify` tool) | `scheduled_jobs`, visit status, notifications | schedule, claim, execute, report, retry, answer | no visit is forgotten; a guest has a day to answer; hosts hear of escalations |
| Guest email (`core/notifications/guest-*.ts`) | contact, outbox rows, attempt receipts | register, verify, disable, dispatch | at most one email per row; rows tell the truth |
| Room choice (`core/rooms/recommendation.ts`, `core/policy/allocate-rooms.ts`) | none | recommend, search by policy, check a selection | what is offered is the best choice and can be booked |
| Room actions (`core/rooms/proposals.ts`, `operations.ts`) | proposals | prepare, apply, dismiss | an applied proposal does what it says |
| Policy hook (`agent/policy-hook.ts`) | none; recorded approvals | gate a tool, interrupt, re-evaluate after the answer | hosts have seen what needs them |
| Host email (`core/notifications/email-outbox.ts`) | `host_email_pings` | select, claim, reclaim, revalidate, send, record | a fresh row is sent once; "sent" is true |
| External scheduler (`agent/scheduler`, `ensureExternalSchedule`) | `external_ref`, schedule claim, the provider's schedules | claim, create, store, delete | an open job has its schedule, a closed one none |
| Household memory (`core/memory`) | events and records at the memory service | write, extract, forget, sweep | what an erasure reports gone is gone; a sweep touches no living party |
| Invitations and links (`core/booking/invitations.ts`) | invitation, token hash, expiry, return capability | capture, reveal, extend, revoke | the guest's last link outlives the stay |
| Capture (`capture-invitation-form.tsx`, `capture-invitation.ts`) | form, run, audit row, invitation | post, execute, look for the audit row, mint, reveal | one message makes one invitation |
| Calendar feed (`core/calendar`, `app/calendar`) | calendar columns of a visit, copies at clients | confirm, move, cancel, fetch | the highest SEQUENCE is the latest entry |
| Accounts (`lib/auth`) | `hosts.user_id`, emails and party claims | sign in, claim, change an email, delete | an address and its host never name two accounts |
| Run page (`components/runs/run-status-poller.tsx`) | timer, request, deadline, status shown | poll, render, hide, retry | no wake-up is lost |
| Release probes (`scripts/release-probes.ts`) | fixture households, report | check, set up, probe, clean up | no household is left behind by a report that passed |
| Retention, sessions, operator scripts, other pages | | | (not modelled, see 8) |

`PROJECT.json` has one entry per component with the same verdicts, and the list
of hazards with their lines.

### How the components interact

A request becomes a row of `runs`. Its execution may book (Booking), raise a
question (Host decisions) or notify (Reconfirmation). A host's answer becomes
another run of the same session. Confirming or moving a visit creates jobs; the
cron turns a due job into a run of kind `tick`; whoever executed it reports to
the job. A chase's notification becomes a row of the guest outbox. Withdrawal
cuts through all of them in one transaction: visit, invitation, decisions, runs
and jobs.

### What is hard

Executions that outlive their lease and come back; crashes between the two or
three transactions an operation consists of; statements that run without the
home lock; transactions that commit and are followed by another one
(`scheduleJobs`, the catch block of `executeClaimedAgentTask`); several answers
to one question; emails whose fate is unknown. Each is a line in the hazards list.

## 2. Modules

| Module | Models | Notes |
|---|---|---|
| `RunQueue` | the `runs` table and its executions | one action per transaction or statement; model execution happens between them |
| `SessionOwnership` | what the queue promises about sessions | abstract specification |
| `DecisionResume` | decisions and resumes | EXTENDS `RunQueue`: every action of the composition is an action of the queue with its effect on decisions, or leaves the queue alone |
| `HostDecisions` | what a host may rely on about questions and answers | abstract specification |
| `Booking` | holds, visits, rooms, blocks, date controls, policy, withdrawal | each operation is one transaction under the home lock, except the invitation lookup before it |
| `RoomLedger` | what the house promises about room nights | abstract specification |
| `Reconfirmation` | jobs, leases, dispatch in line and through the queue, reports, answers | queue reduced to what a tick's run needs |
| `VisitLifecycle` | what reconfirmation promises about a visit | abstract specification |
| `GuestOutbox` | contact, outbox, receipts, dispatchers, provider | one action per statement |
| `GuestNotices` | what the guest outbox promises about an email | abstract specification |
| `RoomChoice` | the two searches for rooms, the check of a selection, the hook's verdict on it | every small inventory is an initial state; the pruned searches are recursive functions, compared with their definition as an optimum |
| `RoomActions` | proposals prepared by an agent and settled by a host | EXTENDS `Booking`, whose operations go on around it |
| `PolicyHook` | gated calls: read the house, deny, ask or clear, resume, evaluate again, commit | EXTENDS `Booking`; replaces its guest operations by calls through the hook |
| `HostPings` | one notice to one host, dispatchers without claim tokens | one action per statement |
| `Schedules` | one job's external schedule | callers with claims that lapse; the provider |
| `HouseholdMemory` | the memory of parties, its erasure page by page | the service at its least helpful |
| `GuestAccess` | one invitation's link | one action per transaction |
| `Capture` | from a message to the guest's link | form, queue, execution and reveal |
| `CalendarFeed` | one visit's entry, its room labels included, and a client's copies | copies arrive in any order |
| `Accounts` | who is signed in as which host or party | |
| `RunPage` | the poller of one run | the browser's events are steps |
| `ReleaseProbes` | the probes with their runs, households and report | the agent is external |
| `DecisionResumeProofs` | proofs about `RunQueue` and about `DecisionResume` on top of it | section 6 |
| `BookingProofs`, `RoomActionsProofs`, `PolicyHookProofs`, `ReconfirmationProofs`, `GuestOutboxProofs`, `RoomChoiceProofs` | proofs about the module each is named for | section 6 |
| `ServiceProofs` | proofs about `Accounts`, `CalendarFeed`, `GuestAccess`, `HostPings`, `Schedules`, `RunPage`, `HouseholdMemory`, `ReleaseProbes` and `Capture`, and about `MCServices`, their sum with the outbox and the choice of rooms | section 6 |
| `MCRunQueue`, `MCDecisionResume`, `MCPolicyHook`, `MCRoomActions`, `MCReconfirmation` | instances for TLC | constants only |
| `MCServices` | the services that share no state | the initial state picks the one that runs |

The modules from `HostPings` to `ReleaseProbes`, `RoomChoice` and `GuestOutbox` share no
variable with one another, and no transaction of one reads what another
writes: their product would only multiply the states. `MCServices` is therefore
their sum; the variable `scenario` says which of them moves. What does share
state is composed: decisions with the queue, proposals and the hook with
booking.

Operators whose comment begins with `Mutant:` are no part of the specification:
each is a definition changed as a plausible mistake would change it, kept to
test that a property notices (section 4).

### Correspondence with the code

`PROJECT.json`'s `map` gives the lines of every definition. Conventions:

- A transaction, or a statement outside one, is one action. Postgres runs single
  statements on a snapshot; where two statements could overlap, the row locks or the
  repeated condition of the update make the second see the first, and the models
  take statements to be atomic. (`for update skip locked` in the outbox candidate
  query evaluates its `not exists` on the snapshot: atomicity is an assumption there.)
- Claim tokens are fresh UUIDs, named by who took them: the worker
  (`RunQueue`), the attempt (`GuestOutbox`), the process (`Reconfirmation`).
- Time is reduced to what conditions compare: a lease is young or lapsed, a day has
  passed since the guest was asked or not, a hold is active or lapsed.
- A crash is the loss of a process's program counter; its rows stay. In
  `GuestOutbox` a dispatcher that takes no further step has died.
- The agent is an environment that may call, omit or repeat what its tools
  allow.

`RunQueue`: `status`, `attempts`, `requests`, `token`, `lease` are columns of
`runs`; `pc`, `task`, `immediate` belong to an execution. `Accept`, `InsertRun`,
`RestartRun`, `Decline` are `startRun`; `ClaimQueuedRun` is the claim statement;
`ResolveAuthority`, `FailRun`, `ConcludeRun` are the rest of an execution;
`Reconcile` is the cron's recovery.

`DecisionResume`: `MatchDecision` and `HoldDecision` are the two statements at the
start of a resume, `ApplyDecision` the loop that writes `decision_applied`,
`ReleaseDecision` the catch block's second statement, `Withdraw` and
`ReconcileRuns` the queue's actions with their updates of decisions.

`HostDecisions` has the questions, who carries an answer, what took effect and what was
withdrawn, and nothing of runs, claims, leases and stages. `ApplyDecision` is its
`TakeEffect` if the row is still the run's and a stutter otherwise; recovery, a new request
and the catch block are all `TakeBack`, which no answer that took effect allows. An answer
may be given to a carrier although the question was just closed, as in the code: the
statement that takes it does not look at the row's status.

`Booking`: a visit carries its stay, party, rooms, overflow consent and approval
(the hash is the draft itself, hashes being injective on what the code hashes).
Parties are characterised by size, children and pets. `inventory[r]` is a room's row as
far as booking reads it: its state, its standard and maximum places and its sleeping
arrangement. `UpdateInventory(r, entry)` replaces it whole and, like the code, looks at no
visit (`operations.ts:212-243`), so places change under stays that are booked. Overflow is
what a selection needs beyond the standard places its rooms have at that moment.

`RoomLedger` has guests, blocks and the room nights they have, and who is confirmed or
withdrew; nothing of drafts, policies, approvals, availability or expiry dates. A guest has
what their active visit occupies (`Occupied`): a hold, a confirmation and a reschedule are
each a `Take`, which may turn out tentative guests (the lapsed holds released in the same
transaction) and takes nothing that anybody keeps; the tick is a `TurnOut`.

`Reconfirmation`: a job is a row with kind, status, stay, lease, attempts and linked run;
processes are the cron (`dispatchDueJobs`), the runtime (`runJob`) and the queue worker.
`Invoke` is the runtime's call of the agent: it starts the job's run, or finds one already
there. `ExecuteQueuedRun` claims that one and executes it in line if it is queued, and
returns it if it may not be claimed; a run that is at work elsewhere or has failed is a
failure of the job (`run-task.ts:137-231`, `jobs.ts:389-393`). `CancelEscalation` and
`SyncChaseJob` are the second transactions of an answer and of a reschedule.

`GuestOutbox`: `EnqueueReminders` to `FailExhausted` are the five statements at
the start of a dispatch, then claim, authorize, send and record. Generations are
addresses of one contact.

`GuestNotices` keeps four things of all that: the contact, what is told of each email,
who is offering it, and how often the provider took it. `Told` makes a row `open` while
it may still be claimed or is, `unknown` or `failed` once nobody may retry it;
`Carriers` are the dispatchers past their authorization. Leases, claims, attempts and
receipts are not in it, and an authorization is its one step `Offer`, which asks that the
email is open, wanted at this very address, with nobody else and was never taken. It
lets `failed` or `unknown` become `sent` late, but only for an email that was taken, and
nothing else leaves `sent` or `cancelled`.

`PolicyHook`: `call[i]` is the gated call an invitation's session has in hand and
its phase: `cleared` (the tool runs next), `asked` (interrupted, its decision is
open), `approved` (a host said yes), `answered` (the hook, run again, has come to the
question and has its answer) and `granted` (behind the answer it let the call pass).
`CallTool` is the hook's first pass. `Resume` is the pass after the answer up to the
question: it loads the draft again, allocates rooms anew if the guest named none
(`DraftsForTool`, `AllocateRooms`), evaluates it and reads the sleeping arrangements.
`Refresh` is the evaluation behind the question, which compares those arrangements with the
ones it finds (`policy-hook.ts:112-139`). `Hold`, `Confirm` and `Reschedule` are the tools'
transactions, which commit later on a house that may have changed. The hook's
`approvalCovers` compares a recorded approval with the whole draft.

`RoomActions`: `proposals[p]` is the row of `room_action_proposals` prepared by run `p`.

`HostPings`: `ping.old` replaces `created_at`; `PingAges` is five minutes going by.
`Schedules`: `job.claim` is the caller whose token the row carries, `late` that a claim has
outlived its ten minutes, `schedule` the provider's. `HouseholdMemory`: an eraser's program
counter is the page and the batch it is at; what is kept about a party is a set of numbers
in the order written, which is the order the service lists it in, so a page is what ranks
behind its offset. `RunPage`: a timer's handle, a pending answer and the effect that made
them. `GuestAccess`, `CalendarFeed`: days and sequence numbers as in the code, bounded; an
entry of the feed has dates, status, guests and room labels, and `RelabelRoom` is the part
of `updateRoomInventory` that shows in it. `GuestOutbox`: the guest's link expires and is
reissued (`LinkExpires`, `LinkIsReissued`). `Accounts`: `linked` are the parties whose
private link opens. `Capture`: an execution is between two of the tool's three transactions.
`ReleaseProbes`: the script's `step`, the households as the database and as the script know
them, the runs of the current probe.

## 3. Runs and what they show

| Run | Instance | Shows |
|---|---|---|
| `queue_safety` | a request that may raise two questions and the resume of one of them in one session, 2 executions at a time, 3 attempts, 2 requests, withdrawal | exclusion, fencing, nothing stranded, an answer applied once, refinement of `SessionOwnership`, all in the composition of queue and decisions |
| `queue_progress` | 2 runs and a tick, fairness | every accepted run is settled; ticks may run again |
| `decisions_safety` | a request that may raise two questions, a yes-resume and a no-resume of the first, 2 executions at a time | withdrawal retires decisions; refinement of `HostDecisions`: asked, answered and effective once, as answered |
| `booking_rooms` | 2 invitations, one room with two inventory records, 2 nights, a block, an override, 3 room actions | approvals for these terms, applied proposals, exclusive rooms; refinement of `RoomLedger`: no room night given twice, nobody firm turned out, nothing for who withdrew |
| `booking_rules` | 3 visits of 2 invitations, 2 rooms of which one has three inventory records, 2 policies, 3 parties, rooms named or left to the house, calls through the hook | one visit per invitation, house rules, hosts have seen what needs them, overflow is approved when it is booked |
| `reconfirm_safety` | one stay, two hosts, cron, runtime and worker, one fault of any kind | nobody forgotten, refinement of `VisitLifecycle` |
| `reconfirm_rebooked` | two stays, one host, a crash | nobody forgotten across a reschedule, in the middle of a follow-up too |
| `reconfirm_liveness` | one stay, two hosts, two crashes, errors or omissions, fairness | requests are resolved, both hosts hear of escalations |
| `services` | eleven services, one at a time (below) | a property of each |
| `early_escalation` | two stays, one host, a reschedule in the middle of a follow-up | **violation**: an escalation before the guest had a day |
| `omitted_delivery` | one stay, two hosts, three omissions | **violation**: delivery is not guaranteed |
| `overflow_denied` | every house of at most 2 rooms, parties of at most 4 | **violation**: an offer that needs overflow is denied, no host is asked |

What `services` checks:

| Service | Instance | Property |
|---|---|---|
| Guest outbox | 2 overlapping dispatchers, 2 addresses, 2 attempts, 3 authorized emails in all, a link that expires and is reissued | `SentAtMostOnce`, `StatusIsTrue`, `VerifiedByItsOwnEmail`, refinement of `GuestNotices` (`ImplementsNotices`) |
| Host pings | 2 dispatchers, 2 addresses | `FreshPingsAreSentOnce` |
| Schedules | 3 callers | `SchedulesFollowTheirJobs` |
| Memory | 2 parties, a host's erasure and a sweep, pages of one, 2 items in all | `ForgottenMemoryIsGone`, `SweepSparesTheLiving` |
| Run page | one run, asked for again when it failed | `PageKeepsWatching` |
| Links | 3 links, terms of 2 days and 1 day of grace, 5 days | `GuestsKeepTheirLink` |
| Calendar | 2 stays, 2 numbers of guests, 2 labels, sequences up to 2 | `SequenceTellsTheLatest` |
| Accounts | 2 hosts, 3 addresses, 2 accounts, 1 guest with an invitation's link | `ClaimsNameTheHostsAccount` |
| Room choice | every inventory of at most 3 rooms of 1 or 2 standard places, with or without overflow, parties of at most 4 | `RecommendsTheBest`, `OffersAreBookable` |
| Release probes | both targets, one feature | `ProbesLeaveNothing` |
| Capture | 2 forms, 2 windows of ten minutes, 2 claims, 2 invitations | `CapturedOnce` |

Bounds, and why they are enough:

- Executions: a hazard of a lease involves the execution that lost it, the one that took
  over and one more that recovers or asks. `queue_safety` and `decisions_safety` have two
  workers: one that ended or died starts over, and recovery is a step of its own.
- Attempts are 3 as in the code in `queue_safety`, 2 elsewhere (one lost attempt and its
  retry). `Reconfirmation` has the code's 3.
- Two nights and two invitations are the least with which stays can overlap partly and a
  policy limit of one or two families bite. `booking_rooms` has one room, which both want,
  and parties of one kind, so it is the stay and the consent that change under an approval;
  `booking_rules` has two, one of which takes overflow, and adds a second visit of one
  invitation. The inventory changes in both: between available and withheld where date
  controls and proposals change too (`MaxOverrides` 1), among places and arrangements where
  calls are at the hook (`MaxOverrides` 0, no blocks). What more rooms do to a selection is
  `RoomChoice`'s question, which has three.
- `MaxJobs` 4 is the number of rows a stay needs: request, chase, escalation and a
  duplicate. In `reconfirm_rebooked` it is a chase and an escalation of each stay, or a
  duplicate in place of one of them; `early_escalation` has one more.
- Hosts are two where an agent may leave one of them out (`reconfirm_safety`,
  `reconfirm_liveness`, `omitted_delivery`); without omissions all hosts are told in one
  step, and `reconfirm_rebooked` and `early_escalation` have one.
- `MaxFaults` is one with every kind of fault and two for liveness: a third failure of a job
  puts it in quarantine by design, which the properties name.
- `MaxGenerations` 2: the old address and the new one. `ServicesBound` limits the emails the
  dispatchers authorize to three: an attempt, its retry, and one of another row.
- `Schedules` has three callers: one whose claim lapsed, one that took over, and a third
  that finds either. `MaxItems` 2 with `PageSize` 1 gives two pages, the least for which a
  deletion moves what a token points at.
- `MaxSequence` 2 is a first confirmation and two changes of the entry, enough for a copy to
  be overtaken twice.
- `LinkLifetime` 2, `Grace` 1 and `LastDay` 5 keep the order of the code's thirty days,
  seven days and a stay beyond the first term; three links are two reissues.
- `Capture`: `MCClaims` lets the first window's run be claimed twice (the claim lost and the
  one that took over); the second window is posted in and not worked on.
- Symmetry is used for interchangeable executions, dispatchers and invitations, in runs
  without liveness only.

Deadlock is not checked: every instance is bounded and ends when its rows are
settled.

## 4. Properties and mutants

Each property of a passing run has a mutant in `PROJECT.json`: a definition
replaced by a plausible mistake under which TLC finds the property violated in
the same run. Examples: the claim that ignores the session
(`ClaimableAcrossSession`), a catch block that releases a recorded answer
(`ReleaseRecorded`), a reschedule that cancels only the chase
(`RescheduleChaseOnly`), a lease takeover that ignores receipts
(`ClaimableByLease`), a hook that accepts any approval of the visit
(`ApprovedBefore`), a capture tool that skips its look at the audit row
(`CheckNothing`), households awaited with `Promise.all` (`SetupFailsFast`).

## 5. Fairness

`RunQueue!Fairness`: `Reconcile` and each execution's steps are weakly fair (the
cron runs each minute; an execution either goes on or crashes, which is a step
too), leases age. The claim of a run is strongly fair: the drain takes the
oldest claimable row first, so a run that keeps becoming claimable is claimed even
if others are claimed in between.

`Reconfirmation!Fairness`: the cron claims due jobs, the drain takes queued runs,
processes go on or die, leases lapse, days pass; answers, reschedules and
withdrawals are not fair, so the guest may never answer. Second transactions
(`CancelEscalation`, `SyncChaseJob`) are fair because their process is running; a
crash between the two is one of the faults.

Nothing else is assumed of the order of steps. Whoever changes a visit schedules its
follow-up in a second transaction, and the visit may be rescheduled in between:
`early_escalation` shows what comes of it. The history variable `overtaken` keeps the stays
that were booked while a follow-up was outstanding, be it the jobs of a transition
or the `CancelEscalation` of an answer. `NobodyForgotten` and `VisitLifecycle` (there it
is `rushed`) leave out the escalations of these stays, which may come early or be cancelled
with the earlier stay's, and nothing else about them.

## 6. What is proved

Every invariant, action property and refinement of the passing runs is also a theorem, for
any constants that satisfy the modules' assumptions (`ServicesTypeOK` under one hypothesis
more, given below). The three liveness properties are not, and what the violation runs
refute cannot be; of `EscalatesAfterADay` the part that is true is
`EscalationsWaitADay`.

`DecisionResumeProofs` begins with the queue, for any finite or infinite sets of runs,
executions, sessions and any limits satisfying `RunQueueAssumption`. The inductive
invariant is

    IInv == TypeOK /\ BusyWorkersHaveTasks /\ OneRunningPerSession
            /\ NothingStranded /\ OwnersAreAuthorised

`OneRunningPerSession` alone would do for exclusion but not for the others: that a
withdrawn invitation never concludes needs `OwnersAreAuthorised` (an execution
that holds a claim and is past the authority check works for a live
invitation), and fencing needs `BusyWorkersHaveTasks` (an execution past "idle" has
a run). From `Invariance` follow `TypeCorrect`, `SessionExclusion`,
`NoRunStranded`, the action properties `AnswersAreFinal`, `WithdrawalStands`,
`AnswersAreFenced`, and `QueueImplementsOwnership`: the queue implements
`SessionOwnership` under the mapping `SessionOwner`.

About decisions: `ResumesAreQueueSteps` (each step of the composition is a
step of the queue or a stutter), so every theorem about the queue holds of the
composition; `ResumeTypeCorrect`, `WithdrawalClosesDecisions`, `AppliedStaysApplied`.
`AnswersAreAppliedAsGiven` needs one thing more. A resume compares the row with the answer
it carries in one statement and records it two statements later, and neither of those
compares again; `CarriersAreRight` says that it need not, because between them the row keeps
that answer or becomes cancelled, and a cancelled row is not recorded.
`ResumeImplementsDecisions` puts these together: the composition implements `HostDecisions`.
That nothing is put about a withdrawn invitation comes from the queue
(`OwnersAreAuthorised`, through the fence of the interrupting transaction); that an answer
is given to one carrier at a time and never after it took effect comes from
`AppliedIsNotRetried`, although two of the statements that give answers back name the run and
not the claim; and that it is the host's answer from `CarriersAreRight`.

`ReconfirmationProofs`, from `ReconfirmationAssumption`: any number of processes, hosts,
job rows, stays and faults. `NobodyForgotten` is about rows, but whether a row may be closed
is decided by a process that read it earlier, so the invariant says what a claim is worth:

    IInv == TypeOK /\ BusyHaveJobs /\ RowsAreConsistent /\ ChasesAreCurrent
            /\ FollowUpsAreCurrent /\ EscalationsAreCurrent /\ EscalationsWaited
            /\ AnswersStand /\ ClosersAreRight /\ RequestsAreKept /\ EscalationsAreKept

- `ClosersAreRight` is the heart: a process about to close a job whose row still names it as
  the claimant (`IsCurrent`) has either delivered to everyone or finds the visit past what
  the job is for (`Settles`). A process that lost its claim may be wrong and does no harm,
  because the closing update is conditional.
- `ChasesAreCurrent` and `EscalationsAreCurrent` say which stay an open job is for: a
  reschedule closes the old ones in its own transaction. The second needs that nobody
  inserts an old stay's escalation afterwards (`FollowUpsAreCurrent`), so both are about
  stays that were not booked in the middle of a follow-up (`overtaken`).
- `EscalationsWaited`: an escalation that runs was due, a day after the guest of its stay
  was asked.
- `AnswersStand`: the second transaction of an answer finds the visit answered, for the
  same stays.

Every action writes at most a few rows, so one lemma (`GoesOn`: a row keeps its kind and
stay, does not start again, and is closed only if it may be) carries the row invariants over
all of them. From it follow `TypeCorrect`, `NobodyIsForgotten` (its part about requests
covers every stay, its part about escalations the stays not overtaken),
`EscalationsWaitADay` (who is escalated has waited a day or was overtaken) and
`JobsImplementLifecycle`. None of them assumes anything about when follow-ups are scheduled.

`BookingProofs`, from `BookingAssumption`: any rooms, nights, parties, policies and
any finite set of visits, and any inventory records a room may be given, at any moment.
`TypeOK` and four safety invariants are inductive together, because each operation is one
transaction under the home lock:

    IInv == TypeOK /\ RoomNightsExclusive /\ OneVisitPerInvitation
            /\ WithdrawnHoldsNothing /\ ApprovalIsForTheseTerms

Every operation of a guest first frees the holds that lapsed and then writes at
most one visit (`Booking`), so the proofs share lemmas about that write: the
chosen rooms are free of `Others`, and `Others` is exactly the remaining visits
the new stay meets. From it follow `RoomsExclusive`, `OneVisit`,
`WithdrawalFreesRooms` (implied by the refinement too, so no run checks it),
`ApprovalsHold`. That overflow is approved is no invariant, because hosts change a
room's places under the stays in it: `OverflowNeedsApproval` is about the step that holds,
confirms or moves a visit and the places of that moment, and each operation's lemma shows it
(`OverflowKept`). The action
properties `NightsStayObedient` and `ConfirmationsObey` need only type correctness and
counting: on each night of the new stay the families are those of `Allowed` and at
most one more. Whether places add up is the predicate `Sleeps`, which the proofs do
not open; that the sum is the right one is left to TLC.
`BookingImplementsLedger` needs the invariant in every step. What the ledger says of a
guest is a union over their active visits; `OneVisitPerInvitation` makes it that of one
(`OccupiedIs`), and a guest whose hold lapses is therefore not firm. `RoomNightsExclusive`
after the step makes a `Take` or a `Keep` disjoint from what others keep, and
`WithdrawnHoldsNothing` keeps confirmations and reschedules from taking for who withdrew;
a hold looks for itself. `CancellingFrees` is the common part of the other entries.

`GuestOutboxProofs`, from `GuestOutboxAssumption`: any number of dispatchers, attempts
and addresses. That no email is sent twice is far from inductive. The strengthening
says where a dispatcher with an email in hand may stand:

- a row is *hot* once its email was taken or a dispatcher is authorized to offer it,
  and *blocked* if nobody may claim it: settled, exhausted, of unknown outcome, or
  in the hands of an attempt whose receipt is past authorization;
- `HotRowsAreBlocked` is the heart of it, with `SendersAreAlone` (one sender per row,
  nothing delivered before it) and `RefusedWereNotSent` (a dispatcher that reports
  a definite refusal, or comes too late to be authorized, while holding the claim has a
  cold row: putting the row back, or cancelling it, is safe);
- these rest on `RowsAreFresh`, `AttemptsAreOwned` (two dispatchers never share an
  attempt of a row) and `AuthorizedOnce`, which say that attempt numbers and receipts
  are never reused;
- `AcceptedWereSent` carries the truth of rows and receipts,
  `ConsentHasAnAddress` that of the contact.

From `Invariance` follow `TypeCorrect`, `SentOnce`, `RowsTellTheTruth`,
`VerifiedByOwner`, the action property `SettledStays` (implied by the refinement too,
so no run checks it), and `OutboxImplementsNotices`: every step is a step of
`GuestNotices` or none. What moves neither the contact nor an email is one lemma,
`TellStep`: such a step may only change what is told, and only as `Tells` says. The rest
is the guest's three operations (`DroppedStep`: what `Cancelled` does to rows is what
`Dropped` does to stories), the authorization, which is an `Offer` because the row is
claimed and `AuthorizedOnce` and `HotRowsAreBlocked` make it cold, and the send, a
`Return`. `CancelObsolete` may tell `cancelled` only of an email nobody has in hand: that
is where `RefusedWereNotSent` covers dispatchers that come too late as well.

`RoomActionsProofs` and `PolicyHookProofs`: both compositions implement `Booking`
(`RoomActionsImplementBooking`, `HookImplementsBooking`), so its theorems hold around
proposals and behind the hook (`RoomActionsKeepBookings`, `HookKeepsBookings`,
`RoomActionsImplementLedger`, `HookImplementsLedger`).
`AppliedActionsWork` needs no more than types: an action is applied by the hosts' own
control in the same transaction. `HostsSawEveryApproval` is the one with an argument. The
hook looks at the house without a lock and the tool commits later, so the invariant says
what stays true in between, whatever hosts make of the rooms:

    HInv == IInv /\ HookTypeOK /\ RowsKeepNoConsent /\ RequestsAreApproved /\ CallsFit

`RequestsAreApproved`: an active visit of a party with special requests has an approval.
`CallsFit`: an answered question showed the draft the hook has now (`Seen`, with other
rooms at most where the house chooses them); while the visit is still active, a call of its
session has the rooms of its row and no consent of its own, and one let
through without a question has no special request or is covered by the row's approval. It
holds because one session at a time works for an invitation; everybody else can only
end its visit (`Untouched`). That leaves the tool's own booking when the run loses what it
saved, where the draft computed again must be the one just booked.

`ServiceProofs`, for any numbers of callers, addresses, accounts, days, pages and
erasures. The assumptions are those of the modules: each address of a host belongs to
one (`AccountsAssumption`), terms and sequences are counted in days and numbers
(`AccessAssumption`, `CalendarAssumption`), and no caller is called "nobody"
(`SchedulesAssumption`). Two of the properties are inductive with their types
(`OneAccountPerHost`, `PageWatches`); the others need what a call in progress knows:

- `FreshPingsOnce`: while a row is fresh only one sender has claimed it, and only before its
  email (`FreshIsClaimedOnce`); a sender that selected it when old is right that it is old
  (`OldStaysOld`). Rows do not get young again, which is why a reclaim cannot touch a fresh
  row.
- `SchedulesFollow`: as long as no claim outlived its ten minutes, whoever creates or stores
  holds the claim (`WorkersHoldTheClaim`), and whoever deletes holds it or the job is
  cancelled (`DeletersAreEntitled`). A schedule no live row names always has a call that
  sees to it, or one that failed or died (`SomebodySeesToIt`).
- `LatestCopyWins`, about dates, status and guests whatever the rooms are called, rests on
  the entry having been in the feed before any copy was served (`ServedWereListed`).
- `LinksOutliveStays` rests on links being numbered as they are minted (`LinksAreNumbered`),
  so a cookie never belongs to a later link than the invitation's.
- `SweepsSpareTheLiving` rests on nothing being kept about a party that has not been created
  (`FutureIsEmpty`) and so on no erasure being about one: the parties are read after the
  actors are listed, and ids are not used again.
- `ForgettingLeavesNothing`: the pages move under their reader, so the invariant is about
  places. Whatever an erasure owes a party and has not listed yet stands beyond its offset
  (`AheadOf`), because what others write joins the end of the list and only an erasure takes
  anything off it; an erasure that has its parties to itself shares none with another
  (`LonersShareNothing`); and an item is kept about one party (`MemoryItems`), so erasing
  one moves nobody else's pages. The offset is back at the top before anything is deleted.
- `ReleasesLeaveNothing` follows the script step by step: what the households, the runs and
  the evidence are before, during and after the probes as long as nothing failed
  (`BeforeProbes` to `AtTheEnd`), and that a transaction the script no longer waits for is
  one it saw fail (`LooseBuilds`), so that a report over a household left behind is not one
  that passed.
- `RunsCaptureOnce` counts. A mint is paid for in advance: by the claim under which the call
  looked for an earlier capture, which is spent once the audit row is written, or by a call
  counted as loose (`MintsArePaid`). Two current calls cannot both have looked, since the
  queue gives the run to one claim at a time.

The last section puts the services together (`ServicesTypeCorrect`): a step of `MCServices`
is a step of one of them and leaves the others alone (`ServicesStutter`), so the conjunction
of their invariants is inductive (`ServicesInv`). Beyond the types it proves the bounds on
what the services count. The emails of the pings are no more than their dispatches, because
each is counted by the dispatch that sent it (`MailsAreCounted`); this needs the dispatches
to be finitely many, which is a hypothesis of the theorem. An offset into the memory stays
within what was written, since a page has no more items than the list it is taken from
(`ListPageTypes`). The links are numbered up to
`MaxLinks`; a capture always mints the first, so the types hold only when at least one may
be minted, which `AccessAssumption` says.

`RoomChoiceProofs`, for houses with any number of rooms, any places, features and parties.
Both searches are recursive functions over the rooms of the house, and what such a function
computes is proved by induction on the rooms it has passed: the induction rule of the
library takes a predicate, which the provers cannot instantiate, so the module derives one
about sets (`NaturalsAreInductive`: a set of naturals with 0 and with every successor is all
of them) from the least-number principle, and applies it to the set of rooms up to which a
search has the property. `StepsReachEnd` does the same for functions that are defined by their
predecessors. Sums of places are folds over sets; `AnyRoomComesOff` and `SumsAgree` show
that the order in which rooms are taken off does not matter (`SumFacts`, `SumGrows`).

- The recommendation prunes: a choice that is large enough is not extended, one with as many
  rooms as the best is dropped, and of two partial choices with the same places and features
  only the better is kept. `Stage` says what is still true after r rooms: the best so far is
  the best of every large enough choice of these rooms, and every other choice of them that
  could still lead to a better one is *represented* by a partial choice with the same key
  that is at least as good. `ExtendStage` is the step. It holds because adding a room
  keeps the key and the order (`KeyFacts`, `AtLeastWithRoom`), which is why features belong
  to the key: with capacity alone (`SameCapacity`, the mutant) it is false.
- The allocation by policy bounds its search by the number of rooms (`Hopeless`). `Settles`
  says of each call that it returns something at least as cheap as the best it was given and
  as every completion of the choice it was given; it is proved downwards from the last room.
- `Better` and `Cheaper` order the choices of one house totally (`OneIsFirst`,
  `FirstDifference`, `ComesFirstFacts`), so "the best" is one choice and `CHOOSE` names it.

From these follow `PruningLosesNothing` and `OffersCanBeBooked`. In `AllocateRooms` the
search is written with one argument at a time, because the provers have no functions of
several arguments.

Only model-checked: liveness under fairness (`EveryRunSettles`, `RequestsAreResolved`,
`EscalationsAreHeard`), which is out of the prover's reach. `BookingProofs` does not open
`Sleeps`: what a selection sleeps is any predicate there.

## 7. Where the code differs from what it says

Shown by a run:

- `early_escalation`: `prepareClaimedJob` commits a chase's transition and calls
  `scheduleJobs` afterwards (`jobs.ts:521-534`). A reschedule between the two
  cancels the open jobs first, and the escalation of the old stay is then inserted
  for the new one; it escalates the new request without its 24 hours.
- `omitted_delivery`: for jobs that went through the queue the report checks delivery
  (`completeDispatchedJob`, `jobs.ts:296-309`) but the fallback that delivers is
  only called in line (`jobs.ts:379`).
- `overflow_denied`: the hook evaluates the policy on standard beds only
  (`house-state.ts:36`), so a choice that needs overflow places is denied for `beds`
  before the selection check could ask a host, although the guest's search offered it
  (`guest-actions.ts:138-150`). In `PolicyHook` overflow therefore reaches a host only
  where the standard places of all free rooms would do.

Met while modelling, without a run of their own:

- A resumed execution that raises another question returns from the interrupt branch
  (`run-task.ts:416-456`) before the `decision_applied` loop (458-486): the first answer
  stays held and is never recorded, unlike `README.md:92`.
- The catch block fails the run and releases its answer in two statements
  (`run-task.ts:514-524`, `526-542`). After a crash between them the answer stays held by a
  failed run and the host's page (`page.tsx:95-112`) offers no retry. Run late by an
  execution that lost its claim, the second statement can also take the answer from the run
  that is applying it.
- A guest's late yes cancels "the" escalation of the visit in a transaction of its own
  (`apply-guest-answer.ts:63`), which after a reschedule may be the next stay's.
  `NobodyForgotten` excepts the escalations of such a stay.
- A hook that has its answer compares the sleeping arrangements with those it read earlier
  in the same pass, the resumed one (`policy-hook.ts:56-133`). One changed while the
  question was open is not refused, although the message says "changed while approval was
  pending".
- Rooms that the guest left to the house are allocated anew behind the answer
  (`policy-hook.ts:61-64`), and may be others than the host was shown.
- An approval is for the whole draft, consent to overflow included. One given for a special
  request, when standard places sufficed, covers the overflow of a confirmation after a room
  lost places (`holds.ts:283-297`): the host was never shown it as overflow.
- `updateRoomInventory` (`operations.ts:212-243`) looks at no booked stay: taking places off
  a room can leave a confirmed party without enough, or in overflow that nobody approved.
- `DeliveryAttemptsExhausted` (`guest-outbox.ts:204`) asks for no receipt: a third attempt
  whose lease lapses after the statement before it is told as failed though its email may be
  on its way. `StatusIsTrue` therefore excepts exhausted rows.
- A row whose lease lapsed before authorization is cancelled as obsolete
  (`guest-outbox.ts:240-251`), not retried.
- A host ping may be sent twice: `reclaimStalePing` compares `created_at`, which a reclaim
  does not refresh (`email-outbox.ts:369-396`).
- In the same outbox a `sent` row may become `failed` by a late dispatcher and be sent
  again, and a reclaim leaves the old `to_address`.
- The late loser of a schedule claim (more than ten minutes) deletes the schedule its
  successor has stored, since both have the same name; `SchedulesFollowTheirJobs` excepts a
  claim that was overtaken while its creation was under way.
- `forget.ts` reports everything erased, but what a run writes meanwhile stays, and two
  erasures of one party move each other's pages; `ForgottenMemoryIsGone` is about an erasure
  that had the party to itself.
- The capture tool looks for its audit row, mints and writes the row in three transactions:
  a crash between the last two, or an execution that goes on after it lost its claim, mints
  a second invitation. `CapturedOnce` excepts these.
- A second tab that reveals a captured invitation mints a new link and kills the one shown
  first. A host who posts a failed capture again within ten minutes gets the same run, whose
  panel stays at "failed" and never reveals the link.
- A room action whose `apply` changed nothing still shows as saved on the host's page.
- A renamed room changes the feed's entries without counting up SEQUENCE
  (`operations.ts:219-231`), so two copies with the same sequence may differ in their
  labels; `SequenceTellsTheLatest` is about dates, status and guests.
- The run page's request has no timeout of its own, and its deadline starts anew with each
  change of status.
- `release-probes.ts:74-78` and `127-131` call a dropped connection an environment failure
  (PAUSED), but one in the cleanup after all probes passed is reported as BLOCKED. A run
  that goes on after a PAUSED report can save its session after the cleanup removed the
  household's sessions, which have no foreign key to it.
- Rescheduling an overflow visit through the hook is denied like any overflow.
- A job whose execution always dies is reclaimed without end: only recorded failures count
  towards quarantine.

## 8. Not modelled

- Text: prompts, summaries, translations, email bodies, tool wording.
- Data retention: one SQL function that redacts settled rows, on which no later step
  depends. Operator scripts: sequential command lines over modelled operations.
- The guest's invitation form: which of its messages is shown depends on the order in
  which React applies state updates, which the repository does not determine. Other
  pages and forms only read or call one modelled operation.
- Sign-in, cookies and sessions themselves: Supabase Auth's.
- A question raised inside a resumed call (`run-task.ts:416`): the first of the
  divergences above without a run.
- `lockHome: false`, used where the caller already holds the lock.
- Session storage, except its saves after a household is gone (`ReleaseProbes`): a
  key-value store written by the run that owns the session.

Assumptions of `PolicyHook` about the agent library, which is not part of the
repository: an interrupted session takes nothing but answers, and the hook runs
again from its start when the answer comes.

## 9. Plan

Done: sections 2 to 6. The order was by what the rest relies on: queue, decisions,
booking, reconfirmation, outbox; then what hangs on booking (rooms, hook, room
actions), then the services.

Left:

1. A question raised inside a resumed call, in `DecisionResume` and `PolicyHook` together:
   the divergence of `run-task.ts:416` as a run.
2. The booking invariants with `Sleeps` opened by the sums of `RoomChoiceProofs`.
