---------------------------- MODULE ReleaseProbes ----------------------------
(***************************************************************************)
(* The acceptance probes of a release (scripts/release-probes.ts): health  *)
(* first, then two fixture households built side by side, then one probe   *)
(* after another, each of which posts agent runs and waits until they are  *)
(* terminal, and in every case the removal of the households.  The agent,  *)
(* which goes on executing a run the script has given up on, is external.  *)
(* A run is good when it ends as its probe asserts it must.                *)
(***************************************************************************)
EXTENDS Naturals, Sequences

PROBES == [
    local |-> <<"health", "host-capture", "guest-confirmation", "concurrent-conflict",
                "interrupt-resume", "reconfirmation", "room-coordination",
                "guest-isolation", "cleanup">>,
    production |-> <<"health", "host-capture", "guest-confirmation",
                     "concurrent-conflict", "guest-isolation", "cleanup">>]

Household == {"household", "conflict"}
Slot == {1, 2}      \* a probe has at most two runs at a time

\* What the probe builds on, how many runs it posts at once, and how often.
HouseOf(probe) == IF probe = "concurrent-conflict" THEN "conflict" ELSE "household"
RunsOf(probe) == CASE probe = "concurrent-conflict" -> {1, 2}
                   [] probe = "guest-isolation" -> {}
                   [] OTHER -> {1}
RoundsOf(probe) == IF probe = "interrupt-resume" THEN 2 ELSE 1

VARIABLES
    target, step,
    report,     \* its status, and how many entries of PROBES[target] passed
    home,       \* the households' rows: none, in an open transaction, kept
    built,      \* what the script knows of their transactions
    round,      \* of the current probe
    runs,       \* the runs of the current probe
    sessions,   \* the households with a stored agent session
    doomed,     \* the households selected for removal and not removed yet
    faulty      \* whether an answer of the database was lost, or a removal failed

probeVars == <<target, step, report, home, built, round, runs, sessions, doomed, faulty>>

Executing == {"sent", "queued", "running"}
NoRuns == [s \in Slot |-> "none"]

ProbeTypeOK ==
    /\ target \in DOMAIN PROBES
    /\ step \in {"health", "setup", "probing", "cleanup", "removing", "ended", "killed"}
    /\ report \in [status : {"passed", "PAUSED", "BLOCKED"}, evidence : 0..9]
    /\ home \in [Household -> {"none", "open", "kept"}]
    /\ built \in [Household -> {"waiting", "made", "failed"}]
    /\ round \in {1, 2}
    /\ runs \in [Slot -> {"none", "good", "bad", "gone"} \cup Executing]
    /\ sessions \subseteq Household
    /\ doomed \subseteq Household
    /\ faulty \in BOOLEAN

ProbeInit ==
    /\ target \in DOMAIN PROBES
    /\ step = "health"
    /\ report = [status |-> "passed", evidence |-> 0]
    /\ home = [h \in Household |-> "none"]
    /\ built = [h \in Household |-> "waiting"]
    /\ round = 1 /\ runs = NoRuns
    /\ sessions = {} /\ doomed = {} /\ faulty = FALSE

CurrentProbe == PROBES[target][report.evidence + 1]
Its == HouseOf(CurrentProbe)

\* classifyProbeFailure: the environment's failures pause, the others block.
Fails ==
    /\ step' = "cleanup"
    /\ \E status \in {"PAUSED", "BLOCKED"} : report' = [report EXCEPT !.status = status]

ProbeHealth ==
    /\ step = "health"
    /\ \/ /\ step' = "setup"
          /\ report' = [report EXCEPT !.evidence = 1]
          /\ home' = [h \in Household |-> "open"]
       \/ Fails /\ home' = home
    /\ UNCHANGED <<target, built, round, runs, sessions, doomed, faulty>>

\* The transaction of createFixtureHousehold ends, with or without the script.
BuildCommits(h) ==
    /\ home[h] = "open"
    /\ home' = [home EXCEPT ![h] = "kept"]
    /\ built' = [built EXCEPT ![h] = IF @ = "waiting" THEN "made" ELSE @]
    /\ UNCHANGED <<target, step, report, round, runs, sessions, doomed, faulty>>

BuildRollsBack(h) ==
    /\ home[h] = "open"
    /\ home' = [home EXCEPT ![h] = "none"]
    /\ built' = [built EXCEPT ![h] = "failed"]
    /\ UNCHANGED <<target, step, report, round, runs, sessions, doomed, faulty>>

\* The connection breaks while the database is still at the transaction.
BuildIsCutOff(h) ==
    /\ home[h] = "open" /\ built[h] = "waiting" /\ step = "setup"
    /\ built' = [built EXCEPT ![h] = "failed"]
    /\ faulty' = TRUE
    /\ UNCHANGED <<target, step, report, home, round, runs, sessions, doomed>>

SetupSucceeds ==
    /\ \A h \in Household : built[h] = "made"
    /\ step' = "probing"
    /\ report' = report

\* Mutant: the households are awaited with Promise.all.
SetupFailsFast ==
    /\ step = "setup"
    /\ \/ SetupSucceeds
       \/ (\E h \in Household : built[h] = "failed") /\ Fails
    /\ UNCHANGED <<target, home, built, round, runs, sessions, doomed, faulty>>

\* settledAll: nothing goes on before both transactions have settled.
SetupSettles ==
    /\ step = "setup"
    /\ \A h \in Household : built[h] # "waiting"
    /\ \/ SetupSucceeds
       \/ (\E h \in Household : built[h] = "failed") /\ Fails
    /\ UNCHANGED <<target, home, built, round, runs, sessions, doomed, faulty>>

\* runToTerminal posts the runs at once.
PostRuns ==
    /\ step = "probing" /\ runs = NoRuns /\ RunsOf(CurrentProbe) # {}
    /\ runs' = [s \in Slot |-> IF s \in RunsOf(CurrentProbe) THEN "sent" ELSE "none"]
    /\ UNCHANGED <<target, step, report, home, built, round, sessions, doomed, faulty>>

\* The application: a run belongs to its household, a session to nobody.
Enqueue(s) ==
    /\ runs[s] = "sent"
    /\ runs' = [runs EXCEPT ![s] = IF home[Its] = "kept" THEN "queued" ELSE "gone"]
    /\ UNCHANGED <<target, step, report, home, built, round, sessions, doomed, faulty>>

StartRun(s) ==
    /\ runs[s] = "queued"
    /\ runs' = [runs EXCEPT ![s] = "running"]
    /\ UNCHANGED <<target, step, report, home, built, round, sessions, doomed, faulty>>

SaveSession(s) ==
    /\ runs[s] = "running" /\ Its \notin sessions
    /\ sessions' = sessions \cup {Its}
    /\ UNCHANGED <<target, step, report, home, built, round, runs, doomed, faulty>>

FinishRun(s) ==
    /\ runs[s] = "running"
    /\ \E result \in IF home[Its] = "kept" THEN {"good", "bad"} ELSE {"gone"} :
           runs' = [runs EXCEPT ![s] = result]
    /\ UNCHANGED <<target, step, report, home, built, round, sessions, doomed, faulty>>

Passes ==
    /\ runs' = NoRuns
    /\ IF round < RoundsOf(CurrentProbe)
       THEN round' = round + 1 /\ UNCHANGED <<step, report>>
       ELSE /\ round' = 1
            /\ report' = [report EXCEPT !.evidence = @ + 1]
            /\ step' = IF PROBES[target][report.evidence + 2] = "cleanup"
                       THEN "cleanup" ELSE step

\* drainAndCollectTerminalRunResults, and what the probe asserts of the result.
CollectResults ==
    /\ step = "probing"
    /\ runs # NoRuns \/ RunsOf(CurrentProbe) = {}
    /\ \A s \in RunsOf(CurrentProbe) : runs[s] \in {"good", "bad"}
    /\ \/ (\A s \in RunsOf(CurrentProbe) : runs[s] = "good") /\ Passes
       \/ /\ RunsOf(CurrentProbe) = {} \/ \E s \in Slot : runs[s] = "bad"
          /\ step' = "cleanup"
          /\ report' = [report EXCEPT !.status = "BLOCKED"]
          /\ UNCHANGED <<round, runs>>
    /\ UNCHANGED <<target, home, built, sessions, doomed, faulty>>

\* A request or a query of the probe fails, or its deadline passes; the runs go on.
ProbeErrs ==
    /\ step = "probing"
    /\ Fails
    /\ UNCHANGED <<target, home, built, round, runs, sessions, doomed, faulty>>

SelectHomes ==
    /\ step = "cleanup"
    /\ step' = "removing"
    /\ doomed' = {h \in Household : home[h] = "kept"}
    /\ UNCHANGED <<target, report, home, built, round, runs, sessions, faulty>>

\* The transaction of removeFixtureHousehold; the household's queued runs go with it.
Removed(S) ==
    /\ home' = [h \in Household |-> IF h \in S THEN "none" ELSE home[h]]
    /\ sessions' = sessions \ S
    /\ runs' = [s \in Slot |-> IF runs[s] = "queued" /\ Its \in S THEN "gone" ELSE runs[s]]

RemoveFixtureHousehold(h) ==
    /\ step = "removing" /\ h \in doomed
    /\ Removed({h})
    /\ doomed' = doomed \ {h}
    /\ UNCHANGED <<target, step, report, built, round, faulty>>

\* A query of the cleanup fails, before or after the removal it was part of.
CleanupFails ==
    /\ step = "removing"
    /\ \E S \in SUBSET doomed : Removed(S)
    /\ step' = "ended" /\ faulty' = TRUE /\ doomed' = {}
    /\ report' = [report EXCEPT !.status = IF @ = "passed" THEN "BLOCKED" ELSE @]
    /\ UNCHANGED <<target, built, round>>

CleanupSucceeds ==
    /\ step = "removing" /\ doomed = {}
    /\ step' = "ended"
    /\ report' = [report EXCEPT !.evidence = IF report.status = "passed" THEN @ + 1 ELSE @]
    /\ UNCHANGED <<target, home, built, round, runs, sessions, doomed, faulty>>

ProbesAreKilled ==
    /\ step \notin {"ended", "killed"}
    /\ step' = "killed" /\ doomed' = {}
    /\ UNCHANGED <<target, report, home, built, round, runs, sessions, faulty>>

\* release-probes --cleanup-only, as the report and the first line printed name it.
CleanupOnly ==
    /\ step = "killed" \/ (step = "ended" /\ report.status # "passed")
    /\ \E S \in SUBSET {h \in Household : home[h] = "kept"} : S # {} /\ Removed(S)
    /\ UNCHANGED <<target, step, report, built, round, doomed, faulty>>

ProbeNext ==
    \/ ProbeHealth \/ SetupSettles \/ PostRuns \/ CollectResults \/ ProbeErrs
    \/ SelectHomes \/ CleanupFails \/ CleanupSucceeds \/ ProbesAreKilled \/ CleanupOnly
    \/ \E h \in Household :
           \/ BuildCommits(h) \/ BuildRollsBack(h) \/ BuildIsCutOff(h)
           \/ RemoveFixtureHousehold(h)
    \/ \E s \in Slot : Enqueue(s) \/ StartRun(s) \/ SaveSession(s) \/ FinishRun(s)

ProbeSpec == ProbeInit /\ [][ProbeNext]_probeVars

\* removeProbeHouseholds deletes both fixture households of a probe run and proves none
\* remain: when the script has ended, a household is left only where the database lost an
\* answer or the removal failed, and then the report has not passed.  A report that passed
\* names every probe, and no run of it can leave an agent session behind any more.
ProbesLeaveNothing ==
    step = "ended" =>
        /\ (\E h \in Household : home[h] # "none") => faulty /\ report.status # "passed"
        /\ report.status = "passed" =>
               /\ report.evidence = Len(PROBES[target])
               /\ sessions = {}
               /\ \A s \in Slot : runs[s] \notin Executing
=============================================================================
