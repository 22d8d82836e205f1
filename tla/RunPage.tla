------------------------------ MODULE RunPage ------------------------------
(***************************************************************************)
(* The page that watches one run (components/runs/run-status-poller.tsx,   *)
(* app/api/runs).  An effect polls the status with one timer at a time,    *)
(* rests while the page is hidden, gives up when the run's own deadline    *)
(* has passed, and is replaced by a new effect whenever the status it was  *)
(* started for has changed.                                                *)
(*                                                                         *)
(* The events of the browser are steps: a timer fires, an answer arrives,  *)
(* the page is hidden or shown, React renders after a state change.  A     *)
(* handle that `timer` no longer holds cannot be cleared; it still fires.  *)
(***************************************************************************)
VARIABLES
    run,        \* runs.status; "settled" stands for the three terminal ones
    shown,      \* what the page shows
    effect,     \* the effect alive: the status it polls for, its timer and its request
    visible,    \* not document.hidden
    overdue,    \* Date.now() is past stopAt
    stopped     \* pollStopped: the page offers to look again

pageVars == <<run, shown, effect, visible, overdue, stopped>>

PageStatus == {"queued", "running", "settled"}
Nothing == "nothing"

PageTypeOK ==
    /\ run \in PageStatus /\ shown \in PageStatus
    /\ effect \in [for : PageStatus, timer : {Nothing, "poll", "stop"}, stray : BOOLEAN,
                   request : {"none", "sent", "read"}, answer : PageStatus]
    /\ visible \in BOOLEAN /\ overdue \in BOOLEAN /\ stopped \in BOOLEAN

\* A settled status shown starts no effect.
Fresh(status) ==
    [for |-> status, stray |-> FALSE, request |-> "none", answer |-> status,
     timer |-> IF status # "settled" /\ visible THEN "poll" ELSE Nothing]

PageInit ==
    /\ run = "queued"
    /\ shown = run
    /\ visible = TRUE
    /\ effect = Fresh(run)
    /\ overdue = FALSE
    /\ stopped = FALSE

-----------------------------------------------------------------------------
\* The run starts, is queued again, settles; a host asks for a failed one again.
RunChanges ==
    /\ run' \in PageStatus \ {run}
    /\ UNCHANGED <<shown, effect, visible, overdue, stopped>>

TimePasses ==
    /\ ~overdue /\ overdue' = TRUE
    /\ UNCHANGED <<run, shown, effect, visible, stopped>>

-----------------------------------------------------------------------------
Watching == effect.for # "settled"

\* schedule: the handle it replaces is forgotten, not cleared.
Scheduled(e, inView) ==
    IF ~overdue /\ ~inView THEN e
    ELSE [e EXCEPT !.timer = IF overdue THEN "stop" ELSE "poll",
                   !.stray = @ \/ e.timer = "poll"]

Requested(e) == IF e.request = "none" THEN [e EXCEPT !.request = "sent"] ELSE e

TimerFires ==
    /\ Watching /\ effect.timer = "poll"
    /\ effect' = Requested([effect EXCEPT !.timer = Nothing])
    /\ UNCHANGED <<run, shown, visible, overdue, stopped>>

StrayFires ==
    /\ Watching /\ effect.stray
    /\ effect' = Requested([effect EXCEPT !.stray = FALSE])
    /\ UNCHANGED <<run, shown, visible, overdue, stopped>>

StopFires ==
    /\ Watching /\ effect.timer = "stop"
    /\ effect' = [effect EXCEPT !.timer = Nothing]
    /\ stopped' = TRUE
    /\ UNCHANGED <<run, shown, visible, overdue>>

\* getAuthorizedRunSnapshot
ReadRun ==
    /\ effect.request = "sent"
    /\ effect' = [effect EXCEPT !.request = "read", !.answer = run]
    /\ UNCHANGED <<run, shown, visible, overdue, stopped>>

\* Mutant: an answer that shows nothing new schedules nothing.
AnswerArrivesQuietly ==
    /\ Watching /\ effect.request = "read"
    /\ shown' = effect.answer
    /\ effect' = LET e == [effect EXCEPT !.request = "none"]
                 IN  IF effect.answer = shown THEN e ELSE Scheduled(e, visible)
    /\ UNCHANGED <<run, visible, overdue, stopped>>

AnswerArrives ==
    /\ Watching /\ effect.request = "read"
    /\ shown' = effect.answer
    /\ effect' = LET e == [effect EXCEPT !.request = "none"]
                 IN  IF effect.answer = "settled" THEN e ELSE Scheduled(e, visible)
    /\ UNCHANGED <<run, visible, overdue, stopped>>

\* Lost, refused (a session that ended) or malformed.
RequestFails ==
    /\ Watching /\ effect.request # "none"
    /\ effect' = Scheduled([effect EXCEPT !.request = "none"], visible)
    /\ UNCHANGED <<run, shown, visible, overdue, stopped>>

-----------------------------------------------------------------------------
\* React renders: the old effect is cleaned up, its request aborted, its deadline forgotten.
Render ==
    /\ shown # effect.for
    /\ effect' = Fresh(shown)
    /\ overdue' = FALSE
    /\ UNCHANGED <<run, shown, visible, stopped>>

\* Mutant: coming back to the page does not poll.
PageReturnsQuietly ==
    /\ ~visible /\ visible' = TRUE
    /\ UNCHANGED <<run, shown, effect, overdue, stopped>>

PageReturns ==
    /\ ~visible /\ visible' = TRUE
    /\ effect' = IF Watching THEN Scheduled(effect, TRUE) ELSE effect
    /\ UNCHANGED <<run, shown, overdue, stopped>>

PageHides ==
    /\ visible /\ visible' = FALSE
    /\ effect' = [effect EXCEPT !.timer = Nothing]
    /\ UNCHANGED <<run, shown, overdue, stopped>>

\* retryStatus: a new cycle polls at once, past the deadline or not.
LookAgain ==
    /\ stopped /\ Watching
    /\ stopped' = FALSE
    /\ overdue' = FALSE
    /\ effect' = Fresh(shown)
    /\ UNCHANGED <<run, shown, visible>>

PageNext ==
    \/ RunChanges \/ TimePasses \/ TimerFires \/ StrayFires \/ StopFires
    \/ ReadRun \/ AnswerArrives \/ RequestFails \/ Render
    \/ PageReturns \/ PageHides \/ LookAgain

PageSpec == PageInit /\ [][PageNext]_pageVars

-----------------------------------------------------------------------------
\* A page in view that shows an unfinished run is going to ask again, is asking, or says
\* that it has stopped, in whatever order timers, answers, renders and changes of
\* visibility come (run-status-poller.tsx:83-147): no wake-up is lost.
PageKeepsWatching ==
    visible /\ shown # "settled" =>
        stopped \/ shown # effect.for \/ effect.timer # Nothing \/ effect.stray
        \/ effect.request # "none"
=============================================================================
