--------------------------- MODULE VisitLifecycle ---------------------------
(***************************************************************************)
(* What reconfirmation promises about a booked visit, as                   *)
(* docs/architecture/reconfirmation-state-machine.mmd draws it: the guest  *)
(* is asked once per booked stay, and hosts are called in only when the    *)
(* guest has had a day to answer.  The promise has one gap: a stay booked  *)
(* between a request or an answer and the jobs that follow from it may     *)
(* get the hosts called in early.                                          *)
(***************************************************************************)
VARIABLES
    visit,      \* visits.status
    waited,     \* a day has passed since the guest was asked about this stay
    rushed      \* this stay was booked in the middle of a follow-up

lifecycle == <<visit, waited, rushed>>

Init == visit = "confirmed" /\ waited = FALSE /\ rushed = FALSE

Ask == visit = "confirmed" /\ visit' = "reconfirm_pending" /\ UNCHANGED <<waited, rushed>>

DayPasses ==
    /\ visit \in {"reconfirm_pending", "reconfirmed", "escalated"}
    /\ waited' = TRUE
    /\ UNCHANGED <<visit, rushed>>

Answer == visit = "reconfirm_pending" /\ visit' = "reconfirmed" /\ UNCHANGED <<waited, rushed>>

Escalate ==
    /\ visit = "reconfirm_pending"
    /\ waited \/ rushed
    /\ visit' = "escalated"
    /\ UNCHANGED <<waited, rushed>>

Rebook ==
    /\ visit # "cancelled"
    /\ visit' = "confirmed"
    /\ waited' = FALSE
    /\ rushed' \in BOOLEAN

Cancel == visit # "cancelled" /\ visit' = "cancelled" /\ UNCHANGED <<waited, rushed>>

Next == Ask \/ DayPasses \/ Answer \/ Escalate \/ Rebook \/ Cancel

Spec == Init /\ [][Next]_lifecycle
=============================================================================
