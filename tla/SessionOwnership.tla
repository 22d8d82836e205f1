-------------------------- MODULE SessionOwnership --------------------------
(***************************************************************************)
(* What the run queue promises about sessions, without leases, tokens,     *)
(* attempts or workers: a session is owned by at most one run at a time,   *)
(* passes from one run to another only through being free, and a run that  *)
(* is answered for good never owns its session again.                      *)
(***************************************************************************)
CONSTANTS Run, Session, SessionOf, Repeatable, Nobody

VARIABLES
    owner,      \* the run executing in each session
    answered    \* the runs whose answer is final

Init ==
    /\ owner = [s \in Session |-> Nobody]
    /\ answered = {}

Acquire(r) ==
    /\ r \notin answered
    /\ owner[SessionOf[r]] = Nobody
    /\ owner' = [owner EXCEPT ![SessionOf[r]] = r]
    /\ UNCHANGED answered

Answer(r) ==
    /\ owner[SessionOf[r]] = r
    /\ owner' = [owner EXCEPT ![SessionOf[r]] = Nobody]
    /\ answered' = IF r \in Repeatable THEN answered ELSE answered \cup {r}

\* The runs of some sessions give them up without an answer.
Release(S) ==
    /\ owner' = [s \in Session |-> IF s \in S THEN Nobody ELSE owner[s]]
    /\ UNCHANGED answered

Next ==
    \/ \E r \in Run : Acquire(r) \/ Answer(r)
    \/ \E S \in SUBSET Session : Release(S)

Spec == Init /\ [][Next]_<<owner, answered>>
=============================================================================
