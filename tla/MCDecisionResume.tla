-------------------------- MODULE MCDecisionResume --------------------------
(***************************************************************************)
(* One invitation session with a request that raises questions and the     *)
(* resume runs that answer the first one, with a yes and with a no.        *)
(***************************************************************************)
EXTENDS DecisionResume, TLC

CONSTANTS submit, resume, refuse, s, inv, guest, host, d1, d2

MCSessionOf == [r \in Run |-> s]
MCInvitationOf == [r \in Run |-> inv]
MCActorOf == [r \in Run |-> IF r = submit THEN guest ELSE host]
MCSessionAsking == [d \in Decision |-> s]
MCAnswerOf == [r \in Resume |-> d1]
MCVerdict == [r \in Resume |-> IF r = refuse THEN "declined" ELSE "approved"]

WorkerSymmetry == Permutations(Worker)
=============================================================================
