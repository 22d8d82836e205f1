---------------------------- MODULE MCRunQueue ----------------------------
(***************************************************************************)
(* A home with one invitation session that two intents compete for and a   *)
(* scheduled tick with a session of its own.                               *)
(***************************************************************************)
EXTENDS RunQueue, TLC

CONSTANTS submit, change, tick, invSession, tickSession, inv, guest, job

MCSessionOf == [r \in Run |-> IF r = tick THEN tickSession ELSE invSession]
MCInvitationOf == [r \in Run |-> inv]
MCActorOf == [r \in Run |-> IF r = tick THEN job ELSE guest]

WorkerSymmetry == Permutations(Worker)
=============================================================================
