------------------------- MODULE MCReconfirmation -------------------------
(***************************************************************************)
(* One cron, one queue worker and, where the run says so, one runtime, for *)
(* a guest and one or both of the hosts of a home.                         *)
(***************************************************************************)
EXTENDS Reconfirmation

CONSTANTS cron, runtime, worker, guest, juan, jordan
=============================================================================
