------------------------------ MODULE HostPings ------------------------------
(***************************************************************************)
(* Email pings to hosts (core/notifications/email-outbox.ts): one row of   *)
(* host_email_pings for one pending decision or escalation and one host.   *)
(* Requests and ticks dispatch without knowing of each other; a dispatch   *)
(* lists the candidates once and then goes through them one by one, so     *)
(* what it listed may be long out of date when it claims the row.          *)
(*                                                                         *)
(* Unlike the guests' outbox there is no claim token: who marks the row    *)
(* does not look whether it still is the claimant.                         *)
(***************************************************************************)
EXTENDS Naturals, FiniteSets

CONSTANTS
    Sender,     \* calls of dispatchHostEmailPings
    Address     \* what the host's first address can be

VARIABLES
    wanted,     \* the source is open, not withdrawn, and the host wants pings
    address,    \* the address the host's claims give now
    ping,       \* the row of host_email_pings
    sender,     \* where each dispatch stands, and what it read
    mails       \* emails the provider took

pingVars == <<wanted, address, ping, sender, mails>>

PingStatus == {"none", "sending", "sent", "failed"}

PingTypeOK ==
    /\ wanted \in BOOLEAN
    /\ address \in Address
    /\ ping \in [status : PingStatus, obsolete : BOOLEAN, old : BOOLEAN]
    /\ sender \in [Sender -> [at : {"idle", "claim", "check", "send", "mark", "fail", "done"},
                              status : PingStatus, old : BOOLEAN, address : Address]]
    /\ mails \in 0..Cardinality(Sender)

PingInit ==
    /\ wanted = TRUE
    /\ address \in Address
    /\ ping = [status |-> "none", obsolete |-> FALSE, old |-> FALSE]
    /\ sender = [s \in Sender |->
                    [at |-> "idle", status |-> "none", old |-> FALSE, address |-> address]]
    /\ mails = 0

-----------------------------------------------------------------------------
\* The notice's end and return (a rescheduled visit can be escalated again), the host's
\* setting and the host's address.
NoticeChanges ==
    /\ wanted' = ~wanted
    /\ UNCHANGED <<address, ping, sender, mails>>

AddressChanges(a) ==
    /\ address' = a
    /\ UNCHANGED <<wanted, ping, sender, mails>>

\* created_at is five minutes back; a reclaim does not set it again.
PingAges ==
    /\ ping.status # "none" /\ ~ping.old
    /\ ping' = [ping EXCEPT !.old = TRUE]
    /\ UNCHANGED <<wanted, address, sender, mails>>

-----------------------------------------------------------------------------
At(s, location) == sender[s].at = location

Goto(s, location) == sender' = [sender EXCEPT ![s].at = location]

Candidate == wanted /\ ~ping.obsolete

\* The row's status and age are those of the moment the dispatch began.
SelectPendingPings(s) ==
    /\ At(s, "idle")
    /\ Candidate
    /\ sender' = [sender EXCEPT ![s] = [at |-> "claim", status |-> ping.status,
                                        old |-> ping.old, address |-> address]]
    /\ UNCHANGED <<wanted, address, ping, mails>>

\* insert ... on conflict do nothing
ClaimNewPing(s) ==
    /\ At(s, "claim") /\ sender[s].status = "none"
    /\ ping.status = "none"
    /\ ping' = [status |-> "sending", obsolete |-> FALSE, old |-> FALSE]
    /\ Goto(s, "check")
    /\ UNCHANGED <<wanted, address, mails>>

\* Mutant: the age of the row is not looked at.
ReclaimAnyPing(s) ==
    /\ At(s, "claim") /\ sender[s].status \in {"sending", "failed"}
    /\ ping.status = sender[s].status
    /\ ping' = [ping EXCEPT !.status = "sending", !.obsolete = FALSE]
    /\ Goto(s, "check")
    /\ UNCHANGED <<wanted, address, mails>>

ReclaimStalePing(s) ==
    /\ At(s, "claim") /\ sender[s].status \in {"sending", "failed"} /\ sender[s].old
    /\ ping.status = sender[s].status
    /\ ping' = [ping EXCEPT !.status = "sending", !.obsolete = FALSE]
    /\ Goto(s, "check")
    /\ UNCHANGED <<wanted, address, mails>>

\* Sent already, too young, or taken by another dispatch meanwhile.
SkipPing(s) ==
    /\ At(s, "claim")
    /\ IF sender[s].status = "none" THEN ping.status # "none"
       ELSE sender[s].status = "sent" \/ ~sender[s].old \/ ping.status # sender[s].status
    /\ Goto(s, "done")
    /\ UNCHANGED <<wanted, address, ping, mails>>

\* The claimed candidate is selected once more; an obsolete one stays failed for good.
Revalidate(s) ==
    /\ At(s, "check")
    /\ IF Candidate /\ address = sender[s].address
       THEN Goto(s, "send") /\ UNCHANGED ping
       ELSE /\ Goto(s, "done")
            /\ ping' = IF ping.status = "sending"
                       THEN [ping EXCEPT !.status = "failed", !.obsolete = TRUE] ELSE ping
    /\ UNCHANGED <<wanted, address, mails>>

SendPing(s) ==
    /\ At(s, "send")
    /\ mails' = mails + 1
    /\ Goto(s, "mark")
    /\ UNCHANGED <<wanted, address, ping>>

\* The provider refuses, or its answer is lost.
SendPingFails(s) ==
    /\ At(s, "send")
    /\ mails' \in {mails, mails + 1}
    /\ Goto(s, "fail")
    /\ UNCHANGED <<wanted, address, ping>>

MarkPingSent(s) ==
    /\ At(s, "mark")
    /\ ping' = [ping EXCEPT !.status = "sent"]
    /\ Goto(s, "done")
    /\ UNCHANGED <<wanted, address, mails>>

\* The catch block covers the second selection and the update to 'sent' too, and
\* overwrites any status.
MarkPingFailed(s) ==
    /\ At(s, "fail") \/ At(s, "check") \/ At(s, "mark")
    /\ ping' = [ping EXCEPT !.status = "failed", !.obsolete = FALSE]
    /\ Goto(s, "done")
    /\ UNCHANGED <<wanted, address, mails>>

SenderDies(s) ==
    /\ sender[s].at \notin {"idle", "done"}
    /\ Goto(s, "done")
    /\ UNCHANGED <<wanted, address, ping, mails>>

PingNext ==
    \/ NoticeChanges \/ PingAges
    \/ \E a \in Address : AddressChanges(a)
    \/ \E s \in Sender :
          \/ SelectPendingPings(s) \/ ClaimNewPing(s) \/ ReclaimStalePing(s) \/ SkipPing(s)
          \/ Revalidate(s) \/ SendPing(s) \/ SendPingFails(s) \/ MarkPingSent(s)
          \/ MarkPingFailed(s) \/ SenderDies(s)

PingSpec == PingInit /\ [][PingNext]_pingVars

-----------------------------------------------------------------------------
\* "sent" is only ever said of an email that the provider took, and within the five
\* minutes a host has at most one, however many dispatches find the notice
\* (email-outbox.ts:205-210): the second email of a notice needs a dispatch that
\* failed, died or was slow, and an old row.
FreshPingsAreSentOnce ==
    /\ ping.status = "sent" => mails >= 1
    /\ ~ping.old => mails <= 1
=============================================================================
