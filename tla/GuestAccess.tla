---------------------------- MODULE GuestAccess ----------------------------
(***************************************************************************)
(* The private link of one invitation (core/booking/invitations.ts): it is *)
(* minted when the agent captures the invitation, handed to the host by    *)
(* minting it anew, extended by the booking transactions, and revoked by   *)
(* the withdrawal.  Each action is one transaction that locks the          *)
(* invitation's row.  A link is named by the order it was minted in.       *)
(***************************************************************************)
EXTENDS Naturals, FiniteSetsExt

CONSTANTS
    LinkLifetime,   \* days a link is good for (30)
    Grace,          \* days it is good for after the stay (7)
    LastDay,        \* bound on the days
    MaxLinks        \* bound on the links minted

ASSUME AccessAssumption ==
    {LinkLifetime, Grace, LastDay} \subseteq Nat /\ MaxLinks \in Nat \ {0}

VARIABLES
    today,
    invitation,     \* the row of invitations
    stay,           \* its visit: whether it is confirmed, and the last day
    capability      \* the guest's return cookie: the link it was minted for, its expiry

accessVars == <<today, invitation, stay, capability>>

Day == 0..LastDay
AnyDay == 0..(LastDay + LinkLifetime + Grace)

AccessTypeOK ==
    /\ today \in Day
    /\ invitation \in [status : {"absent", "open", "cancelled"}, link : 0..MaxLinks,
                       expires : AnyDay]
    /\ stay \in [status : {"none", "confirmed", "cancelled"}, end : Day]
    /\ capability \in [link : 0..MaxLinks, expires : AnyDay]

AccessInit ==
    /\ today = 0
    /\ invitation = [status |-> "absent", link |-> 0, expires |-> 0]
    /\ stay = [status |-> "none", end |-> 0]
    /\ capability = [link |-> 0, expires |-> 0]

Later(S) == Max(S)

\* findInvitationByToken
Opens(link) ==
    invitation.status = "open" /\ link = invitation.link /\ invitation.expires > today

CaptureInvitation ==
    /\ invitation.status = "absent"
    /\ invitation' = [status |-> "open", link |-> 1, expires |-> today + LinkLifetime]
    /\ UNCHANGED <<today, stay, capability>>

\* Mutant: a new link lasts its thirty days, whatever was booked.
ReissueForThirtyDays ==
    /\ invitation.status = "open" /\ invitation.link < MaxLinks
    /\ invitation' = [invitation EXCEPT !.link = @ + 1, !.expires = today + LinkLifetime]
    /\ UNCHANGED <<today, stay, capability>>

ReissueInvitationLink ==
    /\ invitation.status = "open" /\ invitation.link < MaxLinks
    /\ invitation' = [invitation EXCEPT
           !.link = @ + 1,
           !.expires = Later({today + LinkLifetime}
                             \cup IF stay.status = "confirmed" THEN {stay.end + Grace} ELSE {})]
    /\ UNCHANGED <<today, stay, capability>>

ExtendedForStay(end) == [invitation EXCEPT !.expires = Later({@, end + Grace})]

\* confirmVisit and rescheduleVisit, whoever calls them
BookStay(end) ==
    /\ invitation.status = "open"
    /\ end >= today
    /\ stay' = [status |-> "confirmed", end |-> end]
    /\ invitation' = ExtendedForStay(end)
    /\ UNCHANGED <<today, capability>>

CancelStay ==
    /\ stay.status = "confirmed"
    /\ stay' = [stay EXCEPT !.status = "cancelled"]
    /\ UNCHANGED <<today, invitation, capability>>

WithdrawLink ==
    /\ invitation.status = "open"
    /\ invitation' = [invitation EXCEPT !.status = "cancelled"]
    /\ stay' = IF stay.status = "confirmed" THEN [stay EXCEPT !.status = "cancelled"] ELSE stay
    /\ UNCHANGED <<today, capability>>

\* The cookie of a verified contact; it carries a fingerprint of the link's hash.
MintGuestCapability ==
    /\ Opens(invitation.link)
    /\ capability' = [link |-> invitation.link,
                      expires |-> Min({today + LinkLifetime, invitation.expires})]
    /\ UNCHANGED <<today, invitation, stay>>

DayPasses ==
    /\ today < LastDay
    /\ today' = today + 1
    /\ UNCHANGED <<invitation, stay, capability>>

AccessNext ==
    \/ CaptureInvitation \/ ReissueInvitationLink \/ CancelStay \/ WithdrawLink
    \/ MintGuestCapability \/ DayPasses
    \/ \E end \in Day : BookStay(end)

AccessSpec == AccessInit /\ [][AccessNext]_accessVars

-----------------------------------------------------------------------------
\* The link the guest was given last is good until a week after a booked stay, however
\* bookings, moves and new links follow on one another (invitations.ts:65-82, 205-228);
\* and no return cookie outlives the link it was minted for (guest-contact.ts:82-105).
GuestsKeepTheirLink ==
    /\ invitation.status = "open" /\ stay.status = "confirmed" =>
           invitation.expires >= stay.end + Grace
    /\ capability.link = invitation.link => capability.expires <= invitation.expires
=============================================================================
