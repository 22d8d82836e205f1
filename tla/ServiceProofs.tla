---------------------------- MODULE ServiceProofs ----------------------------
(***************************************************************************)
(* Proofs about services around bookings and runs, for any number of       *)
(* callers, addresses, accounts, links, erasures, homes and claims, and    *)
(* about their sum.                                                        *)
(***************************************************************************)
EXTENDS MCServices, GuestOutboxProofs, RoomChoiceProofs, FiniteSets, FiniteSetTheorems, TLAPS

-----------------------------------------------------------------------------
(***************************************************************************)
(* Accounts                                                                *)
(***************************************************************************)

AccountInv == AccountTypeOK /\ ClaimsNameTheHostsAccount

LEMMA AccountStep == AccountInv /\ [AccountNext]_accountVars => AccountInv'
<1> SUFFICES ASSUME AccountInv, [AccountNext]_accountVars PROVE AccountInv'
  OBVIOUS
<1> USE AccountsAssumption DEF AccountInv, AccountTypeOK, ClaimsNameTheHostsAccount
<1>1. ASSUME NEW u \in User, NEW e \in Email, ClaimHostIdentity(u, e) PROVE AccountInv'
  <2>1. AccountTypeOK'
    BY <1>1 DEF ClaimHostIdentity
  <2>2. ASSUME NEW d \in Email, claimUser'[d] # NoUser PROVE hostUser'[HostOf[d]] = claimUser'[d]
    <3>1. hostUser'[HostOf[e]] = u /\ claimUser'[e] = u
      BY <1>1 DEF ClaimHostIdentity
    <3>2. CASE d = e
      BY <3>1, <3>2
    <3>3. CASE d # e
      <4>1. claimUser'[d] = claimUser[d] /\ hostUser[HostOf[d]] = claimUser[d]
        BY <1>1, <2>2, <3>3 DEF ClaimHostIdentity
      <4>2. CASE HostOf[d] = HostOf[e]
        BY <1>1, <2>2, <3>1, <4>1, <4>2 DEF ClaimHostIdentity, FreeFor
      <4>3. CASE HostOf[d] # HostOf[e]
        BY <1>1, <4>1, <4>3 DEF ClaimHostIdentity
      <4> QED BY <4>2, <4>3
    <3> QED BY <3>2, <3>3
  <2> QED BY <2>1, <2>2
<1>2. ASSUME NEW u \in User, NEW p \in Guests, ClaimPartyForUser(u, p) PROVE AccountInv'
  BY <1>2 DEF ClaimPartyForUser
<1>3. ASSUME NEW u \in User, DeleteAccount(u) PROVE AccountInv'
  BY <1>3 DEF DeleteAccount, Emptied
<1>4. ASSUME NEW p \in Guests, LinkChanges(p) PROVE AccountInv'
  BY <1>4 DEF LinkChanges
<1>5. CASE UNCHANGED accountVars
  BY <1>5 DEF accountVars
<1> QED BY <1>1, <1>2, <1>3, <1>4, <1>5 DEF AccountNext

LEMMA AccountStart == AccountInit => AccountInv
BY AccountsAssumption DEF AccountInit, AccountInv, AccountTypeOK, ClaimsNameTheHostsAccount

\* No address names another account than its host, whoever signs in and whatever
\* accounts are deleted (host-identity.ts:16-61).
THEOREM OneAccountPerHost == AccountSpec => []ClaimsNameTheHostsAccount
<1>1. AccountInit => AccountInv
  BY AccountStart
<1>2. AccountInv => ClaimsNameTheHostsAccount
  BY DEF AccountInv
<1> QED BY <1>1, <1>2, AccountStep, PTL DEF AccountSpec

-----------------------------------------------------------------------------
(***************************************************************************)
(* The calendar feed                                                       *)
(***************************************************************************)

\* Only a visit that is in the feed was served.
ServedWereListed == copies # {} => Listed

CalendarInv == CalendarTypeOK /\ ServedWereListed /\ SequenceTellsTheLatest

LEMMA CalendarStep == CalendarInv /\ [CalendarNext]_calendarVars => CalendarInv'
<1> SUFFICES ASSUME CalendarInv, [CalendarNext]_calendarVars PROVE CalendarInv'
  OBVIOUS
<1> USE CalendarAssumption
        DEF CalendarInv, CalendarTypeOK, EntryStatus, Event, ServedWereListed,
            SequenceTellsTheLatest, SaysTheSame, Listed
\* An entry that was served changes with its sequence, but for its labels.
<1>1. ASSUME copies' = copies, CalendarTypeOK', Listed => Listed',
             \/ entry'.sequence > entry.sequence
             \/ entry'.sequence = entry.sequence /\ (Listed => SaysTheSame(Published', Published))
      PROVE  CalendarInv'
  <2>1. SequenceTellsTheLatest'
    <3>1. /\ entry.sequence \in Int /\ entry'.sequence \in Int
          /\ \A c \in copies : c.sequence \in Int
      BY <1>1
    <3> QED BY <1>1, <3>1
  <2> QED BY <1>1, <2>1
<1>2. CASE \/ ConfirmEntry \/ CancelEntry
           \/ \E s \in Stay, n \in GuestCount, l \in RoomLabels : RescheduleEntry(s, n, l)
  <2>1. copies' = copies /\ feed' = feed
    BY <1>2 DEF ConfirmEntry, CancelEntry, RescheduleEntry
  <2>2. /\ CalendarTypeOK' /\ (Listed => Listed')
        /\ entry'.sequence = NextSequence
    <3>1. NextSequence \in 0..MaxSequence
      BY <1>2 DEF ConfirmEntry, CancelEntry, RescheduleEntry, NextSequence, Counted
    <3> HIDE DEF NextSequence
    <3>2. CASE ConfirmEntry
      BY <2>1, <3>1, <3>2 DEF ConfirmEntry
    <3>3. CASE CancelEntry
      BY <2>1, <3>1, <3>3 DEF CancelEntry
    <3>4. CASE \E s \in Stay, n \in GuestCount, l \in RoomLabels : RescheduleEntry(s, n, l)
      BY <2>1, <3>1, <3>4 DEF RescheduleEntry
    <3> QED BY <1>2, <3>2, <3>3, <3>4
  <2>3. CASE entry.eligible
    BY <1>1, <2>1, <2>2, <2>3 DEF NextSequence
  <2>4. CASE ~entry.eligible
    BY <1>1, <2>1, <2>2, <2>4 DEF NextSequence
  <2> QED BY <2>3, <2>4
<1>3. CASE ReconfirmEntry
  <2>1. /\ CalendarTypeOK' /\ copies' = copies /\ (Listed => Listed')
        /\ entry'.sequence = entry.sequence /\ Published' = Published
    BY <1>3 DEF ReconfirmEntry, Published
  <2> QED BY <1>1, <2>1
<1>4. CASE LoadCalendarFeed
  <2>1. /\ copies' = copies \cup {Published} /\ entry' = entry /\ feed' = feed /\ Listed
        /\ Published' = Published
    BY <1>4 DEF LoadCalendarFeed, Published
  <2>2. Published \in Event /\ Published.sequence = entry.sequence
    BY DEF Published
  <2>3. CalendarTypeOK'
    BY <2>1, <2>2
  <2>4. SequenceTellsTheLatest'
    <3>1. entry.sequence <= entry.sequence
      OBVIOUS
    <3> HIDE DEF Event, Listed, EntryStatus
    <3> QED BY <2>1, <2>2, <3>1
  <2> QED BY <2>1, <2>3, <2>4
<1>5. CASE IssueCalendarFeed \/ RevokeCalendarFeed \/ UNCHANGED calendarVars
  <2>1. /\ CalendarTypeOK' /\ copies' = copies /\ (Listed => Listed')
        /\ entry'.sequence = entry.sequence /\ Published' = Published
    BY <1>5 DEF IssueCalendarFeed, RevokeCalendarFeed, calendarVars, Published
  <2> QED BY <1>1, <2>1
<1>6. ASSUME NEW l \in RoomLabels, RelabelRoom(l) PROVE CalendarInv'
  <2>1. /\ CalendarTypeOK' /\ copies' = copies /\ (Listed => Listed')
        /\ entry'.sequence = entry.sequence /\ SaysTheSame(Published', Published)
    BY <1>6 DEF RelabelRoom, Published
  <2> QED BY <1>1, <2>1
<1> QED BY <1>2, <1>3, <1>4, <1>5, <1>6 DEF CalendarNext

LEMMA CalendarStart == CalendarInit => CalendarInv
BY CalendarAssumption
   DEF CalendarInit, CalendarInv, CalendarTypeOK, EntryStatus, Event, ServedWereListed,
       SequenceTellsTheLatest

\* The copy with the highest sequence has the latest dates, status and guests, in whatever
\* order copies arrive and whatever rooms are called (holds.ts:317-323, 384-386, 508-513).
THEOREM LatestCopyWins == CalendarSpec => []SequenceTellsTheLatest
<1>1. CalendarInit => CalendarInv
  BY CalendarStart
<1>2. CalendarInv => SequenceTellsTheLatest
  BY DEF CalendarInv
<1> QED BY <1>1, <1>2, CalendarStep, PTL DEF CalendarSpec

-----------------------------------------------------------------------------
(***************************************************************************)
(* Private links                                                           *)
(***************************************************************************)

\* Links are numbered as they are minted, and a cookie is for one that was.
LinksAreNumbered ==
    /\ capability.link <= invitation.link
    /\ invitation.status = "absent" => invitation.link = 0 /\ stay.status # "confirmed"

\* The types without the bounds.
LinkTypes ==
    /\ today \in Nat
    /\ invitation \in [status : {"absent", "open", "cancelled"}, link : Nat, expires : Nat]
    /\ stay \in [status : {"none", "confirmed", "cancelled"}, end : Nat]
    /\ capability \in [link : Nat, expires : Nat]

AccessInv == LinkTypes /\ LinksAreNumbered /\ GuestsKeepTheirLink

LEMMA LaterFacts ==
    ASSUME NEW S, NEW a \in Nat, NEW b \in Nat, S = {a, b}
    PROVE  Later(S) \in Nat /\ Later(S) >= a /\ Later(S) >= b
<1>1. \E x \in S : \A y \in S : x >= y
  <2>1. CASE a >= b
    BY <2>1
  <2>2. CASE b >= a
    BY <2>2
  <2> QED BY <2>1, <2>2
<1> QED BY <1>1 DEF Later, Max

LEMMA EarlierFacts ==
    ASSUME NEW a \in Nat, NEW b \in Nat
    PROVE  Min({a, b}) \in Nat /\ Min({a, b}) <= a /\ Min({a, b}) <= b
<1>1. \E x \in {a, b} : \A y \in {a, b} : x <= y
  <2>1. CASE a <= b
    BY <2>1
  <2>2. CASE b <= a
    BY <2>2
  <2> QED BY <2>1, <2>2
<1> QED BY <1>1 DEF Min

LEMMA AccessStep == AccessInv /\ [AccessNext]_accessVars => AccessInv'
<1> SUFFICES ASSUME AccessInv, [AccessNext]_accessVars PROVE AccessInv'
  OBVIOUS
<1> USE AccessAssumption DEF AccessInv, LinkTypes, LinksAreNumbered, GuestsKeepTheirLink
<1>1. CASE CaptureInvitation
  BY <1>1 DEF CaptureInvitation
<1>2. CASE ReissueInvitationLink
  <2>1. PICK expires : expires = Later({today + LinkLifetime}
                \cup IF stay.status = "confirmed" THEN {stay.end + Grace} ELSE {})
    OBVIOUS
  <2>2. /\ expires \in Nat
        /\ stay.status = "confirmed" => expires >= stay.end + Grace
    <3>1. CASE stay.status = "confirmed"
      BY <2>1, <3>1, LaterFacts
    <3>2. CASE stay.status # "confirmed"
      BY <2>1, <3>2, LaterFacts
    <3> QED BY <3>1, <3>2
  <2>3. /\ invitation' = [status |-> "open", link |-> invitation.link + 1, expires |-> expires]
        /\ UNCHANGED <<today, stay, capability>> /\ invitation.status = "open"
    BY <1>2, <2>1 DEF ReissueInvitationLink
  <2>4. /\ LinkTypes' /\ invitation'.link = invitation.link + 1
        /\ invitation'.status = "open" /\ invitation'.expires = expires
        /\ stay' = stay /\ capability' = capability
    BY <2>2, <2>3
  <2>5. capability.link <= invitation.link /\ capability.link \in Nat /\ invitation.link \in Nat
    OBVIOUS
  <2>6. capability.link # invitation.link + 1 /\ capability.link <= invitation.link + 1
    BY <2>5
  <2>7. LinksAreNumbered' /\ GuestsKeepTheirLink'
    BY <2>2, <2>4, <2>6
  <2> QED BY <2>4, <2>7
<1>3. ASSUME NEW end \in Day, BookStay(end) PROVE AccessInv'
  <2>1. PICK expires : expires = Later({invitation.expires, end + Grace})
    OBVIOUS
  <2>2. end \in Nat /\ expires \in Nat /\ expires >= invitation.expires /\ expires >= end + Grace
    BY <2>1, LaterFacts DEF Day
  <2>3. /\ invitation' = [invitation EXCEPT !.expires = expires]
        /\ stay' = [status |-> "confirmed", end |-> end]
        /\ UNCHANGED <<today, capability>> /\ invitation.status = "open"
    BY <1>3, <2>1 DEF BookStay, ExtendedForStay
  <2>4. /\ LinkTypes' /\ invitation'.link = invitation.link
        /\ invitation'.status = "open" /\ invitation'.expires = expires
        /\ stay'.end = end /\ capability' = capability
    BY <2>2, <2>3
  <2>5. GuestsKeepTheirLink'
    <3>1. /\ invitation.expires \in Nat /\ capability.expires \in Nat
          /\ capability.link = invitation.link => capability.expires <= invitation.expires
      OBVIOUS
    <3>2. capability.link = invitation.link => capability.expires <= expires
      BY <2>2, <3>1
    <3> QED BY <2>2, <2>4, <3>2
  <2>6. LinksAreNumbered'
    BY <2>4
  <2> QED BY <2>4, <2>5, <2>6
<1>4. CASE CancelStay
  BY <1>4 DEF CancelStay
<1>5. CASE WithdrawLink
  BY <1>5 DEF WithdrawLink
<1>6. CASE MintGuestCapability
  <2>1. PICK expires : expires = Min({today + LinkLifetime, invitation.expires})
    OBVIOUS
  <2>2. expires \in Nat /\ expires <= invitation.expires
    BY <2>1, EarlierFacts
  <2>3. /\ capability' = [link |-> invitation.link, expires |-> expires]
        /\ UNCHANGED <<today, invitation, stay>>
    BY <1>6, <2>1 DEF MintGuestCapability
  <2> QED BY <2>2, <2>3
<1>7. CASE DayPasses
  BY <1>7 DEF DayPasses
<1>8. CASE UNCHANGED accessVars
  BY <1>8 DEF accessVars
<1> QED BY <1>1, <1>2, <1>3, <1>4, <1>5, <1>6, <1>7, <1>8 DEF AccessNext

LEMMA AccessStart == AccessInit => AccessInv
BY AccessAssumption DEF AccessInit, AccessInv, LinkTypes, LinksAreNumbered, GuestsKeepTheirLink

\* Links outlive the stay and cookies do not outlive links, for any terms
\* (invitations.ts:65-82, 205-228; guest-contact.ts:82-105).
THEOREM LinksOutliveStays == AccessSpec => []GuestsKeepTheirLink
<1>1. AccessInit => AccessInv
  BY AccessStart
<1>2. AccessInv => GuestsKeepTheirLink
  BY DEF AccessInv
<1> QED BY <1>1, <1>2, AccessStep, PTL DEF AccessSpec

LEMMA AccessTypesStart == AccessInit => AccessTypeOK
BY AccessAssumption DEF AccessInit, AccessTypeOK, Day, AnyDay

LEMMA AccessTypesStep == AccessTypeOK /\ [AccessNext]_accessVars => AccessTypeOK'
<1> SUFFICES ASSUME AccessTypeOK, [AccessNext]_accessVars PROVE AccessTypeOK'
  OBVIOUS
<1> USE AccessAssumption DEF Day, AnyDay
<1>1. /\ today \in 0..LastDay /\ LastDay \in Nat /\ LinkLifetime \in Nat /\ Grace \in Nat
      /\ MaxLinks \in Nat
  BY DEF AccessTypeOK
<1>2. \A days \in AnyDay, end \in Day : Later({days, end + Grace}) \in AnyDay
  <2> SUFFICES ASSUME NEW days \in AnyDay, NEW end \in Day
               PROVE  Later({days, end + Grace}) \in AnyDay
    OBVIOUS
  <2>1. days \in Nat /\ end + Grace \in Nat /\ days \in AnyDay /\ end + Grace \in AnyDay
    BY <1>1
  <2>2. \E x \in {days, end + Grace} : \A y \in {days, end + Grace} : x >= y
    <3>1. days >= end + Grace \/ end + Grace >= days
      BY <2>1
    <3> QED BY <2>1, <3>1
  <2> QED BY <2>1, <2>2 DEF Later, Max
<1>3. CASE ReissueInvitationLink
  <2>1. Later({today + LinkLifetime}) = today + LinkLifetime
    BY <1>1 DEF Later, Max
  <2>2. stay.end \in Day /\ today + LinkLifetime \in AnyDay
    BY <1>1 DEF AccessTypeOK
  <2> DEFINE days == {today + LinkLifetime}
                     \cup IF stay.status = "confirmed" THEN {stay.end + Grace} ELSE {}
  <2>3. Later(days) \in AnyDay
    <3>1. CASE stay.status = "confirmed"
      <4>1. days = {today + LinkLifetime, stay.end + Grace}
        BY <3>1
      <4> QED BY <1>2, <2>2, <4>1
    <3>2. CASE stay.status # "confirmed"
      <4>1. days = {today + LinkLifetime}
        BY <3>2
      <4> QED BY <2>1, <2>2, <4>1
    <3> QED BY <3>1, <3>2
  <2>4. /\ invitation' = [invitation EXCEPT !.link = @ + 1, !.expires = Later(days)]
        /\ invitation.link < MaxLinks /\ UNCHANGED <<today, stay, capability>>
    BY <1>3 DEF ReissueInvitationLink
  <2> HIDE DEF days
  <2>5. invitation.link + 1 \in 0..MaxLinks
    BY <1>1, <2>4 DEF AccessTypeOK
  <2>6. invitation' \in [status : {"absent", "open", "cancelled"}, link : 0..MaxLinks,
                         expires : AnyDay]
    BY <2>3, <2>4, <2>5 DEF AccessTypeOK
  <2> QED BY <2>4, <2>6 DEF AccessTypeOK
<1>4. ASSUME NEW end \in Day, BookStay(end) PROVE AccessTypeOK'
  <2>1. Later({invitation.expires, end + Grace}) \in AnyDay
    BY <1>2 DEF AccessTypeOK
  <2>2. invitation' \in [status : {"absent", "open", "cancelled"}, link : 0..MaxLinks,
                         expires : AnyDay]
    BY <1>4, <2>1 DEF AccessTypeOK, BookStay, ExtendedForStay
  <2> QED BY <1>4, <2>2 DEF AccessTypeOK, BookStay
<1>5. CASE MintGuestCapability
  <2>1. /\ invitation.expires \in AnyDay /\ invitation.expires \in Nat
        /\ today + LinkLifetime \in Nat /\ today + LinkLifetime \in AnyDay
    BY <1>1 DEF AccessTypeOK
  <2>2. Min({today + LinkLifetime, invitation.expires}) \in AnyDay
    <3>1. /\ Min({today + LinkLifetime, invitation.expires}) \in Nat
          /\ Min({today + LinkLifetime, invitation.expires}) <= today + LinkLifetime
      BY <2>1, EarlierFacts
    <3> QED BY <1>1, <2>1, <3>1
  <2> QED BY <1>5, <2>2 DEF AccessTypeOK, MintGuestCapability
<1>6. CASE CaptureInvitation
  <2>1. today + LinkLifetime \in AnyDay /\ 1 \in 0..MaxLinks
    BY <1>1
  <2> QED BY <1>6, <2>1 DEF AccessTypeOK, CaptureInvitation
<1>7. CASE CancelStay \/ WithdrawLink
  <2>1. stay' \in [status : {"none", "confirmed", "cancelled"}, end : Day]
    BY <1>7 DEF AccessTypeOK, CancelStay, WithdrawLink
  <2>2. invitation' \in [status : {"absent", "open", "cancelled"}, link : 0..MaxLinks,
                         expires : AnyDay]
    BY <1>7 DEF AccessTypeOK, CancelStay, WithdrawLink
  <2>3. UNCHANGED <<today, capability>>
    BY <1>7 DEF CancelStay, WithdrawLink
  <2> QED BY <2>1, <2>2, <2>3 DEF AccessTypeOK
<1>8. CASE DayPasses
  BY <1>1, <1>8 DEF AccessTypeOK, DayPasses
<1>9. CASE UNCHANGED accessVars
  BY <1>9 DEF AccessTypeOK, accessVars
<1> QED BY <1>3, <1>4, <1>5, <1>6, <1>7, <1>8, <1>9 DEF AccessNext

-----------------------------------------------------------------------------
(***************************************************************************)
(* Host pings                                                              *)
(***************************************************************************)

Claimed(s) == sender[s].at \in {"check", "send"}

\* The types without the bound on emails.
PingTypes ==
    /\ wanted \in BOOLEAN
    /\ address \in Address
    /\ ping \in [status : PingStatus, obsolete : BOOLEAN, old : BOOLEAN]
    /\ sender \in [Sender -> [at : {"idle", "claim", "check", "send", "mark", "fail", "done"},
                              status : PingStatus, old : BOOLEAN, address : Address]]
    /\ mails \in Nat

\* Whoever read an old row is right that it is old, and a fresh one was claimed once.
OldStaysOld == \A s \in Sender : sender[s].old => ping.old

NoRowNoMail ==
    ping.status = "none" => mails = 0 /\ ~ping.old /\ \A s \in Sender : ~Claimed(s)

FreshIsClaimedOnce ==
    ~ping.old => /\ mails <= 1
                 /\ \A s \in Sender : Claimed(s) => mails = 0
                 /\ \A s, t \in Sender : Claimed(s) /\ Claimed(t) => s = t

MarkersHaveSent == \A s \in Sender : sender[s].at = "mark" => mails >= 1

PingInv ==
    /\ PingTypes
    /\ OldStaysOld
    /\ NoRowNoMail
    /\ FreshIsClaimedOnce
    /\ MarkersHaveSent
    /\ ping.status = "sent" => mails >= 1

LEMMA PingStep == PingInv /\ [PingNext]_pingVars => PingInv'
<1> SUFFICES ASSUME PingInv, [PingNext]_pingVars PROVE PingInv'
  OBVIOUS
<1> USE DEF PingInv, PingTypes, PingStatus, OldStaysOld, NoRowNoMail, FreshIsClaimedOnce,
            MarkersHaveSent, Claimed, At, Goto
<1>1. CASE NoticeChanges \/ PingAges \/ (\E a \in Address : AddressChanges(a))
           \/ UNCHANGED pingVars
  BY <1>1 DEF NoticeChanges, PingAges, AddressChanges, pingVars
<1>2. ASSUME NEW s \in Sender, SelectPendingPings(s) PROVE PingInv'
  BY <1>2 DEF SelectPendingPings
<1>3. ASSUME NEW s \in Sender, ClaimNewPing(s) PROVE PingInv'
  BY <1>3 DEF ClaimNewPing
<1>4. ASSUME NEW s \in Sender, ReclaimStalePing(s) PROVE PingInv'
  BY <1>4, ZenonT(60) DEF ReclaimStalePing
<1>5. ASSUME NEW s \in Sender, SkipPing(s) \/ SenderDies(s) PROVE PingInv'
  BY <1>5 DEF SkipPing, SenderDies
<1>6. ASSUME NEW s \in Sender, Revalidate(s) PROVE PingInv'
  <2>1. CASE Candidate /\ address = sender[s].address
    BY <1>6, <2>1 DEF Revalidate
  <2>2. CASE ~(Candidate /\ address = sender[s].address)
    <3>1. /\ sender' = [sender EXCEPT ![s].at = "done"] /\ ping' \in [status : PingStatus,
             obsolete : BOOLEAN, old : BOOLEAN]
          /\ UNCHANGED <<wanted, address, mails>>
          /\ ping'.old = ping.old /\ (ping'.status = "none" <=> ping.status = "none")
          /\ ping'.status = "sent" => ping.status = "sent"
      BY <1>6, <2>2 DEF Revalidate
    <3> QED BY <3>1
  <2> QED BY <2>1, <2>2
<1>7. ASSUME NEW s \in Sender, SendPing(s) \/ SendPingFails(s) PROVE PingInv'
  <2>1. /\ Claimed(s) /\ mails' \in {mails, mails + 1}
        /\ sender[s].at = "send" /\ UNCHANGED <<wanted, address, ping>>
    BY <1>7 DEF SendPing, SendPingFails
  <2>2. mails \in Nat /\ mails' \in Nat /\ mails' >= mails
    BY <2>1
  <2>3. /\ sender'[s] = [sender[s] EXCEPT !.at = sender'[s].at]
        /\ sender'[s].at \in {"mark", "fail"}
        /\ sender'[s].at = "mark" => mails' = mails + 1
        /\ \A t \in Sender \ {s} : sender'[t] = sender[t]
    BY <1>7 DEF SendPing, SendPingFails
  <2>4. PingTypes'
    BY <1>7, <2>1, <2>2 DEF SendPing, SendPingFails
  <2>5. OldStaysOld' /\ NoRowNoMail'
    BY <2>1, <2>3
  <2>6. MarkersHaveSent' /\ (ping'.status = "sent" => mails' >= 1)
    BY <2>1, <2>2, <2>3
  <2>7. FreshIsClaimedOnce'
    BY <2>1, <2>3
  <2> QED BY <2>4, <2>5, <2>6, <2>7
<1>8. ASSUME NEW s \in Sender, MarkPingSent(s) \/ MarkPingFailed(s) PROVE PingInv'
  <2>1. CASE MarkPingSent(s)
    BY <1>8, <2>1 DEF MarkPingSent
  <2>2. CASE MarkPingFailed(s)
    BY <1>8, <2>2, ZenonT(60) DEF MarkPingFailed
  <2> QED BY <1>8, <2>1, <2>2
<1> QED BY <1>1, <1>2, <1>3, <1>4, <1>5, <1>6, <1>7, <1>8 DEF PingNext

LEMMA PingStart == PingInit => PingInv
BY DEF PingInit, PingInv, PingTypes, PingStatus, OldStaysOld, NoRowNoMail,
       FreshIsClaimedOnce, MarkersHaveSent, Claimed

\* However many dispatches find a notice, a fresh row has one email at most, and only
\* what the provider took is called sent (email-outbox.ts:205-210, 330-396).
THEOREM FreshPingsOnce == PingSpec => []FreshPingsAreSentOnce
<1>1. PingInit => PingInv
  BY PingStart
<1>2. PingInv => FreshPingsAreSentOnce
  BY DEF PingInv, FreshIsClaimedOnce, FreshPingsAreSentOnce
<1> QED BY <1>1, <1>2, PingStep, PTL DEF PingSpec

\* An email was sent by a dispatch that has come that far.
Sent == {s \in Sender : sender[s].at \in {"mark", "fail", "done"}}

MailsAreCounted == mails <= Cardinality(Sent)

LEMMA CountStart == PingInit => MailsAreCounted
<1> SUFFICES ASSUME PingInit PROVE MailsAreCounted
  OBVIOUS
<1>1. Sent = {}
  BY DEF PingInit, Sent
<1> QED BY <1>1, FS_EmptySet DEF PingInit, MailsAreCounted

\* Each dispatch sends once.
LEMMA CountStep ==
    ASSUME IsFiniteSet(Sender), PingInv, MailsAreCounted, [PingNext]_pingVars
    PROVE  MailsAreCounted'
<1>1. IsFiniteSet(Sent) /\ IsFiniteSet(Sent') /\ Cardinality(Sent) \in Nat
      /\ Cardinality(Sent') \in Nat
  <2>1. Sent \in SUBSET Sender /\ Sent' \in SUBSET Sender
    BY DEF Sent
  <2> QED BY <2>1, FS_Subset, FS_CardinalityType
<1>2. mails \in Nat
  BY DEF PingInv, PingTypes
<1>3. CASE Sent \subseteq Sent' /\ mails' = mails
  <2>1. Cardinality(Sent) <= Cardinality(Sent')
    BY <1>1, <1>3, FS_Subset
  <2> QED BY <1>1, <1>2, <1>3, <2>1 DEF MailsAreCounted
<1>4. ASSUME NEW s \in Sender, SendPing(s) \/ SendPingFails(s) PROVE MailsAreCounted'
  <2>1. s \notin Sent /\ Sent' = Sent \cup {s} /\ mails' \in {mails, mails + 1}
    BY <1>4 DEF Sent, SendPing, SendPingFails, At, Goto, PingInv, PingTypes
  <2>2. Cardinality(Sent') = Cardinality(Sent) + 1
    BY <1>1, <2>1, FS_AddElement
  <2> QED BY <1>1, <1>2, <2>1, <2>2 DEF MailsAreCounted
<1>5. ASSUME NEW s \in Sender,
             \/ SelectPendingPings(s) \/ ClaimNewPing(s) \/ ReclaimStalePing(s) \/ SkipPing(s)
             \/ Revalidate(s) \/ MarkPingSent(s) \/ MarkPingFailed(s) \/ SenderDies(s)
      PROVE  Sent \subseteq Sent' /\ mails' = mails
  <2>1. mails' = mails /\ \A t \in Sender \ {s} : sender'[t] = sender[t]
    BY <1>5 DEF SelectPendingPings, ClaimNewPing, ReclaimStalePing, SkipPing, Revalidate,
       MarkPingSent, MarkPingFailed, SenderDies, Goto, PingInv, PingTypes
  <2>2. s \in Sent => sender'[s].at \in {"mark", "fail", "done"}
    BY <1>5 DEF SelectPendingPings, ClaimNewPing, ReclaimStalePing, SkipPing, Revalidate,
       MarkPingSent, MarkPingFailed, SenderDies, Goto, At, Sent, PingInv, PingTypes
  <2> QED BY <2>1, <2>2 DEF Sent
<1>6. CASE NoticeChanges \/ PingAges \/ (\E a \in Address : AddressChanges(a))
           \/ UNCHANGED pingVars
  <2>1. mails' = mails /\ sender' = sender
    BY <1>6 DEF NoticeChanges, PingAges, AddressChanges, pingVars
  <2> QED BY <1>3, <2>1 DEF Sent
<1> QED BY <1>3, <1>4, <1>5, <1>6 DEF PingNext

LEMMA PingTypesFollow ==
    ASSUME IsFiniteSet(Sender), PingInv, MailsAreCounted
    PROVE  PingTypeOK
<1>1. /\ Cardinality(Sent) \in Nat /\ Cardinality(Sender) \in Nat
      /\ Cardinality(Sent) <= Cardinality(Sender)
  <2>1. Sent \in SUBSET Sender
    BY DEF Sent
  <2> QED BY <2>1, FS_Subset, FS_CardinalityType
<1> QED BY <1>1 DEF PingInv, PingTypes, MailsAreCounted, PingTypeOK

-----------------------------------------------------------------------------
(***************************************************************************)
(* External schedules                                                      *)
(***************************************************************************)

AtWork(c) == caller[c] \in {"create", "store"}

StoredIsUnclaimed == job.stored => job.claim = Unclaimed

\* As long as no claim outlived its ten minutes.
WorkersHoldTheClaim == ~late => \A c \in Caller : AtWork(c) => job.claim = c

DeletersAreEntitled ==
    ~late => \A c \in Caller :
                caller[c] = "delete" => job.status = "cancelled" \/ job.claim = c

CreatedIsThere ==
    ~late /\ job.status # "cancelled" =>
        \A c \in Caller : caller[c] = "store" => schedule # "none"

\* A schedule that no live row names has a call that sees to it, or has lost it.
SomebodySeesToIt ==
    schedule = "set" /\ ~(job.stored /\ job.status # "cancelled") =>
        \E c \in Caller : caller[c] \in {"create", "store", "delete", "lost"}

StoredIsThere == ~late /\ job.stored /\ job.status # "cancelled" => schedule # "none"

ScheduleInv ==
    /\ ScheduleTypeOK
    /\ StoredIsUnclaimed
    /\ WorkersHoldTheClaim
    /\ DeletersAreEntitled
    /\ CreatedIsThere
    /\ SomebodySeesToIt
    /\ StoredIsThere

LEMMA ScheduleStep ==
    (Unclaimed \notin Caller) /\ ScheduleInv /\ [ScheduleNext]_scheduleVars => ScheduleInv'
<1> SUFFICES ASSUME Unclaimed \notin Caller, ScheduleInv, [ScheduleNext]_scheduleVars
             PROVE  ScheduleInv'
  OBVIOUS
<1> USE DEF ScheduleInv, ScheduleTypeOK, StoredIsUnclaimed, WorkersHoldTheClaim,
            DeletersAreEntitled, CreatedIsThere, SomebodySeesToIt, StoredIsThere, AtWork,
            Moves, Live
<1>1. CASE JobRuns
  BY <1>1 DEF JobRuns
<1>2. CASE ScheduleFires \/ UNCHANGED scheduleVars
  BY <1>2 DEF ScheduleFires, scheduleVars
<1>3. ASSUME NEW c \in Caller, ClaimSchedule(c) PROVE ScheduleInv'
  BY <1>3 DEF ClaimSchedule
<1>4. ASSUME NEW c \in Caller, LeaveSchedule(c) PROVE ScheduleInv'
  BY <1>4 DEF LeaveSchedule
<1>5. ASSUME NEW c \in Caller, CreateSchedule(c) PROVE ScheduleInv'
  BY <1>5 DEF CreateSchedule
<1>6. ASSUME NEW c \in Caller, StoreSchedule(c) PROVE ScheduleInv'
  BY <1>6, ZenonT(60) DEF StoreSchedule
<1>7. ASSUME NEW c \in Caller, DeleteSchedule(c) PROVE ScheduleInv'
  BY <1>7 DEF DeleteSchedule
<1>8. ASSUME NEW c \in Caller, CallFails(c) PROVE ScheduleInv'
  BY <1>8 DEF CallFails, Released
<1>9. ASSUME NEW c \in Caller, CallerDies(c) PROVE ScheduleInv'
  BY <1>9 DEF CallerDies
<1>10. ASSUME NEW c \in Caller, CancelJob(c) PROVE ScheduleInv'
  BY <1>10 DEF CancelJob
<1> QED BY <1>1, <1>2, <1>3, <1>4, <1>5, <1>6, <1>7, <1>8, <1>9, <1>10 DEF ScheduleNext

LEMMA ScheduleStart == ScheduleInit => ScheduleInv
<1> SUFFICES ASSUME ScheduleInit PROVE ScheduleInv
  OBVIOUS
<1>1. ScheduleTypeOK
  BY DEF ScheduleInit, ScheduleTypeOK, Live
<1>2. /\ StoredIsUnclaimed /\ WorkersHoldTheClaim /\ DeletersAreEntitled
      /\ CreatedIsThere /\ SomebodySeesToIt /\ StoredIsThere
  BY DEF ScheduleInit, StoredIsUnclaimed, WorkersHoldTheClaim, DeletersAreEntitled,
     CreatedIsThere, SomebodySeesToIt, StoredIsThere, AtWork
<1> QED BY <1>1, <1>2 DEF ScheduleInv

\* A cancelled job's schedule is seen to and a named one exists, for any number of
\* callers (jobs.ts:883-898, holds.ts:367).
THEOREM SchedulesFollow == ScheduleSpec => []SchedulesFollowTheirJobs
<1>1. ScheduleInit => ScheduleInv
  BY ScheduleStart
<1>2. ScheduleInv => SchedulesFollowTheirJobs
  BY DEF ScheduleInv, SomebodySeesToIt, StoredIsThere, SchedulesFollowTheirJobs,
         CancelledJobsAreUnscheduled, StoredScheduleExists, Live
<1> QED BY <1>1, <1>2, ScheduleStep, SchedulesAssumption, PTL DEF ScheduleSpec

-----------------------------------------------------------------------------
(***************************************************************************)
(* The run page                                                            *)
(***************************************************************************)

Effect == [for : PageStatus, timer : {Nothing, "poll", "stop"}, stray : BOOLEAN,
           request : {"none", "sent", "read"}, answer : PageStatus]

PageInv == run \in PageStatus /\ shown \in PageStatus /\ effect \in Effect /\ PageKeepsWatching

\* What is scheduled in view is a timer; a request is one until it is answered.
LEMMA EffectFacts ==
    ASSUME NEW e \in Effect, NEW inView
    PROVE  /\ e.for \in PageStatus /\ e.answer \in PageStatus
           /\ [e EXCEPT !.request = "none"] \in Effect /\ [e EXCEPT !.timer = Nothing] \in Effect
           /\ [e EXCEPT !.stray = FALSE] \in Effect
           /\ Scheduled(e, inView) \in Effect
           /\ inView => Scheduled(e, inView).timer # Nothing
           /\ Requested(e) \in Effect /\ Requested(e).request # "none"
<1>1. PICK forgets : forgets = (e.stray \/ e.timer = "poll")
  OBVIOUS
<1>2. forgets \in BOOLEAN
  BY <1>1
<1>3. PICK timer \in {"stop", "poll"} : timer = IF overdue THEN "stop" ELSE "poll"
  OBVIOUS
<1>4. Scheduled(e, inView) =
          IF ~overdue /\ ~inView THEN e ELSE [e EXCEPT !.timer = timer, !.stray = forgets]
  BY <1>1, <1>3 DEF Scheduled
<1>5. [e EXCEPT !.timer = timer, !.stray = forgets] \in Effect
  BY <1>2 DEF Effect
<1>6. [e EXCEPT !.timer = timer, !.stray = forgets].timer # Nothing
  BY DEF Effect, Nothing
<1>7. Scheduled(e, inView) \in Effect /\ (inView => Scheduled(e, inView).timer # Nothing)
  BY <1>4, <1>5, <1>6
<1>8. Requested(e) \in Effect /\ Requested(e).request # "none"
  BY DEF Requested, Effect
<1>9. /\ e.for \in PageStatus /\ e.answer \in PageStatus
      /\ [e EXCEPT !.request = "none"] \in Effect /\ [e EXCEPT !.timer = Nothing] \in Effect
      /\ [e EXCEPT !.stray = FALSE] \in Effect
  BY DEF Effect, Nothing
<1> QED BY <1>7, <1>8, <1>9

LEMMA FreshFacts ==
    ASSUME NEW status \in PageStatus
    PROVE  /\ Fresh(status) \in Effect
           /\ visible /\ status # "settled" => Fresh(status).timer # Nothing
<1>1. PICK timer \in {Nothing, "poll"} :
          timer = IF status # "settled" /\ visible THEN "poll" ELSE Nothing
  OBVIOUS
<1>2. Fresh(status) = [for |-> status, stray |-> FALSE, request |-> "none", answer |-> status,
                       timer |-> timer]
  BY <1>1 DEF Fresh
<1> QED BY <1>1, <1>2 DEF Effect, Nothing

LEMMA PageStep == PageInv /\ [PageNext]_pageVars => PageInv'
<1> SUFFICES ASSUME PageInv, [PageNext]_pageVars PROVE PageInv'
  OBVIOUS
<1> USE DEF PageInv, PageKeepsWatching
<1>1. CASE RunChanges \/ TimePasses \/ UNCHANGED pageVars
  BY <1>1 DEF RunChanges, TimePasses, pageVars
<1>2. CASE ReadRun
  <2>1. effect' \in Effect /\ effect'.request = "read"
    BY <1>2 DEF ReadRun, Effect
  <2> QED BY <1>2, <2>1 DEF ReadRun
<1>3. CASE StopFires \/ PageHides
  BY <1>3, EffectFacts DEF StopFires, PageHides
<1>4. CASE TimerFires
  BY <1>4, EffectFacts DEF TimerFires
<1>5. CASE StrayFires
  BY <1>5, EffectFacts DEF StrayFires
<1>6. CASE AnswerArrives
  <2>1. PICK e \in Effect : e = [effect EXCEPT !.request = "none"]
    BY EffectFacts
  <2>2. /\ shown' = effect.answer /\ UNCHANGED <<run, visible, stopped>>
        /\ effect' = IF effect.answer = "settled" THEN e ELSE Scheduled(e, visible)
    BY <1>6, <2>1 DEF AnswerArrives
  <2>3. /\ effect.answer \in PageStatus /\ Scheduled(e, visible) \in Effect
        /\ visible => Scheduled(e, visible).timer # Nothing
    BY EffectFacts
  <2> QED BY <2>2, <2>3
<1>7. CASE RequestFails
  <2>1. PICK e \in Effect : e = [effect EXCEPT !.request = "none"]
    BY EffectFacts
  <2>2. effect' = Scheduled(e, visible) /\ UNCHANGED <<run, shown, visible, stopped>>
    BY <1>7, <2>1 DEF RequestFails
  <2>3. /\ Scheduled(e, visible) \in Effect
        /\ visible => Scheduled(e, visible).timer # Nothing
    BY EffectFacts
  <2> QED BY <2>2, <2>3
<1>8. CASE Render \/ LookAgain
  <2>1. effect' = Fresh(shown) /\ UNCHANGED <<run, shown, visible>>
    BY <1>8 DEF Render, LookAgain
  <2> QED BY <2>1, FreshFacts
<1>9. CASE PageReturns
  <2>1. CASE Watching
    <3>1. effect' = Scheduled(effect, TRUE) /\ UNCHANGED <<run, shown, stopped>>
      BY <1>9, <2>1 DEF PageReturns
    <3>2. Scheduled(effect, TRUE) \in Effect /\ Scheduled(effect, TRUE).timer # Nothing
      BY EffectFacts
    <3> QED BY <3>1, <3>2
  <2>2. CASE ~Watching
    BY <1>9, <2>2 DEF PageReturns, Watching
  <2> QED BY <2>1, <2>2
<1> QED BY <1>1, <1>2, <1>3, <1>4, <1>5, <1>6, <1>7, <1>8, <1>9 DEF PageNext

LEMMA PageStart == PageInit => PageInv
<1>1. "queued" \in PageStatus
  BY DEF PageStatus
<1> QED BY <1>1, FreshFacts DEF PageInit, PageInv, PageKeepsWatching

\* No wake-up of the page is lost (run-status-poller.tsx:83-147).
THEOREM PageWatches == PageSpec => []PageKeepsWatching
<1>1. PageInit => PageInv
  BY PageStart
<1>2. PageInv => PageKeepsWatching
  BY DEF PageInv
<1> QED BY <1>1, <1>2, PageStep, PTL DEF PageSpec

LEMMA PageTypesStart == PageInit => PageTypeOK
BY PageStart DEF PageInit, PageInv, PageTypeOK, Effect

LEMMA PageTypesStep ==
    ASSUME PageInv', PageTypeOK, [PageNext]_pageVars
    PROVE  PageTypeOK'
<1>1. visible' \in BOOLEAN /\ overdue' \in BOOLEAN /\ stopped' \in BOOLEAN
  BY DEF PageTypeOK, PageNext, pageVars, RunChanges, TimePasses, TimerFires, StrayFires,
     StopFires, ReadRun, AnswerArrives, RequestFails, Render, PageReturns, PageHides, LookAgain
<1> QED BY <1>1 DEF PageInv, PageTypeOK, Effect

-----------------------------------------------------------------------------
(***************************************************************************)
(* The sweep of the memory                                                 *)
(***************************************************************************)

Fields == {"at", "kind", "todo", "listed", "offset", "owed", "alone"}

Erasing(e) == eraser[e].at \notin {"idle", "parties", "done"}

MemoryTypes ==
    /\ DOMAIN records = Party /\ DOMAIN events = Party
    /\ DOMAIN eraser = Eraser /\ \A e \in Eraser : DOMAIN eraser[e] = Fields
    /\ parties \subseteq Party /\ future \subseteq Party \ parties

\* Nothing is kept about a party that is not there yet.
FutureIsEmpty == \A p \in future : records[p] = {} /\ events[p] = {}

\* So no erasure is about one.
ErasuresKnowTheirParties ==
    \A e \in Eraser : /\ eraser[e].todo \subseteq Party \ future
                      /\ Erasing(e) => eraser[e].todo # {}

MemoryInv == MemoryTypes /\ FutureIsEmpty /\ ErasuresKnowTheirParties /\ SweepSparesTheLiving

\* An erasure that goes on leaves its parties as they are, or takes some off.
LEMMA ErasureGoesOn ==
    ASSUME MemoryInv, MemoryTypes', FutureIsEmpty', NEW e \in Eraser,
           UNCHANGED <<parties, future>>,
           \A f \in Eraser \ {e} : /\ eraser'[f].at = eraser[f].at
                                   /\ eraser'[f].kind = eraser[f].kind
                                   /\ eraser'[f].todo = eraser[f].todo,
           eraser'[e].todo \subseteq Party \ future,
           Erasing(e)' => /\ eraser'[e].todo # {}
                          /\ eraser'[e].kind = "sweep" => eraser'[e].todo \cap parties = {}
    PROVE  MemoryInv'
BY DEF MemoryInv, ErasuresKnowTheirParties, SweepSparesTheLiving, Erasing

LEMMA TargetFacts ==
    ASSUME MemoryInv, NEW e \in Eraser, Erasing(e)
    PROVE  Target(e) \in eraser[e].todo /\ Target(e) \in Party \ future
<1>1. \E p : p \in eraser[e].todo
  BY DEF MemoryInv, ErasuresKnowTheirParties
<1>2. Target(e) \in eraser[e].todo
  BY <1>1 DEF Target
<1> QED BY <1>2 DEF MemoryInv, ErasuresKnowTheirParties

LEMMA BeginsFacts ==
    ASSUME MemoryInv, NEW e \in Eraser, NEW state, DOMAIN state = Fields,
           eraser' = Begins(e, state)
    PROVE  /\ DOMAIN eraser' = Eraser /\ \A f \in Eraser : DOMAIN eraser'[f] = Fields
           /\ eraser'[e].at = state.at /\ eraser'[e].kind = state.kind
           /\ eraser'[e].todo = state.todo
           /\ \A f \in Eraser \ {e} : /\ eraser'[f].at = eraser[f].at
                                      /\ eraser'[f].kind = eraser[f].kind
                                      /\ eraser'[f].todo = eraser[f].todo
<1> DEFINE others == {f \in Eraser \ {e} : Busy(f) /\ eraser[f].todo \cap state.todo # {}}
<1>1. PICK alone : alone = (others = {})
  OBVIOUS
<1>2. eraser' = [f \in Eraser |-> IF f = e THEN [state EXCEPT !.alone = alone]
                                  ELSE IF f \in others THEN [eraser[f] EXCEPT !.alone = FALSE]
                                  ELSE eraser[f]]
  BY <1>1 DEF Begins
<1> HIDE DEF others
<1> QED BY <1>2 DEF MemoryInv, MemoryTypes, Fields

LEMMA SweepStep == MemoryInv /\ [MemoryNext]_memoryVars => MemoryInv'
<1> SUFFICES ASSUME MemoryInv, [MemoryNext]_memoryVars PROVE MemoryInv'
  OBVIOUS
<1>1. CASE UNCHANGED memoryVars
  BY <1>1 DEF memoryVars, MemoryInv, MemoryTypes, FutureIsEmpty, ErasuresKnowTheirParties,
     SweepSparesTheLiving, Erasing
<1>2. ASSUME NEW p \in Party, CreateParty(p) \/ DeleteParty(p) PROVE MemoryInv'
  <2>1. /\ UNCHANGED <<records, events, eraser>> /\ future' \subseteq future
        /\ parties' \subseteq parties \cup future /\ parties' \subseteq Party
        /\ future' \subseteq Party \ parties'
    BY <1>2 DEF CreateParty, DeleteParty, MemoryInv, MemoryTypes
  <2>2. MemoryTypes' /\ FutureIsEmpty'
    BY <2>1 DEF MemoryInv, MemoryTypes, FutureIsEmpty
  <2>3. ErasuresKnowTheirParties'
    BY <2>1 DEF MemoryInv, ErasuresKnowTheirParties, Erasing
  <2>4. SweepSparesTheLiving'
    BY <2>1 DEF MemoryInv, ErasuresKnowTheirParties, SweepSparesTheLiving
  <2> QED BY <2>2, <2>3, <2>4 DEF MemoryInv
<1>3. ASSUME NEW p \in Party, WriteEvent(p) \/ ExtractRecord(p) PROVE MemoryInv'
  <2>1. UNCHANGED <<parties, future, eraser>> /\ p \notin future
    BY <1>3 DEF WriteEvent, ExtractRecord, MemoryInv, FutureIsEmpty
  <2>2. MemoryTypes'
    BY <1>3, <2>1 DEF WriteEvent, ExtractRecord, MemoryInv, MemoryTypes
  <2>3. FutureIsEmpty'
    BY <1>3, <2>1 DEF WriteEvent, ExtractRecord, MemoryInv, MemoryTypes, FutureIsEmpty
  <2> QED BY <2>1, <2>2, <2>3
      DEF MemoryInv, ErasuresKnowTheirParties, SweepSparesTheLiving, Erasing
<1>4. ASSUME NEW e \in Eraser, NEW p \in Party, ForgetPartyMemory(e, p) PROVE MemoryInv'
  <2>1. PICK state : state = [Asleep EXCEPT !.at = "records", !.todo = {p}, !.owed = Kept(p)]
    OBVIOUS
  <2>2. /\ DOMAIN state = Fields /\ state.at = "records" /\ state.kind = "forget"
        /\ state.todo = {p}
    BY <2>1 DEF Asleep, Fields
  <2>3. /\ p \in parties /\ eraser' = Begins(e, state)
        /\ UNCHANGED <<parties, future, records, events>>
    BY <1>4, <2>1 DEF ForgetPartyMemory
  <2>4. MemoryTypes' /\ FutureIsEmpty'
    BY <2>2, <2>3, BeginsFacts DEF MemoryInv, MemoryTypes, FutureIsEmpty
  <2>5. p \in Party \ future
    BY <2>3 DEF MemoryInv, MemoryTypes
  <2>6. eraser'[e].todo = {p} /\ eraser'[e].kind = "forget"
    BY <2>2, <2>3, BeginsFacts
  <2> QED BY <2>2, <2>3, <2>4, <2>5, <2>6, BeginsFacts, ErasureGoesOn
<1>5. ASSUME NEW e \in Eraser, ListActors(e) PROVE MemoryInv'
  <2>1. PICK state : state = [Asleep EXCEPT !.at = "parties", !.kind = "sweep",
                                            !.todo = {p \in Party : Kept(p) # {}}]
    OBVIOUS
  <2>2. /\ DOMAIN state = Fields /\ state.at = "parties"
        /\ state.todo = {p \in Party : Kept(p) # {}}
    BY <2>1 DEF Asleep, Fields
  <2>3. eraser' = Begins(e, state) /\ UNCHANGED <<parties, future, records, events>>
    BY <1>5, <2>1 DEF ListActors
  <2>4. MemoryTypes' /\ FutureIsEmpty'
    BY <2>2, <2>3, BeginsFacts DEF MemoryInv, MemoryTypes, FutureIsEmpty
  <2>5. state.todo \subseteq Party \ future
    BY <2>2 DEF MemoryInv, FutureIsEmpty, Kept
  <2>6. eraser'[e].todo = state.todo /\ eraser'[e].at = "parties"
    BY <2>2, <2>3, BeginsFacts
  <2> QED BY <2>2, <2>3, <2>4, <2>5, <2>6, BeginsFacts, ErasureGoesOn DEF Erasing
<1>6. ASSUME NEW e \in Eraser, Orphans(e) \/ FinishParty(e) \/ ErasureFails(e) PROVE MemoryInv'
  <2>1. UNCHANGED <<parties, future, records, events>>
    BY <1>6 DEF Orphans, FinishParty, ErasureFails
  <2>2. /\ \A f \in Eraser \ {e} : eraser'[f] = eraser[f]
        /\ MemoryTypes' /\ FutureIsEmpty'
    BY <1>6, <2>1 DEF Orphans, FinishParty, ErasureFails, MemoryInv, MemoryTypes, FutureIsEmpty,
       Asleep, Fields
  <2>3. CASE Orphans(e)
    <3>1. \/ eraser'[e].at = "done" /\ eraser'[e].todo = {}
          \/ /\ eraser'[e].todo = eraser[e].todo \ parties
             /\ eraser'[e].todo # {}
      BY <2>3 DEF Orphans, MemoryInv, MemoryTypes, Asleep, Fields
    <3> QED BY <2>1, <2>2, <3>1, ErasureGoesOn DEF Erasing, MemoryInv, ErasuresKnowTheirParties
  <2>4. CASE FinishParty(e)
    <3>1. /\ eraser[e].at = "deleteEvents"
          /\ \/ /\ eraser'[e].todo = eraser[e].todo \ {Target(e)} /\ eraser'[e].todo # {}
                /\ eraser'[e].kind = eraser[e].kind
             \/ eraser'[e].at = "done" /\ eraser'[e].todo = eraser[e].todo
      BY <2>4 DEF FinishParty, MemoryInv, MemoryTypes, Fields
    <3>2. /\ eraser[e].todo \subseteq Party \ future
          /\ eraser[e].kind = "sweep" => eraser[e].todo \cap parties = {}
      BY <3>1 DEF MemoryInv, ErasuresKnowTheirParties, SweepSparesTheLiving
    <3>3. /\ eraser'[e].todo \subseteq Party \ future
          /\ Erasing(e)' => /\ eraser'[e].todo # {}
                            /\ eraser'[e].kind = "sweep" => eraser'[e].todo \cap parties = {}
      BY <3>1, <3>2 DEF Erasing
    <3> QED BY <2>1, <2>2, <3>3, ErasureGoesOn
  <2>5. CASE ErasureFails(e)
    <3>1. eraser'[e].at = "done" /\ eraser'[e].todo = {}
      BY <2>5 DEF ErasureFails, MemoryInv, MemoryTypes, Asleep, Fields
    <3> QED BY <2>1, <2>2, <3>1, ErasureGoesOn DEF Erasing
  <2> QED BY <1>6, <2>3, <2>4, <2>5
<1>7. ASSUME NEW e \in Eraser,
             \/ ListRecords(e) \/ DeleteRecords(e) \/ ListEvents(e)
             \/ \E i \in Item : DeleteEvent(e, i)
      PROVE  MemoryInv'
  <2>1. Erasing(e) /\ UNCHANGED <<parties, future>>
    BY <1>7 DEF ListRecords, DeleteRecords, ListEvents, DeleteEvent, Erasing
  <2>2. /\ DOMAIN eraser' = Eraser /\ \A f \in Eraser : DOMAIN eraser'[f] = Fields
        /\ \A f \in Eraser : eraser'[f].kind = eraser[f].kind /\ eraser'[f].todo = eraser[f].todo
        /\ \A f \in Eraser \ {e} : eraser'[f].at = eraser[f].at
    <3>1. CASE ListRecords(e) \/ DeleteRecords(e) \/ ListEvents(e)
      BY <3>1 DEF ListRecords, DeleteRecords, ListEvents, ListPage, MemoryInv, MemoryTypes, Fields
    <3>2. ASSUME NEW i \in Item, DeleteEvent(e, i)
          PROVE  eraser' = [eraser EXCEPT ![e].listed = @ \ {i}]
      BY <3>2 DEF DeleteEvent
    <3>3. CASE \E i \in Item : DeleteEvent(e, i)
      BY <3>2, <3>3 DEF MemoryInv, MemoryTypes, Fields
    <3> QED BY <1>7, <3>1, <3>3
  <2>3. /\ DOMAIN records' = Party /\ DOMAIN events' = Party
        /\ \A p \in Party \ {Target(e)} : records'[p] = records[p] /\ events'[p] = events[p]
    BY <1>7 DEF ListRecords, DeleteRecords, ListEvents, DeleteEvent, MemoryInv, MemoryTypes
  <2>4. MemoryTypes' /\ FutureIsEmpty'
    BY <2>1, <2>2, <2>3, TargetFacts DEF MemoryInv, MemoryTypes, FutureIsEmpty
  <2>5. /\ eraser[e].todo \subseteq Party \ future /\ eraser[e].todo # {}
        /\ eraser[e].kind = "sweep" => eraser[e].todo \cap parties = {}
    BY <2>1 DEF MemoryInv, ErasuresKnowTheirParties, SweepSparesTheLiving, Erasing
  <2>6. /\ eraser'[e].todo \subseteq Party \ future
        /\ Erasing(e)' => /\ eraser'[e].todo # {}
                          /\ eraser'[e].kind = "sweep" => eraser'[e].todo \cap parties = {}
    BY <2>2, <2>5
  <2>7. \A f \in Eraser \ {e} : /\ eraser'[f].at = eraser[f].at
                                /\ eraser'[f].kind = eraser[f].kind
                                /\ eraser'[f].todo = eraser[f].todo
    BY <2>2
  <2>8. UNCHANGED <<parties, future>>
    BY <2>1
  <2>9. ErasuresKnowTheirParties'
    BY <2>6, <2>7, <2>8 DEF MemoryInv, ErasuresKnowTheirParties, Erasing
  <2>10. SweepSparesTheLiving'
    BY <2>6, <2>7, <2>8 DEF MemoryInv, SweepSparesTheLiving, Erasing
  <2> QED BY <2>4, <2>9, <2>10 DEF MemoryInv
<1> QED BY <1>1, <1>2, <1>3, <1>4, <1>5, <1>6, <1>7 DEF MemoryNext

LEMMA MemoryStart == MemoryInit => MemoryInv
BY DEF MemoryInit, MemoryInv, MemoryTypes, FutureIsEmpty, ErasuresKnowTheirParties,
       SweepSparesTheLiving, Erasing, Asleep, Fields

\* No sweep erases what is kept about a party that exists, even one created while it runs,
\* for any number of erasures and of pages (orphans.ts:56-60).
THEOREM SweepsSpareTheLiving == MemorySpec => []SweepSparesTheLiving
<1>1. MemoryInit => MemoryInv
  BY MemoryStart
<1>2. MemoryInv => SweepSparesTheLiving
  BY DEF MemoryInv
<1> QED BY <1>1, <1>2, SweepStep, PTL DEF MemorySpec

-----------------------------------------------------------------------------
(***************************************************************************)
(* What an erasure forgets.  What it owes the party it is at work on is    *)
(* behind its offset only once it is listed, because what is written joins *)
(* the end of a list and nobody else takes anything off it.                *)
(***************************************************************************)

\* Items are numbered as they are written, and one is kept about one party.
MemoryItems ==
    /\ written \in Nat
    /\ \A p \in Party : records[p] \subseteq 1..written /\ events[p] \subseteq 1..written
    /\ \A p, q \in Party : p # q => Kept(p) \cap Kept(q) = {}

SweepsStartAtTheTop == \A e \in Eraser : eraser[e].at = "parties" => eraser[e].offset = 0

\* An erasure that has its parties to itself shares none with another.
LonersShareNothing ==
    \A e, f \in Eraser :
        e # f /\ Busy(e) /\ Busy(f) /\ eraser[e].alone => eraser[e].todo \cap eraser[f].todo = {}

\* What is owed and not listed yet is on a page still to be read.
AheadOf(row, items) ==
    /\ row.offset \in Nat
    /\ \A i \in row.owed \cap items : i \in row.listed \/ Place(items, i) > row.offset

\* What is left to forget of the party at hand, with these records and events.
AtHand(row, stored, raw) ==
    /\ row.at = "records" => AheadOf(row, stored)
    /\ row.at = "deleteRecords" => row.owed \cap stored \subseteq row.listed /\ row.offset = 0
    /\ row.at \in {"events", "deleteEvents"} => row.owed \cap stored = {}
    /\ row.at = "events" => AheadOf(row, raw)
    /\ row.at = "deleteEvents" => row.owed \cap raw \subseteq row.listed /\ row.offset = 0

\* Of the parties it is done with, nothing is left that it owed.
LonersForget(e) ==
    eraser[e].alone /\ Erasing(e) =>
        /\ eraser[e].owed \subseteq 1..written
        /\ \A p \in Party \ eraser[e].todo : eraser[e].owed \cap Kept(p) = {}
        /\ AtHand(eraser[e], records[Target(e)], events[Target(e)])

ReportsAreTrue ==
    \A e \in forgotten :
        /\ eraser[e].at = "done"
        /\ eraser[e].alone => /\ eraser[e].owed \subseteq 1..written
                              /\ \A p \in Party : eraser[e].owed \cap Kept(p) = {}

ForgetInv == /\ MemoryItems /\ SweepsStartAtTheTop /\ LonersShareNothing /\ ReportsAreTrue
             /\ forgotten \subseteq Eraser /\ \A e \in Eraser : LonersForget(e)

\* Writing adds a new item, erasing adds none.
NothingComesBack ==
    /\ written' \in Nat /\ written <= written'
    /\ \A p \in Party : /\ records'[p] \cap 1..written \subseteq records[p]
                        /\ events'[p] \cap 1..written \subseteq events[p]

LEMMA PlaceFacts ==
    ASSUME NEW n \in Nat, NEW items \in SUBSET (1..n), NEW i \in items
    PROVE  /\ Cardinality(items) \in Nat
           /\ Place(items, i) \in 1..Cardinality(items)
           /\ Place(items \cup {n + 1}, i) = Place(items, i)
<1> DEFINE low == {j \in items : j <= i}
<1>1. IsFiniteSet(items)
  <2>1. IsFiniteSet(1..n)
    BY FS_Interval
  <2> QED BY <2>1, FS_Subset
<1>2. IsFiniteSet(low) /\ Cardinality(low) <= Cardinality(items)
  BY <1>1, FS_Subset
<1>3. i \in low
  OBVIOUS
<1>4. Cardinality(items) \in Nat /\ Cardinality(low) \in Nat /\ Cardinality(low) # 0
  BY <1>1, <1>2, <1>3, FS_CardinalityType, FS_EmptySet
<1>5. {j \in items \cup {n + 1} : j <= i} = low
  OBVIOUS
<1>6. Place(items, i) = Cardinality(low) /\ Place(items \cup {n + 1}, i) = Cardinality(low)
  BY <1>5 DEF Place
<1> HIDE DEF low
<1> QED BY <1>2, <1>4, <1>6

\* Items that are added at the end move none.
LEMMA AheadStays ==
    ASSUME NEW row, NEW n \in Nat, NEW items \in SUBSET (1..n), row.owed \subseteq 1..n,
           AheadOf(row, items), NEW more, more \in {items, items \cup {n + 1}}
    PROVE  AheadOf(row, more)
<1>1. CASE more = items
  BY <1>1
<1>2. CASE more = items \cup {n + 1}
  <2>1. row.owed \cap more = row.owed \cap items
    BY <1>2
  <2> QED BY <1>2, <2>1, PlaceFacts DEF AheadOf
<1> QED BY <1>1, <1>2

LEMMA AtHandStays ==
    ASSUME NEW row, NEW n \in Nat, NEW stored \in SUBSET (1..n), NEW raw \in SUBSET (1..n),
           row.owed \subseteq 1..n, AtHand(row, stored, raw),
           NEW stored2, stored2 \in {stored, stored \cup {n + 1}},
           NEW raw2, raw2 \in {raw, raw \cup {n + 1}}
    PROVE  AtHand(row, stored2, raw2)
<1>1. row.owed \cap stored2 = row.owed \cap stored /\ row.owed \cap raw2 = row.owed \cap raw
  OBVIOUS
<1>2. AheadOf(row, stored) => AheadOf(row, stored2)
  BY AheadStays
<1>3. AheadOf(row, raw) => AheadOf(row, raw2)
  BY AheadStays
<1> QED BY <1>1, <1>2, <1>3 DEF AtHand

\* From the top of the list everything is ahead.
LEMMA AheadFromTheTop ==
    ASSUME NEW row, row.offset = 0, NEW n \in Nat, NEW items \in SUBSET (1..n)
    PROVE  AheadOf(row, items)
<1>1. ASSUME NEW i \in items PROVE Place(items, i) > 0
  <2>1. Place(items, i) \in 1..Cardinality(items) /\ Cardinality(items) \in Nat
    BY PlaceFacts
  <2> QED BY <2>1
<1>2. row.offset \in Nat
  OBVIOUS
<1>3. \A i \in row.owed \cap items : Place(items, i) > row.offset
  BY <1>1
<1> QED BY <1>2, <1>3 DEF AheadOf

LEMMA PagesGoOn ==
    ASSUME NEW row, NEW n \in Nat, NEW items \in SUBSET (1..n), AheadOf(row, items),
           NEW next, next.owed = row.owed, next.listed = row.listed \cup Page(items, row.offset)
    PROVE  /\ Cardinality(items) > row.offset + PageSize /\ next.offset = row.offset + PageSize
                  => AheadOf(next, items)
           /\ ~ (Cardinality(items) > row.offset + PageSize)
                  => next.owed \cap items \subseteq next.listed
<1> USE MemoryAssumption
<1>1. row.offset \in Nat
  BY DEF AheadOf
<1>2. ASSUME NEW i \in row.owed \cap items
      PROVE  /\ Place(items, i) \in Nat /\ Place(items, i) <= Cardinality(items)
             /\ Cardinality(items) \in Nat
             /\ i \in next.listed \/ Place(items, i) > row.offset + PageSize
  <2>1. /\ Place(items, i) \in Nat /\ Place(items, i) <= Cardinality(items)
        /\ Cardinality(items) \in Nat
    <3>1. i \in items
      OBVIOUS
    <3>2. Cardinality(items) \in Nat /\ Place(items, i) \in 1..Cardinality(items)
      BY <3>1, PlaceFacts
    <3> QED BY <3>2
  <2>2. i \in row.listed \/ Place(items, i) > row.offset
    BY DEF AheadOf
  <2>3. CASE i \in row.listed
    BY <2>1, <2>3
  <2>4. CASE Place(items, i) > row.offset /\ ~(Place(items, i) > row.offset + PageSize)
    <3>1. Place(items, i) \in (row.offset + 1)..(row.offset + PageSize)
      BY <1>1, <2>1, <2>4
    <3> QED BY <2>1, <3>1 DEF Page
  <2> QED BY <2>1, <2>2, <2>3, <2>4
<1>3. ASSUME Cardinality(items) > row.offset + PageSize, next.offset = row.offset + PageSize
      PROVE  AheadOf(next, items)
  BY <1>1, <1>2, <1>3 DEF AheadOf
<1>4. ASSUME ~ (Cardinality(items) > row.offset + PageSize)
      PROVE  next.owed \cap items \subseteq next.listed
  BY <1>1, <1>2, <1>4
<1> QED BY <1>3, <1>4

LEMMA ItemsFacts ==
    ASSUME ForgetInv, NEW p \in Party
    PROVE  /\ written \in Nat
           /\ records[p] \in SUBSET (1..written) /\ events[p] \in SUBSET (1..written)
BY DEF ForgetInv, MemoryItems

\* An erasure forgets while others write, and while they erase other parties.
LEMMA OthersForget ==
    ASSUME MemoryInv, ForgetInv, NothingComesBack, NEW f \in Eraser, eraser'[f] = eraser[f],
           eraser[f].alone /\ Erasing(f) =>
               /\ records'[Target(f)] \in
                      {records[Target(f)], records[Target(f)] \cup {written + 1}}
               /\ events'[Target(f)] \in {events[Target(f)], events[Target(f)] \cup {written + 1}}
    PROVE  LonersForget(f)'
<1> SUFFICES ASSUME eraser[f].alone, Erasing(f)
             PROVE  /\ eraser[f].owed \subseteq 1..written'
                    /\ \A p \in Party \ eraser[f].todo : eraser[f].owed \cap Kept(p)' = {}
                    /\ AtHand(eraser[f], records'[Target(f)], events'[Target(f)])
  BY DEF LonersForget, Erasing, Target
<1>1. /\ eraser[f].owed \subseteq 1..written
      /\ \A p \in Party \ eraser[f].todo : eraser[f].owed \cap Kept(p) = {}
      /\ AtHand(eraser[f], records[Target(f)], events[Target(f)])
  BY DEF ForgetInv, LonersForget
<1>2. written \in Nat /\ written' \in Nat /\ written <= written'
  BY DEF ForgetInv, MemoryItems, NothingComesBack
<1>3. eraser[f].owed \subseteq 1..written'
  BY <1>1, <1>2
<1>4. ASSUME NEW p \in Party \ eraser[f].todo PROVE eraser[f].owed \cap Kept(p)' = {}
  <2>1. eraser[f].owed \cap Kept(p) = {}
    BY <1>1
  <2>2. /\ eraser[f].owed \cap records'[p] \subseteq records[p]
        /\ eraser[f].owed \cap events'[p] \subseteq events[p]
    BY <1>1 DEF NothingComesBack
  <2> QED BY <2>1, <2>2 DEF Kept
<1>5. Target(f) \in Party
  BY TargetFacts
<1>6. AtHand(eraser[f], records'[Target(f)], events'[Target(f)])
  <2> DEFINE row == eraser[f]  stored == records[Target(f)]  raw == events[Target(f)]
             stored2 == records'[Target(f)]  raw2 == events'[Target(f)]
  <2>1. stored \in SUBSET (1..written) /\ raw \in SUBSET (1..written)
    BY <1>5, ItemsFacts
  <2>2. row.owed \subseteq 1..written /\ AtHand(row, stored, raw)
    BY <1>1
  <2>3. stored2 \in {stored, stored \cup {written + 1}} /\ raw2 \in {raw, raw \cup {written + 1}}
    OBVIOUS
  <2> HIDE DEF row, stored, raw, stored2, raw2
  <2>4. AtHand(row, stored2, raw2)
    BY <1>2, <2>1, <2>2, <2>3, AtHandStays
  <2> QED BY <2>4 DEF row, stored2, raw2
<1> QED BY <1>3, <1>4, <1>6

LEMMA ReportsStayTrue ==
    ASSUME ForgetInv, NothingComesBack, forgotten' \subseteq forgotten,
           \A f \in forgotten : eraser'[f] = eraser[f]
    PROVE  ReportsAreTrue'
<1> SUFFICES ASSUME NEW f \in forgotten', eraser'[f].alone
             PROVE  /\ eraser'[f].owed \subseteq 1..written'
                    /\ \A p \in Party : eraser'[f].owed \cap Kept(p)' = {}
  BY DEF ReportsAreTrue, ForgetInv
<1>1. /\ eraser'[f] = eraser[f] /\ eraser[f].owed \subseteq 1..written
      /\ \A p \in Party : eraser[f].owed \cap Kept(p) = {}
  BY DEF ForgetInv, ReportsAreTrue
<1>2. written \in Nat /\ written' \in Nat /\ written <= written'
  BY DEF ForgetInv, MemoryItems, NothingComesBack
<1>3. eraser[f].owed \subseteq 1..written'
  BY <1>1, <1>2
<1>4. ASSUME NEW p \in Party PROVE eraser[f].owed \cap Kept(p)' = {}
  <2>1. /\ eraser[f].owed \cap records'[p] \subseteq records[p]
        /\ eraser[f].owed \cap events'[p] \subseteq events[p]
    BY <1>1 DEF NothingComesBack
  <2> QED BY <1>1, <2>1 DEF Kept
<1> QED BY <1>1, <1>3, <1>4

\* No erasure begins, and none turns to more parties.
LEMMA ShareNoMore ==
    ASSUME ForgetInv,
           \A f \in Eraser : Busy(f)' => /\ Busy(f) /\ eraser'[f].todo \subseteq eraser[f].todo
                                         /\ eraser'[f].alone = eraser[f].alone
    PROVE  LonersShareNothing'
BY DEF ForgetInv, LonersShareNothing

\* The store only loses items.
LEMMA StoreShrinks ==
    ASSUME ForgetInv, written' = written,
           \A p \in Party : records'[p] \subseteq records[p] /\ events'[p] \subseteq events[p]
    PROVE  MemoryItems' /\ NothingComesBack
<1>1. \A p \in Party : Kept(p)' \subseteq Kept(p)
  BY DEF Kept
<1>2. MemoryItems'
  BY <1>1 DEF ForgetInv, MemoryItems
<1> QED BY <1>2 DEF ForgetInv, MemoryItems, NothingComesBack

LEMMA WritesForget ==
    ASSUME MemoryInv, ForgetInv, NEW p \in Party, WriteEvent(p) \/ ExtractRecord(p)
    PROVE  ForgetInv'
<1>1. /\ written' = written + 1 /\ UNCHANGED <<eraser, forgotten>> /\ written \in Nat
      /\ \A q \in Party \ {p} : records'[q] = records[q] /\ events'[q] = events[q]
      /\ \/ records'[p] = records[p] /\ events'[p] = events[p] \cup {written + 1}
         \/ records'[p] = records[p] \cup {written + 1} /\ events'[p] = events[p]
  BY DEF WriteEvent, ExtractRecord, MemoryInv, MemoryTypes, ForgetInv, MemoryItems
<1>2. \A q \in Party : /\ records[q] \subseteq 1..written /\ events[q] \subseteq 1..written
                       /\ records'[q] \in {records[q], records[q] \cup {written + 1}}
                       /\ events'[q] \in {events[q], events[q] \cup {written + 1}}
  BY <1>1 DEF ForgetInv, MemoryItems
<1>3. NothingComesBack
  BY <1>1, <1>2 DEF NothingComesBack
<1>4. MemoryItems'
  <2>1. \A q \in Party : records'[q] \subseteq 1..written' /\ events'[q] \subseteq 1..written'
    BY <1>1, <1>2
  <2>2. /\ \A q \in Party \ {p} : Kept(q)' = Kept(q) /\ Kept(q) \subseteq 1..written
        /\ Kept(p)' = Kept(p) \cup {written + 1}
    BY <1>1, <1>2 DEF Kept
  <2>3. ASSUME NEW q \in Party, NEW r \in Party, q # r PROVE Kept(q)' \cap Kept(r)' = {}
    <3>1. Kept(q) \cap Kept(r) = {}
      BY <2>3 DEF ForgetInv, MemoryItems
    <3>2. written + 1 \notin 1..written
      BY <1>1
    <3> QED BY <2>2, <2>3, <3>1, <3>2
  <2> QED BY <1>1, <2>1, <2>3 DEF MemoryItems
<1>5. LonersShareNothing' /\ SweepsStartAtTheTop'
  BY <1>1 DEF ForgetInv, LonersShareNothing, SweepsStartAtTheTop, Busy
<1>6. ReportsAreTrue'
  BY <1>1, <1>3, ReportsStayTrue
<1>7. ASSUME NEW f \in Eraser PROVE LonersForget(f)'
  <2>1. Erasing(f) => Target(f) \in Party
    BY TargetFacts
  <2> QED BY <1>1, <1>2, <1>3, <2>1, OthersForget
<1> QED BY <1>1, <1>4, <1>5, <1>6, <1>7 DEF ForgetInv

\* An erasure that begins takes the loneliness of those it shares a party with.
LEMMA BeginsAlone ==
    ASSUME MemoryInv, NEW e \in Eraser, NEW state, DOMAIN state = Fields,
           eraser' = Begins(e, state)
    PROVE  /\ \A field \in Fields \ {"alone"} : eraser'[e][field] = state[field]
           /\ \A f \in Eraser \ {e} :
                 /\ eraser'[f] = eraser[f] \/ (Busy(f) /\ ~eraser'[f].alone)
                 /\ eraser'[f].at = eraser[f].at /\ eraser'[f].offset = eraser[f].offset
                 /\ eraser'[f].todo = eraser[f].todo
                 /\ eraser'[f].alone => eraser[f].alone
                 /\ Busy(f) /\ (eraser'[f].alone \/ eraser'[e].alone) =>
                        eraser[f].todo \cap state.todo = {}
<1> DEFINE others == {f \in Eraser \ {e} : Busy(f) /\ eraser[f].todo \cap state.todo # {}}
<1>1. PICK alone : alone = (others = {})
  OBVIOUS
<1>2. eraser' = [f \in Eraser |-> IF f = e THEN [state EXCEPT !.alone = alone]
                                  ELSE IF f \in others THEN [eraser[f] EXCEPT !.alone = FALSE]
                                  ELSE eraser[f]]
  BY <1>1 DEF Begins
<1>3. \A f \in Eraser : DOMAIN eraser[f] = Fields
  BY DEF MemoryInv, MemoryTypes
<1>4. /\ \A field \in Fields \ {"alone"} : eraser'[e][field] = state[field]
      /\ eraser'[e].alone = alone
  <2> HIDE DEF others
  <2> QED BY <1>2 DEF Fields
<1>5. ASSUME NEW f \in Eraser \ {e}, f \in others
      PROVE  /\ \A field \in Fields \ {"alone"} : eraser'[f][field] = eraser[f][field]
             /\ eraser'[f].alone = FALSE /\ Busy(f)
  <2>1. Busy(f)
    BY <1>5
  <2> HIDE DEF others
  <2> QED BY <1>2, <1>3, <1>5, <2>1 DEF Fields
<1>6. ASSUME NEW f \in Eraser \ {e}, f \notin others
      PROVE  eraser'[f] = eraser[f] /\ (Busy(f) => eraser[f].todo \cap state.todo = {})
  <2>1. Busy(f) => eraser[f].todo \cap state.todo = {}
    BY <1>6
  <2> HIDE DEF others
  <2> QED BY <1>2, <1>6, <2>1
<1>7. alone => others = {}
  BY <1>1
<1> HIDE DEF others
<1> QED BY <1>4, <1>5, <1>6, <1>7 DEF Fields

LEMMA BeginningsForget ==
    ASSUME MemoryInv, ForgetInv, NEW e \in Eraser, NEW state, DOMAIN state = Fields,
           eraser' = Begins(e, state), state.offset = 0, eraser[e].at = "idle",
           state.at # "done", UNCHANGED <<parties, future, records, events, written, forgotten>>,
           eraser'[e].alone /\ state.at # "parties" =>
               /\ state.at = "records" /\ state.owed \subseteq 1..written
               /\ \A p \in Party \ state.todo : state.owed \cap Kept(p) = {}
               /\ \A p \in state.todo : p \in Party
               /\ \E p : p \in state.todo
    PROVE  ForgetInv'
<1>1. /\ eraser'[e].at = state.at /\ eraser'[e].todo = state.todo
      /\ eraser'[e].offset = state.offset /\ eraser'[e].owed = state.owed
  BY BeginsAlone DEF Fields
<1>2. \A f \in Eraser \ {e} :
          /\ eraser'[f] = eraser[f] \/ (Busy(f) /\ ~eraser'[f].alone)
          /\ eraser'[f].at = eraser[f].at /\ eraser'[f].offset = eraser[f].offset
          /\ eraser'[f].todo = eraser[f].todo
          /\ eraser'[f].alone => eraser[f].alone
          /\ Busy(f) /\ (eraser'[f].alone \/ eraser'[e].alone) =>
                 eraser[f].todo \cap state.todo = {}
  BY BeginsAlone
<1>3. MemoryItems' /\ NothingComesBack
  BY StoreShrinks
<1>4. SweepsStartAtTheTop'
  BY <1>1, <1>2 DEF ForgetInv, SweepsStartAtTheTop
<1>5. LonersShareNothing'
  BY <1>1, <1>2 DEF ForgetInv, LonersShareNothing, Busy
<1>6. \A f \in forgotten : f \in Eraser \ {e} /\ ~Busy(f)
  BY DEF ForgetInv, ReportsAreTrue, Busy
<1>7. ReportsAreTrue'
  BY <1>2, <1>3, <1>6, ReportsStayTrue
<1>8. ASSUME NEW f \in Eraser \ {e} PROVE LonersForget(f)'
  <2>1. CASE eraser'[f] = eraser[f]
    BY <1>3, <2>1, OthersForget
  <2>2. CASE ~eraser'[f].alone
    BY <2>2 DEF LonersForget
  <2> QED BY <1>2, <2>1, <2>2
<1>9. LonersForget(e)'
  <2> SUFFICES ASSUME eraser'[e].alone, Erasing(e)'
               PROVE  /\ eraser'[e].owed \subseteq 1..written
                      /\ \A p \in Party \ eraser'[e].todo : eraser'[e].owed \cap Kept(p)' = {}
                      /\ AtHand(eraser'[e], records[Target(e)'], events[Target(e)'])
    BY DEF LonersForget
  <2>1. /\ state.at = "records" /\ state.owed \subseteq 1..written
        /\ \A p \in Party \ state.todo : state.owed \cap Kept(p) = {}
        /\ \A p \in state.todo : p \in Party
        /\ \E p : p \in state.todo
    BY <1>1 DEF Erasing
  <2>2. Target(e)' \in Party
    BY <1>1, <2>1 DEF Target
  <2>3. AheadOf(eraser'[e], records[Target(e)'])
    BY <1>1, <2>2, ItemsFacts, AheadFromTheTop
  <2>4. AtHand(eraser'[e], records[Target(e)'], events[Target(e)'])
    BY <1>1, <2>1, <2>3 DEF AtHand
  <2>5. \A p \in Party : Kept(p)' = Kept(p)
    BY DEF Kept
  <2> QED BY <1>1, <2>1, <2>4, <2>5
<1> QED BY <1>3, <1>4, <1>5, <1>7, <1>8, <1>9 DEF ForgetInv

\* The shared part of a step of an erasure that goes on with its parties.
LEMMA GoesOnForgetting ==
    ASSUME MemoryInv, ForgetInv, NEW e \in Eraser, Erasing(e), written' = written,
           UNCHANGED <<parties, future, forgotten>>,
           \A p \in Party : records'[p] \subseteq records[p] /\ events'[p] \subseteq events[p],
           \A p \in Party \ {Target(e)} : records'[p] = records[p] /\ events'[p] = events[p],
           \A f \in Eraser \ {e} : eraser'[f] = eraser[f],
           eraser'[e].todo = eraser[e].todo, eraser'[e].alone = eraser[e].alone,
           eraser'[e].owed = eraser[e].owed, eraser'[e].at \notin {"idle", "parties", "done"},
           eraser[e].alone /\ AtHand(eraser[e], records[Target(e)], events[Target(e)]) =>
               AtHand(eraser'[e], records'[Target(e)], events'[Target(e)])
    PROVE  ForgetInv'
<1>1. MemoryItems' /\ NothingComesBack
  BY StoreShrinks
<1>2. \A f \in Eraser : /\ Busy(f)' => Busy(f)
                        /\ eraser'[f].todo = eraser[f].todo /\ eraser'[f].alone = eraser[f].alone
  BY DEF Busy, Erasing
<1>3. LonersShareNothing'
  BY <1>2, ShareNoMore
<1>4. SweepsStartAtTheTop'
  BY DEF ForgetInv, SweepsStartAtTheTop
<1>5. \A f \in forgotten : f \in Eraser \ {e}
  BY DEF ForgetInv, ReportsAreTrue, Erasing
<1>6. ReportsAreTrue'
  BY <1>1, <1>5, ReportsStayTrue
<1>7. Target(e) \in eraser[e].todo /\ Target(e) \in Party
  BY TargetFacts
<1>8. ASSUME NEW f \in Eraser \ {e} PROVE LonersForget(f)'
  <2>1. ASSUME eraser[f].alone, Erasing(f) PROVE Target(f) \in Party \ {Target(e)}
    <3>1. Target(f) \in eraser[f].todo /\ Target(f) \in Party
      BY <2>1, TargetFacts
    <3>2. eraser[f].todo \cap eraser[e].todo = {}
      BY <2>1 DEF ForgetInv, LonersShareNothing, Busy, Erasing
    <3> QED BY <1>7, <3>1, <3>2
  <2> QED BY <1>1, <2>1, OthersForget
<1>9. LonersForget(e)'
  <2> SUFFICES ASSUME eraser[e].alone
               PROVE  /\ eraser[e].owed \subseteq 1..written
                      /\ \A p \in Party \ eraser[e].todo : eraser[e].owed \cap Kept(p)' = {}
                      /\ AtHand(eraser'[e], records'[Target(e)], events'[Target(e)])
    BY DEF LonersForget, Target
  <2>1. /\ eraser[e].owed \subseteq 1..written
        /\ \A p \in Party \ eraser[e].todo : eraser[e].owed \cap Kept(p) = {}
        /\ AtHand(eraser[e], records[Target(e)], events[Target(e)])
    BY DEF ForgetInv, LonersForget
  <2>2. \A p \in Party : Kept(p)' \subseteq Kept(p)
    BY DEF Kept
  <2> QED BY <2>1, <2>2
<1> QED BY <1>1, <1>3, <1>4, <1>6, <1>8, <1>9 DEF ForgetInv

LEMMA ListingFacts ==
    ASSUME MemoryInv, ForgetInv, NEW e \in Eraser, NEW n \in Nat, NEW items \in SUBSET (1..n),
           NEW next \in {"deleteRecords", "deleteEvents"}, ListPage(e, items, next)
    PROVE  /\ \A f \in Eraser \ {e} : eraser'[f] = eraser[f]
           /\ eraser'[e].todo = eraser[e].todo /\ eraser'[e].alone = eraser[e].alone
           /\ eraser'[e].owed = eraser[e].owed
           /\ eraser'[e].at \in {eraser[e].at, next}
           /\ AheadOf(eraser[e], items) =>
                 \/ eraser'[e].at = eraser[e].at /\ AheadOf(eraser'[e], items)
                 \/ /\ eraser'[e].at = next /\ eraser'[e].offset = 0
                    /\ eraser[e].owed \cap items \subseteq eraser'[e].listed
<1> DEFINE page == Page(items, eraser[e].offset)
           more == Cardinality(items) > eraser[e].offset + PageSize
<1>1. DOMAIN eraser = Eraser /\ DOMAIN eraser[e] = Fields
  BY DEF MemoryInv, MemoryTypes
<1>2. eraser' = [eraser EXCEPT ![e].listed = @ \cup page,
                               ![e].offset = IF more THEN @ + PageSize ELSE 0,
                               ![e].at = IF more THEN @ ELSE next]
  BY DEF ListPage
<1> HIDE DEF page, more
<1>3. /\ \A f \in Eraser \ {e} : eraser'[f] = eraser[f]
      /\ eraser'[e].todo = eraser[e].todo /\ eraser'[e].alone = eraser[e].alone
      /\ eraser'[e].owed = eraser[e].owed /\ eraser'[e].listed = eraser[e].listed \cup page
      /\ eraser'[e].offset = IF more THEN eraser[e].offset + PageSize ELSE 0
      /\ eraser'[e].at = IF more THEN eraser[e].at ELSE next
  BY <1>1, <1>2 DEF Fields
<1>4. ASSUME AheadOf(eraser[e], items)
      PROVE  /\ more => AheadOf(eraser'[e], items)
             /\ ~more => eraser'[e].owed \cap items \subseteq eraser'[e].listed
  <2> DEFINE row == eraser[e]  next2 == eraser'[e]
  <2>1. /\ AheadOf(row, items) /\ next2.owed = row.owed
        /\ next2.listed = row.listed \cup Page(items, row.offset)
        /\ more => next2.offset = row.offset + PageSize
    BY <1>3, <1>4 DEF page
  <2> HIDE DEF row, next2
  <2>2. /\ Cardinality(items) > row.offset + PageSize /\ next2.offset = row.offset + PageSize
               => AheadOf(next2, items)
        /\ ~ (Cardinality(items) > row.offset + PageSize)
               => next2.owed \cap items \subseteq next2.listed
    BY <2>1, PagesGoOn
  <2> QED BY <2>1, <2>2 DEF more, row, next2
<1> QED BY <1>3, <1>4

LEMMA PagesForget ==
    ASSUME MemoryInv, ForgetInv, NEW e \in Eraser, ListRecords(e) \/ ListEvents(e)
    PROVE  ForgetInv'
<1>1. Erasing(e) /\ UNCHANGED <<parties, future, records, events, written, forgotten>>
  BY DEF ListRecords, ListEvents, Erasing
<1>2. Target(e) \in Party
  BY <1>1, TargetFacts
<1> DEFINE stored == records[Target(e)]  raw == events[Target(e)]
<1>3. written \in Nat /\ stored \in SUBSET (1..written) /\ raw \in SUBSET (1..written)
  BY <1>2, ItemsFacts
<1>4. CASE ListRecords(e)
  <2>1. eraser[e].at = "records" /\ ListPage(e, stored, "deleteRecords")
    BY <1>4 DEF ListRecords
  <2> HIDE DEF stored, raw
  <2>2. /\ \A f \in Eraser \ {e} : eraser'[f] = eraser[f]
        /\ eraser'[e].todo = eraser[e].todo /\ eraser'[e].alone = eraser[e].alone
        /\ eraser'[e].owed = eraser[e].owed
        /\ eraser'[e].at \in {"records", "deleteRecords"}
        /\ AheadOf(eraser[e], stored) =>
              \/ eraser'[e].at = "records" /\ AheadOf(eraser'[e], stored)
              \/ /\ eraser'[e].at = "deleteRecords" /\ eraser'[e].offset = 0
                 /\ eraser[e].owed \cap stored \subseteq eraser'[e].listed
    BY <1>3, <2>1, ListingFacts
  <2>3. AtHand(eraser[e], stored, raw) => AtHand(eraser'[e], stored, raw)
    BY <2>1, <2>2 DEF AtHand
  <2> QED BY <1>1, <2>2, <2>3, GoesOnForgetting DEF stored, raw
<1>5. CASE ListEvents(e)
  <2>1. eraser[e].at = "events" /\ ListPage(e, raw, "deleteEvents")
    BY <1>5 DEF ListEvents
  <2> HIDE DEF stored, raw
  <2>2. /\ \A f \in Eraser \ {e} : eraser'[f] = eraser[f]
        /\ eraser'[e].todo = eraser[e].todo /\ eraser'[e].alone = eraser[e].alone
        /\ eraser'[e].owed = eraser[e].owed
        /\ eraser'[e].at \in {"events", "deleteEvents"}
        /\ AheadOf(eraser[e], raw) =>
              \/ eraser'[e].at = "events" /\ AheadOf(eraser'[e], raw)
              \/ /\ eraser'[e].at = "deleteEvents" /\ eraser'[e].offset = 0
                 /\ eraser[e].owed \cap raw \subseteq eraser'[e].listed
    BY <1>3, <2>1, ListingFacts
  <2>3. AtHand(eraser[e], stored, raw) => AtHand(eraser'[e], stored, raw)
    BY <2>1, <2>2 DEF AtHand
  <2> QED BY <1>1, <2>2, <2>3, GoesOnForgetting DEF stored, raw
<1> QED BY <1>4, <1>5

LEMMA DeletionsForget ==
    ASSUME MemoryInv, ForgetInv, NEW e \in Eraser,
           DeleteRecords(e) \/ \E i \in Item : DeleteEvent(e, i)
    PROVE  ForgetInv'
<1>1. Erasing(e) /\ UNCHANGED <<parties, future, written, forgotten>>
  BY DEF DeleteRecords, DeleteEvent, Erasing
<1>2. /\ Target(e) \in Party /\ DOMAIN records = Party /\ DOMAIN events = Party
      /\ DOMAIN eraser = Eraser /\ \A f \in Eraser : DOMAIN eraser[f] = Fields
  BY <1>1, TargetFacts DEF MemoryInv, MemoryTypes
<1>3. CASE DeleteRecords(e)
  <2>1. /\ eraser[e].at = "deleteRecords" /\ UNCHANGED events
        /\ records' = [records EXCEPT ![Target(e)] = @ \ eraser[e].listed]
        /\ eraser' = [eraser EXCEPT ![e].listed = {}, ![e].at = "events"]
    BY <1>3 DEF DeleteRecords
  <2>2. /\ \A f \in Eraser \ {e} : eraser'[f] = eraser[f]
        /\ eraser'[e].todo = eraser[e].todo /\ eraser'[e].alone = eraser[e].alone
        /\ eraser'[e].owed = eraser[e].owed /\ eraser'[e].offset = eraser[e].offset
        /\ eraser'[e].at = "events"
    BY <1>2, <2>1 DEF Fields
  <2>3. /\ records'[Target(e)] = records[Target(e)] \ eraser[e].listed
        /\ \A p \in Party \ {Target(e)} : records'[p] = records[p] /\ events'[p] = events[p]
        /\ \A p \in Party : records'[p] \subseteq records[p] /\ events'[p] \subseteq events[p]
    BY <1>2, <2>1
  <2>4. ASSUME AtHand(eraser[e], records[Target(e)], events[Target(e)])
        PROVE  AtHand(eraser'[e], records'[Target(e)], events'[Target(e)])
    <3>1. /\ eraser[e].owed \cap records[Target(e)] \subseteq eraser[e].listed
          /\ eraser[e].offset = 0
      BY <2>1, <2>4 DEF AtHand
    <3>2. eraser'[e].owed \cap records'[Target(e)] = {}
      BY <2>2, <2>3, <3>1
    <3>3. AheadOf(eraser'[e], events[Target(e)])
      BY <1>2, <2>2, <3>1, ItemsFacts, AheadFromTheTop
    <3> QED BY <2>1, <2>2, <3>2, <3>3 DEF AtHand
  <2> QED BY <1>1, <2>2, <2>3, <2>4, GoesOnForgetting
<1>4. ASSUME NEW i \in Item, DeleteEvent(e, i) PROVE ForgetInv'
  <2>1. /\ eraser[e].at = "deleteEvents" /\ UNCHANGED records
        /\ events' = [events EXCEPT ![Target(e)] = @ \ {i}]
        /\ eraser' = [eraser EXCEPT ![e].listed = @ \ {i}]
    BY <1>4 DEF DeleteEvent
  <2>2. /\ \A f \in Eraser \ {e} : eraser'[f] = eraser[f]
        /\ eraser'[e].todo = eraser[e].todo /\ eraser'[e].alone = eraser[e].alone
        /\ eraser'[e].owed = eraser[e].owed /\ eraser'[e].offset = eraser[e].offset
        /\ eraser'[e].at = "deleteEvents" /\ eraser'[e].listed = eraser[e].listed \ {i}
    BY <1>2, <2>1 DEF Fields
  <2>3. /\ events'[Target(e)] = events[Target(e)] \ {i}
        /\ \A p \in Party \ {Target(e)} : records'[p] = records[p] /\ events'[p] = events[p]
        /\ \A p \in Party : records'[p] \subseteq records[p] /\ events'[p] \subseteq events[p]
    BY <1>2, <2>1
  <2>4. AtHand(eraser[e], records[Target(e)], events[Target(e)]) =>
            AtHand(eraser'[e], records'[Target(e)], events'[Target(e)])
    BY <2>1, <2>2, <2>3 DEF AtHand
  <2> QED BY <1>1, <2>2, <2>3, <2>4, GoesOnForgetting
<1> QED BY <1>3, <1>4

LEMMA EndsForget ==
    ASSUME MemoryInv, ForgetInv, NEW e \in Eraser, Orphans(e) \/ FinishParty(e) \/ ErasureFails(e)
    PROVE  ForgetInv'
<1>1. UNCHANGED <<parties, future, records, events, written>> /\ eraser[e].at # "done"
  BY DEF Orphans, FinishParty, ErasureFails, Busy
<1>2. /\ DOMAIN eraser = Eraser /\ \A f \in Eraser : DOMAIN eraser[f] = Fields
      /\ \A p \in Party : Kept(p)' = Kept(p)
  BY <1>1 DEF MemoryInv, MemoryTypes, Kept
<1>3. MemoryItems' /\ NothingComesBack
  BY <1>1, StoreShrinks
<1>4. \A f \in Eraser \ {e} : eraser'[f] = eraser[f]
  BY <1>2 DEF Orphans, FinishParty, ErasureFails
<1>5. \A f \in forgotten : f \in Eraser \ {e}
  BY <1>1 DEF ForgetInv, ReportsAreTrue
<1>6. \A f \in Eraser \ {e} : LonersForget(f)'
  BY <1>1, <1>3, <1>4, OthersForget
<1>7. CASE UNCHANGED forgotten /\ eraser'[e].at = "done"
  <2>1. SweepsStartAtTheTop' /\ LonersForget(e)'
    BY <1>4, <1>7 DEF ForgetInv, SweepsStartAtTheTop, LonersForget, Erasing
  <2>2. LonersShareNothing'
    BY <1>4, <1>7, ShareNoMore DEF Busy
  <2>3. ReportsAreTrue'
    BY <1>3, <1>4, <1>5, <1>7, ReportsStayTrue
  <2> QED BY <1>3, <1>6, <1>7, <2>1, <2>2, <2>3 DEF ForgetInv
<1>8. CASE ErasureFails(e)
  <2>1. UNCHANGED forgotten /\ eraser'[e].at = "done"
    BY <1>2, <1>8 DEF ErasureFails, Asleep
  <2> QED BY <1>7, <2>1
<1>9. CASE Orphans(e)
  <2> DEFINE orphans == eraser[e].todo \ parties
  <2>1. CASE orphans = {}
    <3>1. UNCHANGED forgotten /\ eraser'[e].at = "done"
      BY <1>2, <1>9, <2>1 DEF Orphans, Asleep
    <3> QED BY <1>7, <3>1
  <2>2. CASE orphans # {}
    <3>1. eraser' = [eraser EXCEPT ![e] =
                        [@ EXCEPT !.at = "records", !.todo = orphans, !.owed = OwedBy(orphans)]]
      BY <1>9, <2>2 DEF Orphans
    <3>2. eraser[e].at = "parties" /\ UNCHANGED forgotten /\ \E p : p \in orphans
      BY <1>9, <2>2 DEF Orphans
    <3>3. /\ eraser'[e].at = "records" /\ eraser'[e].todo = orphans
          /\ eraser'[e].owed = OwedBy(orphans) /\ eraser'[e].alone = eraser[e].alone
          /\ eraser'[e].offset = eraser[e].offset
      <4> HIDE DEF orphans
      <4> QED BY <1>2, <3>1 DEF Fields
    <3>4. SweepsStartAtTheTop' /\ eraser'[e].offset = 0
      BY <1>4, <3>2, <3>3 DEF ForgetInv, SweepsStartAtTheTop
    <3>5. LonersShareNothing'
      BY <1>4, <3>2, <3>3, ShareNoMore DEF Busy
    <3>6. ReportsAreTrue'
      BY <1>3, <1>4, <1>5, <3>2, ReportsStayTrue
    <3>7. orphans \subseteq Party
      BY DEF MemoryInv, ErasuresKnowTheirParties
    <3> HIDE DEF orphans
    <3>8. OwedBy(orphans) \subseteq 1..written
      <4>1. \A p \in orphans : Kept(p) \subseteq 1..written
        BY <3>7, ItemsFacts DEF Kept
      <4> QED BY <4>1 DEF OwedBy
    <3>9. \A p \in Party \ orphans : OwedBy(orphans) \cap Kept(p) = {}
      <4>1. \A p \in Party \ orphans, q \in orphans : Kept(q) \cap Kept(p) = {}
        BY <3>7 DEF ForgetInv, MemoryItems
      <4> QED BY <4>1 DEF OwedBy
    <3>10. Target(e)' \in Party
      BY <3>2, <3>3, <3>7 DEF Target
    <3>11. AheadOf(eraser'[e], records[Target(e)'])
      BY <3>4, <3>10, ItemsFacts, AheadFromTheTop
    <3>12. AtHand(eraser'[e], records[Target(e)'], events[Target(e)'])
      BY <3>3, <3>11 DEF AtHand
    <3>13. LonersForget(e)'
      BY <1>1, <1>2, <3>3, <3>8, <3>9, <3>12 DEF LonersForget
    <3> QED BY <1>3, <1>6, <3>2, <3>4, <3>5, <3>6, <3>13 DEF ForgetInv
  <2> QED BY <2>1, <2>2
<1>10. CASE FinishParty(e)
  <2> DEFINE left == eraser[e].todo \ {Target(e)}
  <2>1. eraser[e].at = "deleteEvents" /\ eraser[e].listed = {} /\ Erasing(e)
    BY <1>10 DEF FinishParty, Erasing
  <2>2. Target(e) \in eraser[e].todo /\ Target(e) \in Party
    BY <2>1, TargetFacts
  <2>3. ASSUME eraser[e].alone
        PROVE  /\ eraser[e].owed \subseteq 1..written /\ eraser[e].offset = 0
               /\ \A p \in Party \ left : eraser[e].owed \cap Kept(p) = {}
    <3>1. /\ eraser[e].owed \subseteq 1..written
          /\ \A p \in Party \ eraser[e].todo : eraser[e].owed \cap Kept(p) = {}
          /\ AtHand(eraser[e], records[Target(e)], events[Target(e)])
      BY <2>1, <2>3 DEF ForgetInv, LonersForget
    <3>2. eraser[e].owed \cap Kept(Target(e)) = {} /\ eraser[e].offset = 0
      BY <2>1, <3>1 DEF AtHand, Kept
    <3> QED BY <3>1, <3>2
  <2>4. CASE left # {}
    <3>1. eraser' = [eraser EXCEPT ![e].at = "records", ![e].todo = left] /\ UNCHANGED forgotten
      BY <1>10, <2>4 DEF FinishParty
    <3>2. /\ eraser'[e].at = "records" /\ eraser'[e].todo = left
          /\ eraser'[e].owed = eraser[e].owed /\ eraser'[e].alone = eraser[e].alone
          /\ eraser'[e].offset = eraser[e].offset
      <4> HIDE DEF left
      <4> QED BY <1>2, <3>1 DEF Fields
    <3>3. SweepsStartAtTheTop'
      BY <1>4, <3>2 DEF ForgetInv, SweepsStartAtTheTop
    <3>4. LonersShareNothing'
      BY <1>4, <2>1, <3>2, ShareNoMore DEF Busy
    <3>5. ReportsAreTrue'
      BY <1>3, <1>4, <1>5, <3>1, ReportsStayTrue
    <3>6. left \subseteq Party /\ \E p : p \in left
      BY <2>4 DEF MemoryInv, ErasuresKnowTheirParties
    <3> HIDE DEF left
    <3>7. Target(e)' \in Party
      BY <3>2, <3>6 DEF Target
    <3>8. ASSUME eraser'[e].alone PROVE AtHand(eraser'[e], records[Target(e)'], events[Target(e)'])
      <4>1. AheadOf(eraser'[e], records[Target(e)'])
        BY <2>3, <3>2, <3>7, <3>8, ItemsFacts, AheadFromTheTop
      <4> QED BY <3>2, <4>1 DEF AtHand
    <3>9. LonersForget(e)'
      BY <1>1, <1>2, <2>3, <3>2, <3>8 DEF LonersForget
    <3> QED BY <1>3, <1>6, <3>1, <3>3, <3>4, <3>5, <3>9 DEF ForgetInv
  <2>5. CASE left = {}
    <3>1. /\ eraser' = [eraser EXCEPT ![e].at = "done"]
          /\ forgotten' = forgotten \cup {e}
      BY <1>10, <2>5 DEF FinishParty
    <3>2. /\ eraser'[e].at = "done"
          /\ eraser'[e].owed = eraser[e].owed /\ eraser'[e].alone = eraser[e].alone
      BY <1>2, <3>1 DEF Fields
    <3>3. SweepsStartAtTheTop' /\ LonersForget(e)'
      BY <1>4, <3>2 DEF ForgetInv, SweepsStartAtTheTop, LonersForget, Erasing
    <3>4. LonersShareNothing'
      BY <1>4, <3>2, ShareNoMore DEF Busy
    <3>5. ASSUME NEW f \in forgotten'
          PROVE  /\ eraser'[f].at = "done"
                 /\ eraser'[f].alone => /\ eraser'[f].owed \subseteq 1..written
                                        /\ \A p \in Party : eraser'[f].owed \cap Kept(p) = {}
      <4>1. CASE f = e
        BY <2>3, <2>5, <3>2, <4>1
      <4>2. CASE f # e
        BY <1>4, <1>5, <3>1, <4>2 DEF ForgetInv, ReportsAreTrue
      <4> QED BY <4>1, <4>2
    <3>6. ReportsAreTrue'
      BY <1>1, <1>2, <3>5 DEF ReportsAreTrue
    <3> QED BY <1>3, <1>6, <3>1, <3>3, <3>4, <3>6 DEF ForgetInv
  <2> QED BY <2>4, <2>5
<1> QED BY <1>8, <1>9, <1>10

LEMMA ForgetStep == MemoryInv /\ ForgetInv /\ [MemoryNext]_memoryVars => ForgetInv'
<1> SUFFICES ASSUME MemoryInv, ForgetInv, [MemoryNext]_memoryVars PROVE ForgetInv'
  OBVIOUS
<1>1. ASSUME NEW p \in Party, CreateParty(p) \/ DeleteParty(p) PROVE ForgetInv'
  <2>1. UNCHANGED <<records, events, written, eraser, forgotten>>
    BY <1>1 DEF CreateParty, DeleteParty
  <2> QED BY <2>1 DEF ForgetInv, MemoryItems, SweepsStartAtTheTop, LonersShareNothing, Busy,
             ReportsAreTrue, LonersForget, Erasing, Kept, Target
<1>2. CASE UNCHANGED memoryVars
  BY <1>2 DEF memoryVars, ForgetInv, MemoryItems, SweepsStartAtTheTop, LonersShareNothing, Busy,
     ReportsAreTrue, LonersForget, Erasing, Kept, Target
<1>3. ASSUME NEW p \in Party, WriteEvent(p) \/ ExtractRecord(p) PROVE ForgetInv'
  BY <1>3, WritesForget
<1>4. ASSUME NEW e \in Eraser, NEW p \in Party, ForgetPartyMemory(e, p) PROVE ForgetInv'
  <2> DEFINE state == [Asleep EXCEPT !.at = "records", !.todo = {p}, !.owed = Kept(p)]
  <2>1. /\ eraser[e].at = "idle" /\ eraser' = Begins(e, state)
        /\ UNCHANGED <<parties, future, records, events, written, forgotten>>
    BY <1>4 DEF ForgetPartyMemory
  <2>2. /\ DOMAIN state = Fields /\ state.at = "records" /\ state.todo = {p}
        /\ state.owed = Kept(p) /\ state.offset = 0
    BY DEF Asleep, Fields
  <2> HIDE DEF state
  <2>3. Kept(p) \subseteq 1..written
    BY ItemsFacts DEF Kept
  <2>4. \A q \in Party \ {p} : Kept(p) \cap Kept(q) = {}
    BY DEF ForgetInv, MemoryItems
  <2> QED BY <2>1, <2>2, <2>3, <2>4, BeginningsForget
<1>5. ASSUME NEW e \in Eraser, ListActors(e) PROVE ForgetInv'
  <2> DEFINE state == [Asleep EXCEPT !.at = "parties", !.kind = "sweep",
                                     !.todo = {p \in Party : Kept(p) # {}}]
  <2>1. /\ eraser[e].at = "idle" /\ eraser' = Begins(e, state)
        /\ UNCHANGED <<parties, future, records, events, written, forgotten>>
    BY <1>5 DEF ListActors
  <2>2. DOMAIN state = Fields /\ state.at = "parties" /\ state.offset = 0
    BY DEF Asleep, Fields
  <2> HIDE DEF state
  <2> QED BY <2>1, <2>2, BeginningsForget
<1>6. ASSUME NEW e \in Eraser, Orphans(e) \/ FinishParty(e) \/ ErasureFails(e) PROVE ForgetInv'
  BY <1>6, EndsForget
<1>7. ASSUME NEW e \in Eraser, ListRecords(e) \/ ListEvents(e) PROVE ForgetInv'
  BY <1>7, PagesForget
<1>8. ASSUME NEW e \in Eraser, DeleteRecords(e) \/ \E i \in Item : DeleteEvent(e, i)
      PROVE  ForgetInv'
  BY <1>8, DeletionsForget
<1> QED BY <1>1, <1>2, <1>3, <1>4, <1>5, <1>6, <1>7, <1>8 DEF MemoryNext

\* An erasure that reports success and had its parties to itself has left nothing of what was
\* kept about them when it began, for any number of parties, of items and of items on a page,
\* and whatever is written while it reads (forget.ts:16-21, 54-60).
THEOREM ForgettingLeavesNothing == MemorySpec => []ForgottenMemoryIsGone
<1>1. MemoryInit => MemoryInv /\ ForgetInv
  <2> SUFFICES ASSUME MemoryInit PROVE MemoryInv /\ ForgetInv
    OBVIOUS
  <2>1. MemoryInv
    BY MemoryStart
  <2>2. \A e \in Eraser : eraser[e] = Asleep
    BY DEF MemoryInit
  <2>3. MemoryItems
    BY DEF MemoryInit, MemoryItems, Kept
  <2>4. \A e \in Eraser : ~Busy(e) /\ ~Erasing(e) /\ eraser[e].at # "parties"
    BY <2>2 DEF Busy, Erasing, Asleep
  <2> QED BY <2>1, <2>3, <2>4 DEF MemoryInit, ForgetInv, SweepsStartAtTheTop,
             LonersShareNothing, ReportsAreTrue, LonersForget
<1>2. ForgetInv => ForgottenMemoryIsGone
  BY DEF ForgetInv, ReportsAreTrue, ForgottenMemoryIsGone
<1> QED BY <1>1, <1>2, SweepStep, ForgetStep, PTL DEF MemorySpec

ErasureRow == [at : {"idle", "parties", "records", "deleteRecords", "events", "deleteEvents",
                     "done"},
               kind : {"forget", "sweep"}, todo : SUBSET Party, listed : SUBSET Item,
               offset : 0..MaxItems, owed : SUBSET Item, alone : BOOLEAN]

LEMMA AsleepType == Asleep \in ErasureRow
BY MemoryAssumption DEF Asleep, ErasureRow

LEMMA MemoryTypesStart == MemoryInit => MemoryTypeOK
<1> SUFFICES ASSUME MemoryInit PROVE MemoryTypeOK
  OBVIOUS
<1> QED BY AsleepType, MemoryAssumption DEF MemoryInit, MemoryTypeOK, ErasureRow

\* What is kept are items that were written, so never more than may be.
LEMMA KeptAreItems ==
    ASSUME MemoryTypeOK, NEW p \in Party
    PROVE  /\ Kept(p) \subseteq 1..written /\ Kept(p) \subseteq Item
           /\ \A items \in {records[p], events[p]} :
                 items \subseteq Item /\ Cardinality(items) \in 0..MaxItems
<1>1. /\ written \in 0..MaxItems /\ MaxItems \in Nat
      /\ records[p] \subseteq 1..written /\ events[p] \subseteq 1..written
  BY MemoryAssumption DEF MemoryTypeOK
<1>2. 1..written \subseteq Item
  BY <1>1 DEF Item
<1>3. ASSUME NEW items \in {records[p], events[p]} PROVE Cardinality(items) \in 0..MaxItems
  <2>1. IsFiniteSet(1..written) /\ Cardinality(1..written) = written
    BY <1>1, FS_Interval
  <2>2. items \subseteq 1..written
    BY <1>1
  <2>3. IsFiniteSet(items) /\ Cardinality(items) <= written
    BY <2>1, <2>2, FS_Subset
  <2> QED BY <1>1, <2>3, FS_CardinalityType
<1> QED BY <1>1, <1>2, <1>3 DEF Kept

LEMMA BeginsTypes ==
    ASSUME MemoryTypeOK, NEW e \in Eraser, NEW state \in ErasureRow, eraser' = Begins(e, state)
    PROVE  eraser' \in [Eraser -> ErasureRow]
<1> DEFINE others == {f \in Eraser \ {e} : Busy(f) /\ eraser[f].todo \cap state.todo # {}}
<1>1. PICK alone \in BOOLEAN : alone = (others = {})
  OBVIOUS
<1>2. eraser' = [f \in Eraser |-> IF f = e THEN [state EXCEPT !.alone = alone]
                                  ELSE IF f \in others THEN [eraser[f] EXCEPT !.alone = FALSE]
                                  ELSE eraser[f]]
  BY <1>1 DEF Begins
<1> HIDE DEF others
<1>3. \A f \in Eraser : eraser[f] \in ErasureRow
  BY DEF MemoryTypeOK, ErasureRow
<1>4. /\ [state EXCEPT !.alone = alone] \in ErasureRow
      /\ \A f \in Eraser : [eraser[f] EXCEPT !.alone = FALSE] \in ErasureRow
  BY <1>3 DEF ErasureRow
<1> QED BY <1>2, <1>3, <1>4

\* The offset is that of a page there was.
LEMMA ListPageTypes ==
    ASSUME MemoryTypeOK, NEW e \in Eraser, NEW p \in Party, NEW items \in {records[p], events[p]},
           NEW next \in {"deleteRecords", "deleteEvents"}, ListPage(e, items, next)
    PROVE  eraser' \in [Eraser -> ErasureRow]
<1> DEFINE row == eraser[e]
           more == Cardinality(items) > row.offset + PageSize
           turned == [row EXCEPT !.listed = row.listed \cup Page(items, row.offset),
                                 !.offset = IF more THEN row.offset + PageSize ELSE 0,
                                 !.at = IF more THEN row.at ELSE next]
<1>1. eraser' = [eraser EXCEPT ![e] = turned]
  BY DEF ListPage, MemoryTypeOK
<1>2. eraser \in [Eraser -> ErasureRow] /\ row \in ErasureRow
  BY DEF MemoryTypeOK, ErasureRow
<1>3. Page(items, row.offset) \subseteq Item
  BY KeptAreItems DEF Page
<1>4. (IF more THEN row.offset + PageSize ELSE 0) \in 0..MaxItems
  <2>1. Cardinality(items) \in 0..MaxItems /\ row.offset \in 0..MaxItems
    BY <1>2, KeptAreItems DEF ErasureRow
  <2> QED BY <2>1, MemoryAssumption
<1>5. turned \in ErasureRow
  BY <1>2, <1>3, <1>4 DEF ErasureRow
<1> HIDE DEF turned
<1> QED BY <1>1, <1>2, <1>5

LEMMA MemoryTypesStep ==
    ASSUME MemoryInv, MemoryTypeOK, [MemoryNext]_memoryVars
    PROVE  MemoryTypeOK'
<1>1. /\ written \in 0..MaxItems /\ MaxItems \in Nat /\ PageSize \in Nat
      /\ eraser \in [Eraser -> ErasureRow]
      /\ records \in [Party -> SUBSET (1..written)] /\ events \in [Party -> SUBSET (1..written)]
  BY MemoryAssumption DEF MemoryTypeOK, ErasureRow
<1>2. CASE UNCHANGED memoryVars
  BY <1>2 DEF memoryVars, MemoryTypeOK
<1>3. ASSUME NEW p \in Party, CreateParty(p) \/ DeleteParty(p) PROVE MemoryTypeOK'
  BY <1>3 DEF CreateParty, DeleteParty, MemoryTypeOK
<1>4. ASSUME NEW p \in Party, WriteEvent(p) \/ ExtractRecord(p) PROVE MemoryTypeOK'
  <2>1. /\ written' = written + 1 /\ written < MaxItems
        /\ UNCHANGED <<parties, future, eraser, forgotten>>
    BY <1>4 DEF WriteEvent, ExtractRecord
  <2>2. written' \in 0..MaxItems /\ 1..written \subseteq 1..written' /\ written' \in 1..written'
    BY <1>1, <2>1
  <2>3. records' \in [Party -> SUBSET (1..written')] /\ events' \in [Party -> SUBSET (1..written')]
    BY <1>1, <1>4, <2>2 DEF WriteEvent, ExtractRecord
  <2> QED BY <2>1, <2>2, <2>3 DEF MemoryTypeOK
<1>5. ASSUME eraser' \in [Eraser -> ErasureRow], UNCHANGED <<parties, future, written>>,
             \/ UNCHANGED <<records, events>>
             \/ /\ records' \in [Party -> SUBSET (1..written)]
                /\ events' \in [Party -> SUBSET (1..written)],
             forgotten' \subseteq Eraser
      PROVE  MemoryTypeOK'
  BY <1>1, <1>5 DEF MemoryTypeOK, ErasureRow
<1>6. ASSUME NEW e \in Eraser, NEW p \in Party, ForgetPartyMemory(e, p) PROVE MemoryTypeOK'
  <2> DEFINE state == [Asleep EXCEPT !.at = "records", !.todo = {p}, !.owed = Kept(p)]
  <2>1. state \in ErasureRow
    BY AsleepType, KeptAreItems DEF ErasureRow
  <2>2. /\ eraser' = Begins(e, state)
        /\ UNCHANGED <<parties, future, records, events, written, forgotten>>
    BY <1>6 DEF ForgetPartyMemory
  <2> HIDE DEF state
  <2> QED BY <1>5, <2>1, <2>2, BeginsTypes DEF MemoryTypeOK
<1>7. ASSUME NEW e \in Eraser, ListActors(e) PROVE MemoryTypeOK'
  <2> DEFINE state == [Asleep EXCEPT !.at = "parties", !.kind = "sweep",
                                     !.todo = {p \in Party : Kept(p) # {}}]
  <2>1. state \in ErasureRow
    BY AsleepType DEF ErasureRow
  <2>2. /\ eraser' = Begins(e, state)
        /\ UNCHANGED <<parties, future, records, events, written, forgotten>>
    BY <1>7 DEF ListActors
  <2> HIDE DEF state
  <2> QED BY <1>5, <2>1, <2>2, BeginsTypes DEF MemoryTypeOK
<1>8. ASSUME NEW e \in Eraser, Orphans(e) PROVE MemoryTypeOK'
  <2> DEFINE orphans == eraser[e].todo \ parties
             given == [Asleep EXCEPT !.at = "done"]
             taken == [eraser[e] EXCEPT !.at = "records", !.todo = orphans,
                                        !.owed = OwedBy(orphans)]
  <2>1. eraser' = [eraser EXCEPT ![e] = IF orphans = {} THEN given ELSE taken]
        /\ UNCHANGED <<parties, future, records, events, written, forgotten>>
    BY <1>1, <1>8 DEF Orphans
  <2>2. orphans \subseteq Party
    BY <1>1 DEF ErasureRow
  <2>3. OwedBy(orphans) \subseteq Item
    BY <2>2, KeptAreItems DEF OwedBy
  <2>4. given \in ErasureRow /\ taken \in ErasureRow
    BY <1>1, <2>2, <2>3, AsleepType DEF ErasureRow
  <2> HIDE DEF given, taken
  <2>5. eraser' \in [Eraser -> ErasureRow]
    BY <1>1, <2>1, <2>4
  <2> QED BY <1>5, <2>1, <2>5 DEF MemoryTypeOK
<1>9. ASSUME NEW e \in Eraser, ListRecords(e) \/ ListEvents(e) PROVE MemoryTypeOK'
  <2>1. Erasing(e) /\ UNCHANGED <<parties, future, records, events, written, forgotten>>
    BY <1>9 DEF ListRecords, ListEvents, Erasing
  <2>2. Target(e) \in Party
    BY <2>1, TargetFacts
  <2>3. eraser' \in [Eraser -> ErasureRow]
    BY <1>9, <2>2, ListPageTypes DEF ListRecords, ListEvents
  <2> QED BY <1>5, <2>1, <2>3 DEF MemoryTypeOK
<1>10. ASSUME NEW e \in Eraser, DeleteRecords(e) PROVE MemoryTypeOK'
  <2> DEFINE row == [eraser[e] EXCEPT !.listed = {}, !.at = "events"]
  <2>1. /\ eraser' = [eraser EXCEPT ![e] = row]
        /\ records' = [records EXCEPT ![Target(e)] = @ \ eraser[e].listed]
        /\ UNCHANGED <<parties, future, events, written, forgotten>>
    BY <1>1, <1>10 DEF DeleteRecords
  <2>2. row \in ErasureRow
    BY <1>1 DEF ErasureRow
  <2> HIDE DEF row
  <2>3. eraser' \in [Eraser -> ErasureRow]
    BY <1>1, <2>1, <2>2
  <2>4. /\ records' \in [Party -> SUBSET (1..written)]
        /\ events' \in [Party -> SUBSET (1..written)]
    BY <1>1, <2>1
  <2> QED BY <1>5, <2>1, <2>3, <2>4 DEF MemoryTypeOK
<1>11. ASSUME NEW e \in Eraser, NEW i \in Item, DeleteEvent(e, i) PROVE MemoryTypeOK'
  <2> DEFINE row == [eraser[e] EXCEPT !.listed = @ \ {i}]
  <2>1. /\ eraser' = [eraser EXCEPT ![e] = row]
        /\ events' = [events EXCEPT ![Target(e)] = @ \ {i}]
        /\ UNCHANGED <<parties, future, records, written, forgotten>>
    BY <1>1, <1>11 DEF DeleteEvent
  <2>2. row \in ErasureRow
    BY <1>1 DEF ErasureRow
  <2> HIDE DEF row
  <2>3. eraser' \in [Eraser -> ErasureRow]
    BY <1>1, <2>1, <2>2
  <2>4. /\ records' \in [Party -> SUBSET (1..written)]
        /\ events' \in [Party -> SUBSET (1..written)]
    BY <1>1, <2>1
  <2> QED BY <1>5, <2>1, <2>3, <2>4 DEF MemoryTypeOK
<1>12. ASSUME NEW e \in Eraser, FinishParty(e) PROVE MemoryTypeOK'
  <2> DEFINE left == eraser[e].todo \ {Target(e)}
             turned == [eraser[e] EXCEPT !.at = "records", !.todo = left]
             ended == [eraser[e] EXCEPT !.at = "done"]
  <2>1. /\ eraser' \in {[eraser EXCEPT ![e] = turned], [eraser EXCEPT ![e] = ended]}
        /\ forgotten' \subseteq forgotten \cup {e}
        /\ UNCHANGED <<parties, future, records, events, written>>
    BY <1>1, <1>12 DEF FinishParty
  <2>2. turned \in ErasureRow /\ ended \in ErasureRow
    BY <1>1 DEF ErasureRow
  <2> HIDE DEF turned, ended
  <2>3. eraser' \in [Eraser -> ErasureRow]
    BY <1>1, <2>1, <2>2
  <2> QED BY <1>5, <2>1, <2>3 DEF MemoryTypeOK
<1>13. ASSUME NEW e \in Eraser, ErasureFails(e) PROVE MemoryTypeOK'
  <2>1. [Asleep EXCEPT !.at = "done"] \in ErasureRow
    BY AsleepType DEF ErasureRow
  <2>2. eraser' \in [Eraser -> ErasureRow]
    BY <1>1, <1>13, <2>1 DEF ErasureFails
  <2> QED BY <1>5, <1>13, <2>2 DEF ErasureFails, MemoryTypeOK
<1> QED BY <1>2, <1>3, <1>4, <1>6, <1>7, <1>8, <1>9, <1>10, <1>11, <1>12, <1>13 DEF MemoryNext

-----------------------------------------------------------------------------
(***************************************************************************)
(* The release probes                                                      *)
(***************************************************************************)

AllGood == report.status = "passed"
AllKept == \A h \in Household : home[h] = "kept"
LastProbe == report.evidence + 1 = Len(PROBES[target])

\* A transaction that is open when the script has stopped waiting for it was cut off.
LooseBuilds ==
    \A h \in Household :
        /\ home[h] = "open" /\ built[h] # "waiting" => built[h] = "failed" /\ faulty
        /\ step \in {"probing", "cleanup", "removing", "ended"} =>
               /\ home[h] = "open" => built[h] # "waiting"
               /\ AllGood => built[h] = "made"

\* What holds on the way of a release that passes, step by step.
BeforeProbes ==
    /\ step = "health" => /\ AllGood /\ report.evidence = 0 /\ runs = NoRuns
                          /\ \A h \in Household : home[h] = "none" /\ built[h] = "waiting"
    /\ step = "setup" => /\ AllGood /\ report.evidence = 1 /\ runs = NoRuns
                         /\ \A h \in Household : built[h] = "made" => home[h] = "kept"

WhileProbing ==
    /\ step = "probing" => /\ AllGood /\ AllKept
                           /\ report.evidence + 1 \in 2..(Len(PROBES[target]) - 1)
    /\ step = "cleanup" /\ AllGood => AllKept /\ LastProbe /\ runs = NoRuns

WhileRemoving ==
    step = "removing" =>
        /\ \A h \in Household : home[h] = "kept" => h \in doomed \/ (faulty /\ built[h] = "failed")
        /\ AllGood => LastProbe /\ runs = NoRuns /\ sessions \subseteq doomed

AtTheEnd ==
    step = "ended" =>
        /\ (\E h \in Household : home[h] # "none") => faulty /\ ~AllGood
        /\ AllGood => /\ report.evidence = Len(PROBES[target])
                      /\ sessions = {} /\ runs = NoRuns

ProbeInv == /\ ProbeTypeOK /\ LooseBuilds /\ BeforeProbes /\ WhileProbing /\ WhileRemoving
            /\ AtTheEnd

LEMMA PlanFacts ==
    ASSUME NEW t \in DOMAIN PROBES
    PROVE  /\ Len(PROBES[t]) \in {6, 9}
           /\ \A i \in 1..Len(PROBES[t]) : PROBES[t][i] = "cleanup" <=> i = Len(PROBES[t])
<1>1. DOMAIN PROBES = {"local", "production"}
  BY DEF PROBES
<1>2. CASE t = "local"
  <2>1. PROBES[t] = <<"health", "host-capture", "guest-confirmation", "concurrent-conflict",
                      "interrupt-resume", "reconfirmation", "room-coordination",
                      "guest-isolation", "cleanup">>
    BY <1>2 DEF PROBES
  <2>2. Len(PROBES[t]) = 9
    BY <2>1
  <2>3. 1..9 = {1, 2, 3, 4, 5, 6, 7, 8, 9}
    OBVIOUS
  <2> QED BY <2>1, <2>2, <2>3
<1>3. CASE t = "production"
  <2>1. PROBES[t] = <<"health", "host-capture", "guest-confirmation", "concurrent-conflict",
                      "guest-isolation", "cleanup">>
    BY <1>3 DEF PROBES
  <2>2. Len(PROBES[t]) = 6
    BY <2>1
  <2>3. 1..6 = {1, 2, 3, 4, 5, 6}
    OBVIOUS
  <2> QED BY <2>1, <2>2, <2>3
<1> QED BY <1>1, <1>2, <1>3

\* A failure is reported, and the cleanup comes next.
LEMMA FailsKeeps ==
    ASSUME ProbeInv, Fails, step \in {"health", "setup", "probing"},
           step = "setup" => \A h \in Household : built[h] # "waiting",
           UNCHANGED <<target, home, built, round, runs, sessions, doomed, faulty>>
    PROVE  ProbeInv'
<1>1. /\ step' = "cleanup" /\ report'.status \in {"PAUSED", "BLOCKED"}
      /\ report' \in [status : {"passed", "PAUSED", "BLOCKED"}, evidence : 0..9]
  BY DEF Fails, ProbeInv, ProbeTypeOK
<1>2. ProbeTypeOK'
  BY <1>1 DEF ProbeInv, ProbeTypeOK
<1>3. \A h \in Household : home[h] = "open" => built[h] # "waiting"
  BY DEF ProbeInv, LooseBuilds, BeforeProbes
<1> QED BY <1>1, <1>2, <1>3 DEF ProbeInv, LooseBuilds, BeforeProbes, WhileProbing, WhileRemoving,
           AtTheEnd, AllGood

\* Runs are there while a probe is running, and after one that failed.
LEMMA RunsKeep ==
    ASSUME ProbeInv,
           PostRuns \/ \E s \in Slot : Enqueue(s) \/ StartRun(s) \/ SaveSession(s) \/ FinishRun(s)
    PROVE  ProbeInv'
<1>1. /\ UNCHANGED <<target, step, report, home, built, round, doomed, faulty>>
      /\ step = "probing" \/ runs # NoRuns
  BY DEF PostRuns, Enqueue, StartRun, SaveSession, FinishRun, NoRuns
<1>2. runs' \in [Slot -> {"none", "good", "bad", "gone"} \cup Executing]
  BY DEF ProbeInv, ProbeTypeOK, PostRuns, Enqueue, StartRun, SaveSession, FinishRun, Executing
<1>3. sessions' \subseteq Household
  BY DEF ProbeInv, ProbeTypeOK, PostRuns, Enqueue, StartRun, SaveSession, FinishRun, Its, HouseOf,
     Household
<1>4. ProbeTypeOK'
  BY <1>1, <1>2, <1>3 DEF ProbeInv, ProbeTypeOK
<1> QED BY <1>1, <1>4 DEF ProbeInv, LooseBuilds, BeforeProbes, WhileProbing, WhileRemoving,
           AtTheEnd, AllGood, AllKept, LastProbe

RemovalFacts(S) ==
    /\ home' \in [Household -> {"none", "open", "kept"}]
    /\ \A h \in Household : home'[h] = IF h \in S THEN "none" ELSE home[h]
    /\ sessions' = sessions \ S
    /\ runs' \in [Slot -> {"none", "good", "bad", "gone"} \cup Executing]
    /\ runs = NoRuns => runs' = NoRuns

LEMMA RemovedKeeps ==
    ASSUME ProbeInv, NEW S, Removed(S)
    PROVE  RemovalFacts(S)
BY DEF ProbeInv, ProbeTypeOK, Removed, RemovalFacts, NoRuns, Executing

LEMMA ProbeStep == ProbeInv /\ [ProbeNext]_probeVars => ProbeInv'
<1> SUFFICES ASSUME ProbeInv, [ProbeNext]_probeVars PROVE ProbeInv'
  OBVIOUS
<1> USE DEF AllGood, AllKept, LastProbe
<1>1. target \in DOMAIN PROBES /\ Len(PROBES[target]) \in {6, 9}
  BY PlanFacts DEF ProbeInv, ProbeTypeOK
<1>2. CASE UNCHANGED probeVars
  BY <1>2 DEF probeVars, ProbeInv, ProbeTypeOK, LooseBuilds, BeforeProbes, WhileProbing,
     WhileRemoving, AtTheEnd
<1>3. CASE ProbeHealth
  <2>1. CASE Fails /\ home' = home
    <3>1. /\ step = "health"
           /\ UNCHANGED <<target, home, built, round, runs, sessions, doomed, faulty>>
      BY <1>3, <2>1 DEF ProbeHealth
    <3> QED BY <2>1, <3>1, FailsKeeps
  <2>2. CASE step' = "setup" /\ report' = [report EXCEPT !.evidence = 1]
             /\ home' = [h \in Household |-> "open"]
    <3>1. /\ step = "health" /\ UNCHANGED <<target, built, round, runs, sessions, doomed, faulty>>
          /\ AllGood /\ runs = NoRuns /\ \A h \in Household : built[h] = "waiting"
      BY <1>3 DEF ProbeHealth, ProbeInv, BeforeProbes
    <3>2. /\ report' \in [status : {"passed", "PAUSED", "BLOCKED"}, evidence : 0..9]
          /\ report'.status = "passed" /\ report'.evidence = 1
      BY <2>2, <3>1 DEF ProbeInv, ProbeTypeOK
    <3>3. ProbeTypeOK'
      BY <2>2, <3>1, <3>2 DEF ProbeInv, ProbeTypeOK
    <3> QED
      BY <2>2, <3>1, <3>2, <3>3 DEF ProbeInv, LooseBuilds, BeforeProbes, WhileProbing,
         WhileRemoving, AtTheEnd
  <2> QED BY <1>3, <2>1, <2>2 DEF ProbeHealth

<1>4. ASSUME NEW h \in Household, BuildCommits(h) \/ BuildRollsBack(h) \/ BuildIsCutOff(h)
      PROVE  ProbeInv'
  <2>1. ProbeTypeOK'
    BY <1>4 DEF ProbeInv, ProbeTypeOK, BuildCommits, BuildRollsBack, BuildIsCutOff, Executing
  <2>2. LooseBuilds'
    BY <1>4 DEF ProbeInv, ProbeTypeOK, LooseBuilds, BuildCommits, BuildRollsBack, BuildIsCutOff
  <2>3. BeforeProbes' /\ WhileProbing'
    BY <1>4 DEF ProbeInv, ProbeTypeOK, LooseBuilds, BeforeProbes, WhileProbing, BuildCommits,
       BuildRollsBack, BuildIsCutOff
  <2>4. WhileRemoving'
    BY <1>4 DEF ProbeInv, ProbeTypeOK, LooseBuilds, WhileRemoving, BuildCommits,
       BuildRollsBack, BuildIsCutOff
  <2>5. AtTheEnd'
    BY <1>4 DEF ProbeInv, ProbeTypeOK, LooseBuilds, AtTheEnd, BuildCommits,
       BuildRollsBack, BuildIsCutOff
  <2> QED BY <2>1, <2>2, <2>3, <2>4, <2>5 DEF ProbeInv
<1>5. CASE SetupSettles
  <2>1. CASE /\ SetupSucceeds
             /\ UNCHANGED <<target, home, built, round, runs, sessions, doomed, faulty>>
    <3>1. step = "setup" /\ step' = "probing" /\ UNCHANGED report
      BY <1>5, <2>1 DEF SetupSettles, SetupSucceeds
    <3>2. /\ AllGood /\ report.evidence = 1 /\ runs = NoRuns
          /\ \A h \in Household : built[h] = "made" /\ home[h] = "kept"
      BY <2>1, <3>1 DEF SetupSucceeds, ProbeInv, BeforeProbes
    <3>3. ProbeTypeOK'
      BY <2>1, <3>1 DEF ProbeInv, ProbeTypeOK
    <3>4. report.evidence + 1 \in 2..(Len(PROBES[target]) - 1)
      <4> DEFINE n == Len(PROBES[target])
      <4>1. n \in {6, 9}
        BY <1>1
      <4>2. report.evidence + 1 = 2
        BY <3>2
      <4> HIDE DEF n
      <4>3. 2 \in 2..(n - 1)
        BY <4>1
      <4> QED BY <4>2, <4>3 DEF n
    <3> QED BY <2>1, <3>1, <3>2, <3>3, <3>4 DEF ProbeInv, LooseBuilds, BeforeProbes, WhileProbing,
               WhileRemoving, AtTheEnd
  <2>2. CASE Fails /\ UNCHANGED <<target, home, built, round, runs, sessions, doomed, faulty>>
    <3>1. step = "setup" /\ \A h \in Household : built[h] # "waiting"
      BY <1>5 DEF SetupSettles
    <3> QED BY <2>2, <3>1, FailsKeeps
  <2> QED BY <1>5, <2>1, <2>2 DEF SetupSettles
<1>6. CASE PostRuns \/ \E s \in Slot : Enqueue(s) \/ StartRun(s) \/ SaveSession(s) \/ FinishRun(s)
  BY <1>6, RunsKeep
<1>7. CASE CollectResults
  <2>1. /\ step = "probing" /\ UNCHANGED <<target, home, built, sessions, doomed, faulty>>
    BY <1>7 DEF CollectResults
  <2>2. CASE Passes
    <3> DEFINE n == report.evidence
    <3>1. /\ runs' = NoRuns
          /\ \/ round' = round + 1 /\ round < RoundsOf(CurrentProbe) /\ UNCHANGED <<step, report>>
             \/ /\ round' = 1 /\ report' = [report EXCEPT !.evidence = n + 1]
                /\ step' = IF PROBES[target][n + 2] = "cleanup" THEN "cleanup" ELSE step
      BY <2>2 DEF Passes
    <3>2. AllGood /\ AllKept /\ n + 1 \in 2..(Len(PROBES[target]) - 1) /\ n \in 0..9
      BY <2>1 DEF ProbeInv, WhileProbing, ProbeTypeOK
    <3>3. round' \in {1, 2}
      BY <3>1 DEF ProbeInv, ProbeTypeOK, RoundsOf
    <3>4. report' = report \/ (report'.status = report.status /\ report'.evidence = n + 1)
      BY <3>1 DEF ProbeInv, ProbeTypeOK
    <3>5. ProbeTypeOK'
      <4>1. report' \in [status : {"passed", "PAUSED", "BLOCKED"}, evidence : 0..9]
        <5>1. n + 1 \in 0..9
          <6> DEFINE k == Len(PROBES[target])
          <6>1. k \in {6, 9} /\ n + 1 \in 2..(k - 1) /\ n \in 0..9
            BY <1>1, <3>2
          <6> HIDE DEF k, n
          <6> QED BY <6>1
        <5>2. report' = report \/ report' = [report EXCEPT !.evidence = n + 1]
          BY <3>1
        <5>3. report \in [status : {"passed", "PAUSED", "BLOCKED"}, evidence : 0..9]
          BY DEF ProbeInv, ProbeTypeOK
        <5> HIDE DEF n
        <5> QED BY <5>1, <5>2, <5>3
      <4>2. step' \in {"probing", "cleanup"}
        BY <2>1, <3>1
      <4>3. runs' \in [Slot -> {"none", "good", "bad", "gone"} \cup Executing]
        BY <3>1 DEF NoRuns
      <4> QED BY <2>1, <3>3, <4>1, <4>2, <4>3 DEF ProbeInv, ProbeTypeOK
    <3>6. LooseBuilds' /\ BeforeProbes' /\ WhileRemoving' /\ AtTheEnd'
      BY <2>1, <3>1, <3>2, <3>4 DEF ProbeInv, LooseBuilds, BeforeProbes, WhileRemoving, AtTheEnd
    <3>7. WhileProbing'
      <4>1. CASE UNCHANGED <<step, report>>
        BY <2>1, <3>2, <4>1 DEF WhileProbing
      <4>2. CASE /\ report' = [report EXCEPT !.evidence = n + 1]
                 /\ step' = IF PROBES[target][n + 2] = "cleanup" THEN "cleanup" ELSE step
        <5>1. report'.status = report.status /\ report'.evidence = n + 1
          BY <4>2 DEF ProbeInv, ProbeTypeOK
        <5>2. n + 2 \in 1..Len(PROBES[target])
          BY <1>1, <3>2
        <5>3. PROBES[target][n + 2] = "cleanup" <=> n + 2 = Len(PROBES[target])
          BY <1>1, <5>2, PlanFacts
        <5> QED BY <1>1, <2>1, <3>1, <3>2, <4>2, <5>1, <5>2, <5>3, SMTT(30) DEF WhileProbing
      <4> QED BY <3>1, <4>1, <4>2
    <3> QED BY <3>5, <3>6, <3>7 DEF ProbeInv
  <2>3. CASE /\ step' = "cleanup" /\ report' = [report EXCEPT !.status = "BLOCKED"]
             /\ UNCHANGED <<round, runs>>
    <3>1. Fails
      BY <2>3 DEF Fails
    <3> QED BY <2>1, <2>3, <3>1, FailsKeeps
  <2> QED BY <1>7, <2>2, <2>3 DEF CollectResults
<1>8. CASE ProbeErrs
  BY <1>8, FailsKeeps DEF ProbeErrs
<1>9. CASE SelectHomes
  <2>1. ProbeTypeOK'
    BY <1>9 DEF SelectHomes, ProbeInv, ProbeTypeOK
  <2> QED BY <1>9, <2>1 DEF SelectHomes, ProbeInv, ProbeTypeOK, LooseBuilds, BeforeProbes,
             WhileProbing, WhileRemoving, AtTheEnd
<1>10. ASSUME NEW h \in Household, RemoveFixtureHousehold(h) PROVE ProbeInv'
  <2>1. /\ step = "removing" /\ h \in doomed /\ Removed({h}) /\ doomed' = doomed \ {h}
        /\ UNCHANGED <<target, step, report, built, round, faulty>>
    BY <1>10 DEF RemoveFixtureHousehold
  <2>2. RemovalFacts({h})
    BY <2>1, RemovedKeeps
  <2>3. ProbeTypeOK'
    BY <2>1, <2>2 DEF RemovalFacts, ProbeInv, ProbeTypeOK
  <2> QED BY <2>1, <2>2, <2>3 DEF RemovalFacts, ProbeInv, LooseBuilds, BeforeProbes, WhileProbing,
             WhileRemoving, AtTheEnd
<1>11. CASE CleanupFails
  <2>1. PICK S \in SUBSET doomed : Removed(S)
    BY <1>11 DEF CleanupFails
  <2>2. /\ step' = "ended" /\ faulty' = TRUE /\ doomed' = {}
        /\ report' \in [status : {"PAUSED", "BLOCKED"}, evidence : 0..9]
        /\ UNCHANGED <<target, built, round>> /\ step = "removing"
    BY <1>11 DEF CleanupFails, ProbeInv, ProbeTypeOK
  <2>3. RemovalFacts(S)
    BY <2>1, RemovedKeeps
  <2>4. ProbeTypeOK'
    BY <2>2, <2>3 DEF RemovalFacts, ProbeInv, ProbeTypeOK
  <2> QED BY <2>2, <2>3, <2>4 DEF RemovalFacts, ProbeInv, LooseBuilds, BeforeProbes, WhileProbing,
             WhileRemoving, AtTheEnd
<1>12. CASE CleanupSucceeds
  <2>1. /\ step = "removing" /\ doomed = {} /\ step' = "ended"
        /\ UNCHANGED <<target, home, built, round, runs, sessions, doomed, faulty>>
    BY <1>12 DEF CleanupSucceeds
  <2>2. /\ report' \in [status : {"passed", "PAUSED", "BLOCKED"}, evidence : 0..9]
        /\ report'.status = report.status
        /\ AllGood => report'.evidence = Len(PROBES[target])
    <3>1. AllGood => report.evidence + 1 = Len(PROBES[target])
      BY <2>1 DEF ProbeInv, WhileRemoving
    <3> DEFINE n == IF AllGood THEN report.evidence + 1 ELSE report.evidence
    <3>2. report' = [report EXCEPT !.evidence = n]
      BY <1>12 DEF CleanupSucceeds
    <3>3. report \in [status : {"passed", "PAUSED", "BLOCKED"}, evidence : 0..9]
      BY DEF ProbeInv, ProbeTypeOK
    <3>4. n \in 0..9 /\ (AllGood => n = Len(PROBES[target]))
      <4>1. CASE AllGood
        <5>1. n = Len(PROBES[target])
          BY <3>1, <4>1
        <5> HIDE DEF n
        <5> QED BY <1>1, <5>1, SMTT(30)
      <4>2. CASE ~AllGood
        BY <3>3, <4>2
      <4> QED BY <4>1, <4>2
    <3> HIDE DEF n
    <3> QED BY <3>2, <3>3, <3>4
  <2>3. ProbeTypeOK'
    BY <2>1, <2>2 DEF ProbeInv, ProbeTypeOK
  <2>4. \A h \in Household : home[h] # "none" => faulty /\ ~AllGood
    BY <2>1 DEF ProbeInv, ProbeTypeOK, LooseBuilds, WhileRemoving
  <2> QED BY <2>1, <2>2, <2>3, <2>4 DEF ProbeInv, LooseBuilds, BeforeProbes, WhileProbing,
             WhileRemoving, AtTheEnd
<1>13. CASE ProbesAreKilled
  <2>1. ProbeTypeOK'
    BY <1>13 DEF ProbesAreKilled, ProbeInv, ProbeTypeOK
  <2> QED BY <1>13, <2>1 DEF ProbesAreKilled, ProbeInv, LooseBuilds, BeforeProbes, WhileProbing,
             WhileRemoving, AtTheEnd
<1>14. CASE CleanupOnly
  <2>1. PICK S \in SUBSET Household : Removed(S)
    BY <1>14 DEF CleanupOnly
  <2>2. /\ step \in {"ended", "killed"}
        /\ step = "ended" => ~AllGood
        /\ UNCHANGED <<target, step, report, built, round, doomed, faulty>>
    BY <1>14 DEF CleanupOnly
  <2>3. RemovalFacts(S)
    BY <2>1, RemovedKeeps
  <2>4. ProbeTypeOK'
    BY <2>2, <2>3 DEF RemovalFacts, ProbeInv, ProbeTypeOK
  <2> QED BY <2>2, <2>3, <2>4 DEF RemovalFacts, ProbeInv, LooseBuilds, BeforeProbes, WhileProbing,
             WhileRemoving, AtTheEnd
<1> QED BY <1>2, <1>3, <1>4, <1>5, <1>6, <1>7, <1>8, <1>9, <1>10, <1>11, <1>12, <1>13, <1>14
        DEF ProbeNext

LEMMA ProbeStart == ProbeInit => ProbeInv
<1> SUFFICES ASSUME ProbeInit PROVE ProbeInv
  OBVIOUS
<1>1. ProbeTypeOK
  <2>1. report \in [status : {"passed", "PAUSED", "BLOCKED"}, evidence : 0..9]
    BY DEF ProbeInit
  <2>2. runs \in [Slot -> {"none", "good", "bad", "gone"} \cup Executing]
    BY DEF ProbeInit, NoRuns
  <2>3. faulty \in BOOLEAN /\ sessions = {} /\ doomed = {}
    BY DEF ProbeInit
  <2> QED BY <2>1, <2>2, <2>3 DEF ProbeInit, ProbeTypeOK
<1> QED BY <1>1 DEF ProbeInit, ProbeInv, LooseBuilds, BeforeProbes, WhileProbing, WhileRemoving,
           AtTheEnd, AllGood

\* A release that passed has run every probe and removed both households with what the
\* agent kept about them; one that did not says so when it may have left any
\* (release-probes.ts).
THEOREM ReleasesLeaveNothing == ProbeSpec => []ProbesLeaveNothing
<1>1. ProbeInit => ProbeInv
  BY ProbeStart
<1>2. ProbeInv => ProbesLeaveNothing
  BY DEF ProbeInv, AtTheEnd, ProbesLeaveNothing, AllGood, NoRuns, Executing
<1> QED BY <1>1, <1>2, ProbeStep, PTL DEF ProbeSpec

-----------------------------------------------------------------------------
(***************************************************************************)
(* Captures.  A mint is paid for in advance: by the claim under which the  *)
(* call looked for an earlier capture, which is spent once it is audited,  *)
(* or by a loose call.                                                     *)
(***************************************************************************)

Checked(w) == {n \in Claim(w) : execution[w][n].at = "checked"}

Calling(w) ==
    \E n \in Claim(w) : HasClaim(w, n) /\ execution[w][n].at \in {"checked", "minted"}

Paid(w) == loose[w] + (IF audited[w] # 0 \/ Calling(w) THEN 1 ELSE 0)

MintsArePaid(w) ==
    loose[w] = MaxCaptured \/ minted[w] + Cardinality(Checked(w)) <= Paid(w)

\* Executions are numbered by the claims they were started with.
ClaimsAreCounted(w) ==
    /\ capture[w].claims <= MaxClaims[w]
    /\ capture[w].status = "running" => capture[w].claims # 0
    /\ \A n \in Claim(w) : n > capture[w].claims => execution[w][n].at = "none"

MintsAreNamed(w) ==
    \A n \in Claim(w) : execution[w][n].at = "minted" => execution[w][n].invitation # 0

CaptureInv ==
    /\ CaptureTypeOK
    /\ DOMAIN execution = Window
    /\ \A w \in Window : MintsArePaid(w) /\ ClaimsAreCounted(w) /\ MintsAreNamed(w)

CallType == [at : {"none", "thinking", "checked", "minted", "ended"}, invitation : 0..MaxCaptured]

LEMMA CheckedAreFinite ==
    ASSUME NEW w \in Window, NEW S \in SUBSET Claim(w)
    PROVE  IsFiniteSet(S) /\ Cardinality(S) \in Nat
<1>1. MaxClaims[w] \in Nat
  BY CaptureAssumption
<1>2. IsFiniteSet(Claim(w))
  BY <1>1, FS_Interval DEF Claim
<1>3. IsFiniteSet(S)
  BY <1>2, FS_Subset
<1> QED BY <1>3, FS_CardinalityType

\* Nothing is said of a window that depends on another.
LEMMA OtherWindows ==
    ASSUME CaptureInv, NEW v \in Window, execution'[v] = execution[v], capture'[v] = capture[v],
           minted'[v] = minted[v], audited'[v] = audited[v], loose'[v] = loose[v]
    PROVE  (MintsArePaid(v) /\ ClaimsAreCounted(v) /\ MintsAreNamed(v))'
<1>1. Checked(v)' = Checked(v)
  BY DEF Checked
<1>2. Calling(v)' <=> Calling(v)
  BY DEF Calling, HasClaim
<1> QED BY <1>1, <1>2 DEF CaptureInv, MintsArePaid, Paid, ClaimsAreCounted, MintsAreNamed

\* A claim is of one execution.
LEMMA CallingFacts ==
    ASSUME CaptureInv, NEW w \in Window, NEW n \in Claim(w)
    PROVE  HasClaim(w, n) => (Calling(w) <=> execution[w][n].at \in {"checked", "minted"})
BY DEF Calling, HasClaim

\* One execution makes a step.
CallMoves(w, n, e) == execution' = [execution EXCEPT ![w][n] = e]

LEMMA CallChanges ==
    ASSUME CaptureInv, NEW w \in Window, NEW n \in Claim(w), NEW e \in CallType,
           CallMoves(w, n, e)
    PROVE  /\ DOMAIN execution' = Window
           /\ \A v \in Window : execution'[v] \in [Claim(v) -> CallType]
           /\ \A v \in Window \ {w} : execution'[v] = execution[v]
           /\ \A m \in Claim(w) \ {n} : execution'[w][m] = execution[w][m]
           /\ execution'[w][n] = e
           /\ Cardinality(Checked(w)) \in Nat /\ Cardinality(Checked(w)') \in Nat
           /\ Cardinality(Checked(w)') + (IF execution[w][n].at = "checked" THEN 1 ELSE 0)
              = Cardinality(Checked(w)) + (IF e.at = "checked" THEN 1 ELSE 0)
<1>1. \A v \in Window : execution[v] \in [Claim(v) -> CallType]
  BY DEF CaptureInv, CaptureTypeOK, CallType
<1>2. execution' = [execution EXCEPT ![w] = [execution[w] EXCEPT ![n] = e]]
  BY DEF CallMoves
<1>3. /\ DOMAIN execution' = Window /\ execution'[w] = [execution[w] EXCEPT ![n] = e]
      /\ \A v \in Window \ {w} : execution'[v] = execution[v]
  BY <1>2 DEF CaptureInv
<1>4. [execution[w] EXCEPT ![n] = e] \in [Claim(w) -> CallType]
  BY <1>1
<1>5. \A m \in Claim(w) \ {n} : execution'[w][m] = execution[w][m]
  BY <1>1, <1>3
<1>6. execution'[w][n] = e
  BY <1>1, <1>3
<1>7. \A v \in Window : execution'[v] \in [Claim(v) -> CallType]
  BY <1>1, <1>3, <1>4
<1> DEFINE S == Checked(w)
<1> DEFINE T == Checked(w)'
<1>8. S \subseteq Claim(w) /\ T \subseteq Claim(w)
  BY DEF Checked
<1>9. /\ IsFiniteSet(S) /\ Cardinality(S) \in Nat /\ IsFiniteSet(T) /\ Cardinality(T) \in Nat
      /\ n \in S => Cardinality(S) # 0
  <2>1. IsFiniteSet(S) /\ Cardinality(S) \in Nat /\ IsFiniteSet(T) /\ Cardinality(T) \in Nat
    BY <1>8, CheckedAreFinite
  <2> HIDE DEF S
  <2>2. n \in S => Cardinality(S) # 0
    BY <2>1, FS_EmptySet
  <2> QED BY <2>1, <2>2
<1>10. T = IF e.at = "checked" THEN S \cup {n} ELSE S \ {n}
  BY <1>5, <1>6 DEF Checked
<1>11. n \in S <=> execution[w][n].at = "checked"
  BY DEF Checked
<1> HIDE DEF S, T
<1>12. Cardinality(T) + (IF n \in S THEN 1 ELSE 0)
       = Cardinality(S) + (IF e.at = "checked" THEN 1 ELSE 0)
  <2>1. CASE e.at = "checked"
    BY <1>9, <1>10, <2>1, FS_AddElement
  <2>2. CASE e.at # "checked"
    BY <1>9, <1>10, <2>2, FS_RemoveElement
  <2> QED BY <2>1, <2>2
<1> QED BY <1>3, <1>5, <1>6, <1>7, <1>9, <1>11, <1>12 DEF S, T

LEMMA OneMoreFacts ==
    ASSUME CaptureInv, NEW w \in Window, OneMore(w)
    PROVE  /\ loose' \in [Window -> 0..MaxCaptured]
           /\ loose'[w] = MaxCaptured \/ loose'[w] = loose[w] + 1
           /\ \A v \in Window \ {w} : loose'[v] = loose[v]
<1>1. loose \in [Window -> 0..MaxCaptured] /\ MaxCaptured \in Nat
  BY CaptureAssumption DEF CaptureInv, CaptureTypeOK
<1> DEFINE more == IF loose[w] < MaxCaptured THEN loose[w] + 1 ELSE loose[w]
<1>2. loose' = [loose EXCEPT ![w] = more]
  BY DEF OneMore
<1>3. loose[w] \in 0..MaxCaptured
  BY <1>1
<1>4. more \in 0..MaxCaptured /\ (more = MaxCaptured \/ more = loose[w] + 1)
  BY <1>1, <1>3
<1> HIDE DEF more
<1> QED BY <1>1, <1>2, <1>4

\* What a step of an execution must show.
LEMMA CallKeeps ==
    ASSUME CaptureInv, NEW w \in Window, NEW n \in Claim(w), NEW e \in CallType,
           CallMoves(w, n, e), execution[w][n].at # "none",
           e.at = "minted" => e.invitation # 0,
           UNCHANGED <<window, form>>,
           capture' \in [Window -> [status : {"absent", "queued", "running", "completed",
                                              "failed"}, claims : Nat]],
           capture'[w].claims = capture[w].claims,
           capture'[w].status = "running" => capture[w].status = "running",
           minted' \in [Window -> 0..MaxCaptured], audited' \in [Window -> 0..MaxCaptured],
           loose' \in [Window -> 0..MaxCaptured],
           \A v \in Window \ {w} : /\ capture'[v] = capture[v] /\ minted'[v] = minted[v]
                                   /\ audited'[v] = audited[v] /\ loose'[v] = loose[v],
           MintsArePaid(w)'
    PROVE  CaptureInv'
<1>1. /\ DOMAIN execution' = Window
      /\ \A v \in Window : execution'[v] \in [Claim(v) -> CallType]
      /\ \A v \in Window \ {w} : execution'[v] = execution[v]
      /\ \A m \in Claim(w) \ {n} : execution'[w][m] = execution[w][m]
      /\ execution'[w][n] = e
  BY CallChanges
<1>2. CaptureTypeOK'
  BY <1>1 DEF CaptureInv, CaptureTypeOK, CallType
<1>3. ClaimsAreCounted(w)' /\ MintsAreNamed(w)'
  <2>1. ClaimsAreCounted(w) /\ MintsAreNamed(w)
    BY DEF CaptureInv
  <2>2. \A m \in Claim(w) : execution'[w][m].at = execution[w][m].at \/ m = n
    BY <1>1
  <2>3. ClaimsAreCounted(w)'
    BY <2>1, <2>2 DEF ClaimsAreCounted
  <2>4. MintsAreNamed(w)'
    BY <1>1, <2>1 DEF MintsAreNamed
  <2> QED BY <2>3, <2>4
<1>4. \A v \in Window \ {w} : (MintsArePaid(v) /\ ClaimsAreCounted(v) /\ MintsAreNamed(v))'
  BY <1>1, OtherWindows
<1> QED BY <1>1, <1>2, <1>3, <1>4 DEF CaptureInv

\* What a step of an execution may assume.
LEMMA CaptureFacts ==
    ASSUME CaptureInv, NEW w \in Window
    PROVE  /\ minted[w] \in 0..MaxCaptured /\ audited[w] \in 0..MaxCaptured
           /\ loose[w] \in 0..MaxCaptured /\ MaxCaptured \in Nat
           /\ Cardinality(Checked(w)) \in Nat /\ capture[w].claims \in Nat
           /\ MintsArePaid(w) /\ ClaimsAreCounted(w) /\ MintsAreNamed(w)
           /\ \A n \in Claim(w) : execution[w][n] \in CallType
<1>1. Checked(w) \subseteq Claim(w)
  BY DEF Checked
<1>2. capture[w].claims \in Nat
  BY DEF CaptureInv, CaptureTypeOK
<1> QED BY <1>1, <1>2, CheckedAreFinite, CaptureAssumption
        DEF CaptureInv, CaptureTypeOK, CallType

\* A call that stops halfway, for whatever reason, leaves its mint paid for.
LEMMA CallStops ==
    ASSUME CaptureInv, NEW w \in Window, NEW n \in Claim(w), NEW at \in {"thinking", "ended"},
           execution[w][n].at \in {"thinking", "checked", "minted"},
           CallMoves(w, n, Is(at)),
           IF HasClaim(w, n) /\ execution[w][n].at = "minted" THEN OneMore(w) ELSE loose' = loose,
           UNCHANGED <<window, form, capture, minted, audited>>
    PROVE  CaptureInv'
<1>1. Is(at) \in CallType /\ Is(at).at = at
  BY CaptureAssumption DEF CallType, Is
<1>2. /\ execution'[w][n] = Is(at)
      /\ \A m \in Claim(w) \ {n} : execution'[w][m] = execution[w][m]
      /\ Cardinality(Checked(w)') \in Nat
      /\ Cardinality(Checked(w)') + (IF execution[w][n].at = "checked" THEN 1 ELSE 0)
         = Cardinality(Checked(w))
  <2>1. /\ execution'[w][n] = Is(at)
        /\ \A m \in Claim(w) \ {n} : execution'[w][m] = execution[w][m]
        /\ Cardinality(Checked(w)) \in Nat /\ Cardinality(Checked(w)') \in Nat
        /\ Cardinality(Checked(w)') + (IF execution[w][n].at = "checked" THEN 1 ELSE 0)
           = Cardinality(Checked(w)) + (IF Is(at).at = "checked" THEN 1 ELSE 0)
    BY <1>1, CallChanges
  <2> QED BY <1>1, <2>1
<1>3. /\ loose' \in [Window -> 0..MaxCaptured] /\ \A v \in Window \ {w} : loose'[v] = loose[v]
      /\ IF HasClaim(w, n) /\ execution[w][n].at = "minted"
         THEN loose'[w] = MaxCaptured \/ loose'[w] = loose[w] + 1 ELSE loose'[w] = loose[w]
  BY OneMoreFacts DEF CaptureInv, CaptureTypeOK
<1>4. ~HasClaim(w, n) => (Calling(w)' <=> Calling(w))
  BY <1>2 DEF Calling, HasClaim
<1>5. MintsArePaid(w)'
  <2>1. loose[w] \in Nat /\ minted[w] \in Nat /\ MaxCaptured \in Nat /\ loose[w] <= MaxCaptured
        /\ loose'[w] \in Nat /\ loose'[w] <= MaxCaptured /\ Cardinality(Checked(w)) \in Nat
    BY <1>3, CaptureFacts
  <2>2. MintsArePaid(w) /\ minted'[w] = minted[w] /\ audited'[w] = audited[w]
    BY CaptureFacts
  <2>3. CASE ~HasClaim(w, n)
    BY <1>2, <1>3, <1>4, <2>1, <2>2, <2>3 DEF MintsArePaid, Paid
  <2>4. CASE HasClaim(w, n) /\ execution[w][n].at = "thinking"
    <3>1. ~Calling(w)
      BY <2>4, CallingFacts
    <3> QED BY <1>2, <1>3, <2>1, <2>2, <2>4, <3>1 DEF MintsArePaid, Paid
  <2>5. CASE HasClaim(w, n) /\ execution[w][n].at = "checked"
    BY <1>2, <1>3, <2>1, <2>2, <2>5 DEF MintsArePaid, Paid
  <2>6. CASE HasClaim(w, n) /\ execution[w][n].at = "minted"
    BY <1>2, <1>3, <2>1, <2>2, <2>6 DEF MintsArePaid, Paid
  <2> QED BY <2>3, <2>4, <2>5, <2>6
<1>6. UNCHANGED <<window, form, capture, minted, audited>>
  OBVIOUS
<1> QED BY <1>1, <1>3, <1>5, <1>6, CallKeeps DEF CaptureInv, CaptureTypeOK

\* The conclusion ends the execution, and the claim with it.
LEMMA ConcludeKeeps ==
    ASSUME CaptureInv, NEW w \in Window, NEW n \in Claim(w), ConcludeCapture(w, n)
    PROVE  CaptureInv'
<1>1. Is("ended") \in CallType /\ Is("ended").at = "ended"
  BY CaptureAssumption DEF CallType, Is
<1>2. /\ execution[w][n].at = "thinking" /\ CallMoves(w, n, Is("ended"))
      /\ UNCHANGED <<window, form, minted, audited, loose>>
  BY DEF ConcludeCapture, CallMoves
<1>3. PICK status \in {"completed", "failed"} :
          capture' = [capture EXCEPT ![w].status = IF HasClaim(w, n) THEN status
                                                   ELSE capture[w].status]
  BY DEF ConcludeCapture
<1>4. /\ capture' \in [Window -> [status : {"absent", "queued", "running", "completed", "failed"},
                                  claims : Nat]]
      /\ capture'[w].claims = capture[w].claims
      /\ capture'[w].status = "running" => capture[w].status = "running"
      /\ \A v \in Window \ {w} : capture'[v] = capture[v]
      /\ ~HasClaim(w, n) => capture'[w].status = capture[w].status
  BY <1>3, SMTT(30) DEF CaptureInv, CaptureTypeOK
<1>5. /\ execution'[w][n] = Is("ended")
      /\ \A m \in Claim(w) \ {n} : execution'[w][m] = execution[w][m]
      /\ Cardinality(Checked(w)') = Cardinality(Checked(w))
  <2>1. /\ execution'[w][n] = Is("ended")
        /\ \A m \in Claim(w) \ {n} : execution'[w][m] = execution[w][m]
        /\ Cardinality(Checked(w)) \in Nat /\ Cardinality(Checked(w)') \in Nat
        /\ Cardinality(Checked(w)') + (IF execution[w][n].at = "checked" THEN 1 ELSE 0)
           = Cardinality(Checked(w)) + (IF Is("ended").at = "checked" THEN 1 ELSE 0)
    BY <1>1, <1>2, CallChanges
  <2> QED BY <1>1, <1>2, <2>1
<1>6. Calling(w) => Calling(w)'
  <2>1. CASE HasClaim(w, n)
    BY <1>2, <2>1, CallingFacts
  <2>2. CASE ~HasClaim(w, n)
    BY <1>4, <1>5, <2>2 DEF Calling, HasClaim
  <2> QED BY <2>1, <2>2
<1>7. MintsArePaid(w)'
  BY <1>2, <1>5, <1>6, CaptureFacts DEF MintsArePaid, Paid
<1> QED BY <1>1, <1>2, <1>4, <1>7, CallKeeps DEF CaptureInv, CaptureTypeOK

LEMMA CheckKeeps ==
    ASSUME CaptureInv, NEW w \in Window, NEW n \in Claim(w), CheckCaptured(w, n)
    PROVE  CaptureInv'
<1> DEFINE e == [execution[w][n] EXCEPT !.at = "checked"]
<1>1. /\ execution[w][n].at = "thinking" /\ audited[w] = 0
      /\ CallMoves(w, n, e)
      /\ UNCHANGED <<window, form, capture, minted, audited>>
      /\ IF HasClaim(w, n) THEN loose' = loose ELSE OneMore(w)
  BY DEF CheckCaptured, CallMoves
<1>2. e \in CallType /\ e.at = "checked"
  BY CaptureFacts DEF CallType
<1> HIDE DEF e
<1>3. /\ execution'[w][n] = e
      /\ \A m \in Claim(w) \ {n} : execution'[w][m] = execution[w][m]
      /\ Cardinality(Checked(w)') \in Nat
      /\ Cardinality(Checked(w)') = Cardinality(Checked(w)) + 1
  <2>1. /\ execution'[w][n] = e
        /\ \A m \in Claim(w) \ {n} : execution'[w][m] = execution[w][m]
        /\ Cardinality(Checked(w)) \in Nat /\ Cardinality(Checked(w)') \in Nat
        /\ Cardinality(Checked(w)') + (IF execution[w][n].at = "checked" THEN 1 ELSE 0)
           = Cardinality(Checked(w)) + (IF e.at = "checked" THEN 1 ELSE 0)
    BY <1>1, <1>2, CallChanges
  <2> QED BY <1>1, <1>2, <2>1
<1>4. /\ loose' \in [Window -> 0..MaxCaptured] /\ \A v \in Window \ {w} : loose'[v] = loose[v]
      /\ IF HasClaim(w, n) THEN loose'[w] = loose[w]
         ELSE loose'[w] = MaxCaptured \/ loose'[w] = loose[w] + 1
  BY <1>1, OneMoreFacts DEF CaptureInv, CaptureTypeOK
<1>5. MintsArePaid(w)'
  <2>1. loose[w] \in Nat /\ minted[w] \in Nat /\ MaxCaptured \in Nat /\ loose[w] <= MaxCaptured
        /\ loose'[w] \in Nat /\ loose'[w] <= MaxCaptured /\ Cardinality(Checked(w)) \in Nat
    BY <1>4, CaptureFacts
  <2>2. MintsArePaid(w) /\ minted'[w] = minted[w] /\ audited'[w] = audited[w]
    BY <1>1, CaptureFacts
  <2>3. CASE HasClaim(w, n)
    <3>1. ~Calling(w)
      BY <1>1, <2>3, CallingFacts
    <3>2. Calling(w)'
      BY <1>1, <1>2, <1>3, <2>3 DEF Calling, HasClaim
    <3> QED BY <1>1, <1>3, <1>4, <2>1, <2>2, <2>3, <3>1, <3>2 DEF MintsArePaid, Paid
  <2>4. CASE ~HasClaim(w, n)
    <3>1. Calling(w)' <=> Calling(w)
      BY <1>1, <1>3, <2>4 DEF Calling, HasClaim
    <3> QED BY <1>1, <1>3, <1>4, <2>1, <2>2, <2>4, <3>1 DEF MintsArePaid, Paid
  <2> QED BY <2>3, <2>4
<1> QED BY <1>1, <1>2, <1>4, <1>5, CallKeeps DEF CaptureInv, CaptureTypeOK

LEMMA MintKeeps ==
    ASSUME CaptureInv, NEW w \in Window, NEW n \in Claim(w), MintInvitation(w, n)
    PROVE  CaptureInv'
<1> DEFINE e == [at |-> "minted", invitation |-> minted[w] + 1]
<1>1. /\ execution[w][n].at = "checked" /\ minted[w] < MaxCaptured
      /\ minted' = [minted EXCEPT ![w] = minted[w] + 1]
      /\ CallMoves(w, n, e)
      /\ UNCHANGED <<window, form, capture, audited, loose>>
  BY DEF MintInvitation, CallMoves
<1>2. minted[w] \in Nat /\ minted[w] + 1 \in 0..MaxCaptured
  BY <1>1, CaptureFacts
<1>3. e \in CallType /\ e.at = "minted" /\ e.invitation # 0
  BY <1>2 DEF CallType
<1> HIDE DEF e
<1>4. /\ minted' \in [Window -> 0..MaxCaptured] /\ minted'[w] = minted[w] + 1
      /\ \A v \in Window \ {w} : minted'[v] = minted[v]
  BY <1>1, <1>2 DEF CaptureInv, CaptureTypeOK
<1>5. /\ execution'[w][n] = e
      /\ \A m \in Claim(w) \ {n} : execution'[w][m] = execution[w][m]
      /\ Cardinality(Checked(w)') \in Nat
      /\ Cardinality(Checked(w)') + 1 = Cardinality(Checked(w))
  <2>1. /\ execution'[w][n] = e
        /\ \A m \in Claim(w) \ {n} : execution'[w][m] = execution[w][m]
        /\ Cardinality(Checked(w)) \in Nat /\ Cardinality(Checked(w)') \in Nat
        /\ Cardinality(Checked(w)') + (IF execution[w][n].at = "checked" THEN 1 ELSE 0)
           = Cardinality(Checked(w)) + (IF e.at = "checked" THEN 1 ELSE 0)
    BY <1>1, <1>3, CallChanges
  <2> QED BY <1>1, <1>3, <2>1
<1>6. Calling(w)' <=> Calling(w)
  BY <1>1, <1>3, <1>5 DEF Calling, HasClaim
<1>7. MintsArePaid(w)'
  <2>1. MintsArePaid(w) /\ loose[w] \in Nat
    BY CaptureFacts
  <2> QED BY <1>1, <1>2, <1>4, <1>5, <1>6, <2>1 DEF MintsArePaid, Paid
<1> QED BY <1>1, <1>3, <1>4, <1>7, CallKeeps DEF CaptureInv, CaptureTypeOK

LEMMA AuditKeeps ==
    ASSUME CaptureInv, NEW w \in Window, NEW n \in Claim(w), AuditCapture(w, n)
    PROVE  CaptureInv'
<1>1. Is("thinking") \in CallType /\ Is("thinking").at = "thinking"
  BY CaptureAssumption DEF CallType, Is
<1>2. /\ execution[w][n].at = "minted"
      /\ audited' = [audited EXCEPT ![w] = execution[w][n].invitation]
      /\ CallMoves(w, n, Is("thinking"))
      /\ UNCHANGED <<window, form, capture, minted, loose>>
  BY DEF AuditCapture, CallMoves
<1>3. execution[w][n].invitation \in 0..MaxCaptured /\ execution[w][n].invitation # 0
  BY <1>2, CaptureFacts DEF CallType, MintsAreNamed
<1>4. /\ audited' \in [Window -> 0..MaxCaptured] /\ audited'[w] # 0
      /\ \A v \in Window \ {w} : audited'[v] = audited[v]
  BY <1>2, <1>3 DEF CaptureInv, CaptureTypeOK
<1>5. Cardinality(Checked(w)') = Cardinality(Checked(w))
  <2>1. /\ execution'[w][n] = Is("thinking")
        /\ \A m \in Claim(w) \ {n} : execution'[w][m] = execution[w][m]
        /\ Cardinality(Checked(w)) \in Nat /\ Cardinality(Checked(w)') \in Nat
        /\ Cardinality(Checked(w)') + (IF execution[w][n].at = "checked" THEN 1 ELSE 0)
           = Cardinality(Checked(w)) + (IF Is("thinking").at = "checked" THEN 1 ELSE 0)
    BY <1>1, <1>2, CallChanges
  <2> QED BY <1>1, <1>2, <2>1
<1>6. MintsArePaid(w)'
  <2>1. /\ MintsArePaid(w) /\ loose[w] \in Nat /\ minted[w] \in Nat
        /\ Cardinality(Checked(w)) \in Nat
    BY CaptureFacts
  <2> QED BY <1>2, <1>4, <1>5, <2>1 DEF MintsArePaid, Paid
<1> QED BY <1>1, <1>2, <1>4, <1>6, CallKeeps DEF CaptureInv, CaptureTypeOK

FormType == [posting : BOOLEAN, panel : Panel, run : Window]

\* The pages show what the runs do, and do not take part in it.
LEMMA PagesKeep ==
    ASSUME CaptureInv, window' \in Window, form' \in [Form -> FormType],
           UNCHANGED <<capture, execution, minted, audited, loose>>
    PROVE  CaptureInv'
<1>1. CaptureTypeOK'
  BY DEF CaptureInv, CaptureTypeOK, FormType
<1>2. \A w \in Window : (MintsArePaid(w) /\ ClaimsAreCounted(w) /\ MintsAreNamed(w))'
  BY OtherWindows
<1> QED BY <1>1, <1>2 DEF CaptureInv

LEMMA PageStepKeeps ==
    ASSUME CaptureInv, NEW f \in Form,
           \/ Submit(f) \/ PostFails(f) \/ SeeSettled(f) \/ Reveal(f) \/ RevealFails(f)
           \/ RevealAgain(f)
    PROVE  CaptureInv'
<1>1. UNCHANGED <<window, capture, execution, minted, audited, loose>>
  BY DEF Submit, PostFails, SeeSettled, Reveal, RevealFails, RevealAgain
<1>2. form \in [Form -> FormType] /\ window \in Window
  BY DEF CaptureInv, CaptureTypeOK, FormType
<1>3. form' \in [Form -> FormType]
  <2>1. CASE Submit(f)
    BY <1>2, <2>1 DEF Submit, FormType
  <2>2. CASE PostFails(f)
    BY <1>2, <2>2, CaptureAssumption DEF PostFails, Unmounted, FormType, Panel, Window
  <2>3. CASE SeeSettled(f)
    BY <1>2, <2>3 DEF SeeSettled, FormType, Panel
  <2>4. CASE Reveal(f)
    BY <1>2, <2>4 DEF Reveal, FormType, Panel
  <2>5. CASE RevealFails(f) \/ RevealAgain(f)
    BY <1>2, <2>5 DEF RevealFails, RevealAgain, FormType, Panel
  <2> QED BY <2>1, <2>2, <2>3, <2>4, <2>5
<1> QED BY <1>1, <1>2, <1>3, PagesKeep

\* A run that is queued, or runs no longer, has nobody calling under its claim.
LEMMA StatusKeeps ==
    ASSUME CaptureInv, window' = window, form' \in [Form -> FormType],
           NEW w \in Window, NEW status \in {"absent", "queued", "completed", "failed"},
           capture' = [capture EXCEPT ![w].status = status],
           UNCHANGED <<execution, minted, audited>>,
           loose' \in [Window -> 0..MaxCaptured],
           \A v \in Window \ {w} : loose'[v] = loose[v],
           IF Calling(w) THEN loose'[w] = MaxCaptured \/ loose'[w] = loose[w] + 1
           ELSE loose'[w] \in {loose[w], MaxCaptured} \/ loose'[w] = loose[w] + 1
    PROVE  CaptureInv'
<1>1. /\ capture' \in [Window -> [status : {"absent", "queued", "running", "completed", "failed"},
                                  claims : Nat]]
      /\ capture'[w].claims = capture[w].claims /\ capture'[w].status = status
      /\ \A v \in Window \ {w} : capture'[v] = capture[v]
  <2> DEFINE RunType == [status : {"absent", "queued", "running", "completed", "failed"},
                         claims : Nat]
  <2> DEFINE row == [capture[w] EXCEPT !.status = status]
  <2>1. capture \in [Window -> RunType]
    BY DEF CaptureInv, CaptureTypeOK
  <2>2. row \in RunType /\ row.status = status /\ row.claims = capture[w].claims
    BY <2>1
  <2>3. capture' = [capture EXCEPT ![w] = row]
    OBVIOUS
  <2> HIDE DEF row, RunType
  <2>4. capture' \in [Window -> RunType] /\ capture'[w] = row
        /\ \A v \in Window \ {w} : capture'[v] = capture[v]
    BY <2>1, <2>2, <2>3
  <2> QED BY <2>2, <2>4 DEF RunType
<1>2. CaptureTypeOK'
  BY <1>1 DEF CaptureInv, CaptureTypeOK, FormType
<1>3. \A v \in Window \ {w} : (MintsArePaid(v) /\ ClaimsAreCounted(v) /\ MintsAreNamed(v))'
  BY <1>1, OtherWindows
<1>4. ClaimsAreCounted(w)' /\ MintsAreNamed(w)'
  BY <1>1, CaptureFacts DEF ClaimsAreCounted, MintsAreNamed
<1>5. MintsArePaid(w)'
  <2>1. Checked(w)' = Checked(w) /\ minted'[w] = minted[w] /\ audited'[w] = audited[w]
    BY DEF Checked
  <2>2. loose[w] \in Nat /\ minted[w] \in Nat /\ MaxCaptured \in Nat /\ loose[w] <= MaxCaptured
        /\ loose'[w] \in Nat /\ loose'[w] <= MaxCaptured /\ Cardinality(Checked(w)) \in Nat
        /\ MintsArePaid(w)
    BY CaptureFacts
  <2> QED BY <2>1, <2>2 DEF MintsArePaid, Paid
<1> QED BY <1>2, <1>3, <1>4, <1>5 DEF CaptureInv

LEMMA PostKeeps ==
    ASSUME CaptureInv, NEW f \in Form, PostMessage(f)
    PROVE  CaptureInv'
<1>1. form \in [Form -> FormType] /\ window \in Window
  BY DEF CaptureInv, CaptureTypeOK, FormType
<1>2. PICK page \in {Mounted(form[f]), Unmounted} : form' = [form EXCEPT ![f] = page]
  BY DEF PostMessage
<1>3. form' \in [Form -> FormType]
  <2>1. page \in FormType
    <3>1. CASE page = Unmounted
      BY <3>1, CaptureAssumption DEF Unmounted, FormType, Panel, Window
    <3>2. CASE page = Mounted(form[f])
      BY <1>1, <3>2 DEF Mounted, FormType, Panel
    <3> QED BY <3>1, <3>2
  <2> QED BY <1>1, <1>2, <2>1
<1>4. UNCHANGED <<window, execution, minted, audited, loose>> /\ capture' = Accepted
  BY DEF PostMessage
<1>5. CASE capture[window].status \in {"absent", "failed"}
  <2>1. capture' = [capture EXCEPT ![window].status = "queued"]
    BY <1>4, <1>5 DEF Accepted
  <2>2. ~Calling(window)
    BY <1>5 DEF Calling, HasClaim
  <2>3. loose' \in [Window -> 0..MaxCaptured]
    BY <1>4 DEF CaptureInv, CaptureTypeOK
  <2> QED BY <1>1, <1>3, <1>4, <2>1, <2>2, <2>3, StatusKeeps
<1>6. CASE capture[window].status \notin {"absent", "failed"}
  <2>1. capture' = capture
    BY <1>1, <1>4, <1>6 DEF Accepted, CaptureInv, CaptureTypeOK
  <2> QED BY <1>1, <1>3, <1>4, <2>1, PagesKeep
<1> QED BY <1>5, <1>6

LEMMA LapseKeeps ==
    ASSUME CaptureInv, NEW w \in Window, ClaimLapses(w)
    PROVE  CaptureInv'
<1>1. PICK status \in {"queued", "failed"} : capture' = [capture EXCEPT ![w].status = status]
  BY DEF ClaimLapses
<1> DEFINE n == capture[w].claims
<1>2. n \in Claim(w) /\ HasClaim(w, n)
  BY CaptureFacts, CaptureAssumption DEF ClaimLapses, ClaimsAreCounted, Claim, HasClaim
<1>3. UNCHANGED <<window, form, execution, minted, audited>>
  BY DEF ClaimLapses
<1>4. /\ loose' \in [Window -> 0..MaxCaptured] /\ \A v \in Window \ {w} : loose'[v] = loose[v]
      /\ IF Calling(w) THEN loose'[w] = MaxCaptured \/ loose'[w] = loose[w] + 1
         ELSE loose'[w] = loose[w]
  <2>1. Calling(w) <=> execution[w][n].at \in {"checked", "minted"}
    BY <1>2, CallingFacts
  <2> QED BY <2>1, OneMoreFacts DEF ClaimLapses, CaptureInv, CaptureTypeOK
<1>5. form' \in [Form -> FormType]
  BY <1>3 DEF CaptureInv, CaptureTypeOK, FormType
<1> QED BY <1>1, <1>3, <1>4, <1>5, StatusKeeps

\* A new claim starts an execution that has no call under way.
LEMMA ClaimCaptureKeeps ==
    ASSUME CaptureInv, NEW w \in Window, ClaimCapture(w)
    PROVE  CaptureInv'
<1> DEFINE n == capture[w].claims + 1
<1> DEFINE e == [execution[w][n] EXCEPT !.at = "thinking"]
<1>1. /\ capture[w].status = "queued" /\ capture[w].claims < MaxClaims[w]
      /\ capture' = [capture EXCEPT ![w] = [status |-> "running", claims |-> n]]
      /\ CallMoves(w, n, e) /\ UNCHANGED <<window, form, minted, audited, loose>>
  BY DEF ClaimCapture, CallMoves
<1>2. n \in Claim(w) /\ n \in Nat /\ n > capture[w].claims /\ n # 0 /\ n <= MaxClaims[w]
  BY <1>1, CaptureFacts, CaptureAssumption DEF Claim
<1>3. execution[w][n].at = "none" /\ e \in CallType /\ e.at = "thinking"
  BY <1>2, CaptureFacts DEF ClaimsAreCounted, CallType
<1> HIDE DEF n, e
<1>4. /\ capture' \in [Window -> [status : {"absent", "queued", "running", "completed", "failed"},
                                  claims : Nat]]
      /\ capture'[w].claims = n /\ \A v \in Window \ {w} : capture'[v] = capture[v]
  BY <1>1, <1>2 DEF CaptureInv, CaptureTypeOK
<1>5. /\ DOMAIN execution' = Window
      /\ \A v \in Window : execution'[v] \in [Claim(v) -> CallType]
      /\ \A v \in Window \ {w} : execution'[v] = execution[v]
      /\ \A m \in Claim(w) \ {n} : execution'[w][m] = execution[w][m]
      /\ execution'[w][n] = e
      /\ Cardinality(Checked(w)) \in Nat /\ Cardinality(Checked(w)') \in Nat
      /\ Cardinality(Checked(w)') + (IF execution[w][n].at = "checked" THEN 1 ELSE 0)
         = Cardinality(Checked(w)) + (IF e.at = "checked" THEN 1 ELSE 0)
  BY <1>1, <1>2, <1>3, CallChanges
<1>6. CaptureTypeOK'
  BY <1>1, <1>4, <1>5 DEF CaptureInv, CaptureTypeOK, CallType
<1>7. \A v \in Window \ {w} : (MintsArePaid(v) /\ ClaimsAreCounted(v) /\ MintsAreNamed(v))'
  BY <1>1, <1>4, <1>5, OtherWindows
<1>8. MintsAreNamed(w)'
  BY <1>3, <1>5, CaptureFacts DEF MintsAreNamed
<1>9. ClaimsAreCounted(w)'
  <2>1. ClaimsAreCounted(w) /\ capture[w].claims \in Nat /\ Claim(w) \subseteq Nat
    BY CaptureFacts DEF Claim
  <2>2. \A m \in Claim(w) : m > n => execution[w][m].at = "none" /\ m # n
    BY <1>2, <2>1 DEF ClaimsAreCounted
  <2> QED BY <1>2, <1>4, <1>5, <2>2 DEF ClaimsAreCounted
<1>10. MintsArePaid(w)'
  <2>1. ~Calling(w)
    BY <1>1 DEF Calling, HasClaim
  <2>2. Cardinality(Checked(w)') = Cardinality(Checked(w))
    BY <1>3, <1>5
  <2>3. /\ MintsArePaid(w) /\ loose[w] \in Nat /\ minted[w] \in Nat
        /\ Cardinality(Checked(w)) \in Nat
    BY CaptureFacts
  <2> QED BY <1>1, <2>1, <2>2, <2>3 DEF MintsArePaid, Paid
<1> QED BY <1>5, <1>6, <1>7, <1>8, <1>9, <1>10 DEF CaptureInv

LEMMA CaptureStep == CaptureInv /\ [CaptureNext]_captureVars => CaptureInv'
<1> SUFFICES ASSUME CaptureInv, [CaptureNext]_captureVars PROVE CaptureInv'
  OBVIOUS
<1>1. window \in Window /\ form \in [Form -> FormType]
  BY DEF CaptureInv, CaptureTypeOK, FormType
<1>2. CASE UNCHANGED captureVars
  BY <1>1, <1>2, PagesKeep DEF captureVars
<1>3. CASE WindowPasses
  <2>1. window' \in Window
    BY <1>1, <1>3, CaptureAssumption DEF WindowPasses, Window
  <2> QED BY <1>1, <1>3, <2>1, PagesKeep DEF WindowPasses
<1>4. ASSUME NEW w \in Window, NEW n \in Claim(w), ExecutionDies(w, n) \/ CallFailsHalfway(w, n)
      PROVE  CaptureInv'
  <2>1. /\ execution[w][n].at \in {"thinking", "checked", "minted"}
        /\ CallMoves(w, n, Is("ended")) \/ CallMoves(w, n, Is("thinking"))
        /\ IF HasClaim(w, n) /\ execution[w][n].at = "minted" THEN OneMore(w)
           ELSE loose' = loose
        /\ UNCHANGED <<window, form, capture, minted, audited>>
    BY <1>4 DEF ExecutionDies, CallFailsHalfway, CallMoves
  <2> QED BY <2>1, CallStops
<1> QED BY <1>2, <1>3, <1>4, PageStepKeeps, PostKeeps, ClaimCaptureKeeps, LapseKeeps,
           ConcludeKeeps, CheckKeeps, MintKeeps, AuditKeeps DEF CaptureNext

LEMMA CaptureStart == CaptureInit => CaptureInv
<1> SUFFICES ASSUME CaptureInit PROVE CaptureInv
  OBVIOUS
<1>1. CaptureTypeOK /\ DOMAIN execution = Window
  BY CaptureAssumption DEF CaptureInit, CaptureTypeOK, Window, Unmounted, Panel, Is
<1>2. \A w \in Window : Checked(w) = {} /\ Cardinality(Checked(w)) = 0
  <2>1. \A w \in Window : Checked(w) = {}
    BY DEF CaptureInit, Checked, Is
  <2> QED BY <2>1, FS_EmptySet
<1>3. \A w \in Window : MintsArePaid(w)
  BY <1>2 DEF CaptureInit, MintsArePaid, Paid
<1>4. \A w \in Window : ClaimsAreCounted(w) /\ MintsAreNamed(w)
  BY CaptureAssumption DEF CaptureInit, ClaimsAreCounted, MintsAreNamed, Is
<1> QED BY <1>1, <1>3, <1>4 DEF CaptureInv

\* However often the pages post the message and the model calls the tool, and whatever
\* executions of the run go on without its claim: a second invitation of a run costs a call
\* that was cut off before its audit row, or made without the claim (invitations.ts,
\* run-task.ts, capture-invitation-form.tsx).
THEOREM RunsCaptureOnce == CaptureSpec => []CapturedOnce
<1>1. CaptureInit => CaptureInv
  BY CaptureStart
<1>2. CaptureInv => CapturedOnce
  <2> SUFFICES ASSUME CaptureInv, NEW w \in Window PROVE minted[w] <= 1 + loose[w]
    BY DEF CapturedOnce
  <2> QED BY CaptureFacts DEF MintsArePaid, Paid
<1> QED BY <1>1, <1>2, CaptureStep, PTL DEF CaptureSpec

-----------------------------------------------------------------------------
(***************************************************************************)
(* All services together                                                   *)
(***************************************************************************)

\* Those that do not run are as they were, so each keeps its invariant; a house to choose
\* rooms in is there only if that is the service that runs.
ServicesInv ==
    /\ scenario \in Services
    /\ IInv
    /\ PingInv /\ MailsAreCounted
    /\ ScheduleInv
    /\ MemoryInv /\ MemoryTypeOK
    /\ PageInv /\ PageTypeOK
    /\ AccessTypeOK
    /\ CalendarInv
    /\ AccountInv
    /\ scenario = "rooms" => ChoiceInv
    /\ ProbeInv
    /\ CaptureInv

LEMMA ServicesStart == ServicesInit => ServicesInv
BY InitIInv, PingStart, CountStart, ScheduleStart, MemoryStart, MemoryTypesStart, PageStart,
   PageTypesStart, AccessTypesStart, CalendarStart, AccountStart, ChoiceStart, ProbeStart,
   CaptureStart
   DEF ServicesInit, ServicesInv

\* Every step of the services is one of each service or leaves it alone.
LEMMA ServicesStutter ==
    ASSUME [ServicesNext]_servicesVars
    PROVE  /\ [Next]_vars /\ [PingNext]_pingVars /\ [ScheduleNext]_scheduleVars
           /\ [MemoryNext]_memoryVars /\ [PageNext]_pageVars /\ [AccessNext]_accessVars
           /\ [CalendarNext]_calendarVars /\ [AccountNext]_accountVars
           /\ [ChoiceNext]_choiceVars /\ [ProbeNext]_probeVars /\ [CaptureNext]_captureVars
           /\ scenario' = scenario
BY DEF ServicesNext, servicesVars, OnlyOutbox, OnlyPings, OnlySchedules, OnlyMemory, OnlyPage,
   OnlyAccess, OnlyCalendar, OnlyAccounts, OnlyRooms, OnlyProbes, OnlyCapture

LEMMA ServicesStep ==
    ASSUME IsFiniteSet(Sender), ServicesInv, [ServicesNext]_servicesVars
    PROVE  ServicesInv'
<1>1. /\ scenario \in Services /\ IInv /\ PingInv /\ MailsAreCounted /\ ScheduleInv
      /\ MemoryInv /\ MemoryTypeOK /\ PageInv /\ PageTypeOK /\ AccessTypeOK /\ CalendarInv
      /\ AccountInv /\ ProbeInv /\ CaptureInv
      /\ (scenario = "rooms" => ChoiceInv)
  BY DEF ServicesInv
<1>2. IInv'
  BY <1>1, ServicesStutter, NextIInv
<1>3. PingInv' /\ MailsAreCounted'
  BY <1>1, ServicesStutter, PingStep, CountStep
<1>4. ScheduleInv'
  BY <1>1, ServicesStutter, ScheduleStep, SchedulesAssumption
<1>5. MemoryInv' /\ MemoryTypeOK'
  BY <1>1, ServicesStutter, SweepStep, MemoryTypesStep
<1>6. PageInv' /\ PageTypeOK'
  BY <1>1, ServicesStutter, PageStep, PageTypesStep
<1>7. AccessTypeOK' /\ CalendarInv' /\ AccountInv'
  BY <1>1, ServicesStutter, AccessTypesStep, CalendarStep, AccountStep
<1>8. scenario' = scenario /\ (scenario' = "rooms" => ChoiceInv')
  BY <1>1, ServicesStutter, ChoiceStep
<1>9. ProbeInv' /\ CaptureInv'
  BY <1>1, ServicesStutter, ProbeStep, CaptureStep
<1> QED BY <1>1, <1>2, <1>3, <1>4, <1>5, <1>6, <1>7, <1>8, <1>9 DEF ServicesInv

\* Whichever service runs keeps its variables in their types and its counters within their
\* bounds, with as many dispatches as there are: each sends one email at most
\* (email-outbox.ts:330-396), a page of memory starts no further than what was written
\* (memory/client.ts), and no link outlasts the longest term there is
\* (invitations.ts:65-82).
THEOREM ServicesTypeCorrect ==
    ASSUME IsFiniteSet(Sender)
    PROVE  ServicesSpec => []ServicesTypeOK
<1>1. ServicesInit => ServicesInv
  BY ServicesStart
<1>2. ServicesInv /\ [ServicesNext]_servicesVars => ServicesInv'
  BY ServicesStep
<1>3. ServicesInv => ServicesTypeOK
  <2> SUFFICES ASSUME ServicesInv PROVE ServicesTypeOK
    OBVIOUS
  <2>1. TypeOK /\ ScheduleTypeOK /\ CalendarTypeOK /\ AccountTypeOK /\ ProbeTypeOK /\ CaptureTypeOK
    BY DEF ServicesInv, IInv, ScheduleInv, CalendarInv, AccountInv, ProbeInv, CaptureInv
  <2>2. PingTypeOK
    BY PingTypesFollow DEF ServicesInv
  <2>3. MemoryTypeOK /\ PageTypeOK /\ AccessTypeOK
    BY DEF ServicesInv
  <2>4. scenario = "rooms" => ChoiceTypeOK
    BY DEF ServicesInv, ChoiceInv
  <2>5. scenario \in Services
    BY DEF ServicesInv
  <2> QED BY <2>1, <2>2, <2>3, <2>4, <2>5 DEF ServicesTypeOK, Services
<1> QED BY <1>1, <1>2, <1>3, PTL DEF ServicesSpec
=============================================================================
