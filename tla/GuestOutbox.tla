---------------------------- MODULE GuestOutbox ----------------------------
(***************************************************************************)
(* Email to the guest of one invitation: the contact the guest registers,  *)
(* verifies and switches off (core/notifications/guest-contact.ts), and    *)
(* the outbox the cron sends verification mails and reconfirmation         *)
(* reminders from (guest-outbox.ts).                                       *)
(*                                                                         *)
(* The provider has no idempotency token, so an email may cross the        *)
(* network only once.  Before it sends, a dispatcher commits a receipt of  *)
(* its authorization, which whoever finds the row afterwards goes by.      *)
(*                                                                         *)
(* One action is one statement or transaction.  Claim tokens are fresh     *)
(* UUIDs; since every claim counts an attempt, a token is named by the     *)
(* attempt it counted.  Back-off is left open: a failed row may be retried *)
(* at any time.  A dispatcher that never takes its next step has died.     *)
(***************************************************************************)
EXTENDS Naturals, FiniteSets

CONSTANTS
    Dispatcher,     \* executions of dispatchGuestEmailPings, each once
    MaxAttempts,    \* claims of one row (3)
    MaxGenerations  \* bound on the changes of the contact

Generation == 1..MaxGenerations
Row == {"verification", "reminder"} \X Generation
Attempt == 1..MaxAttempts
NoRow == <<"none", 0>>
NoAttempt == 0

ASSUME GuestOutboxAssumption ==
    /\ MaxAttempts \in Nat \ {0}
    /\ MaxGenerations \in Nat

VARIABLES
    contact,    \* guest_contacts: generation (0: no row), consent, verified
    google,     \* Google vouched for the address of the contact
    invited,    \* the invitation's link: live, expired, or withdrawn for good
    asked,      \* the visit waits for the guest's answer
    outbox,     \* guest_email_outbox
    receipt,    \* guest_email_attempts.status of each attempt
    process,    \* where each dispatcher stands
    delivered   \* emails the provider took for each row

guestVars == <<contact, google, invited, asked>>
vars == <<contact, google, invited, asked, outbox, receipt, process, delivered>>

Locations == {"start", "adopt", "age", "abandon", "exhaust", "claim",
              "authorize", "obsolete", "send", "record", "recordRow", "failed", "unknown", "done"}

TypeOK ==
    /\ contact \in [generation : 0..MaxGenerations, consent : BOOLEAN, verified : BOOLEAN]
    /\ google \in BOOLEAN
    /\ invited \in {"live", "expired", "withdrawn"}
    /\ asked \in BOOLEAN
    /\ outbox \in [Row -> [status : {"absent", "queued", "sending", "sent", "failed", "cancelled"},
                           attempts : 0..MaxAttempts, claim : Attempt \cup {NoAttempt},
                           lapsed : BOOLEAN, unknown : BOOLEAN]]
    /\ \A r \in Row : outbox[r].claim # NoAttempt <=> outbox[r].status = "sending"
    /\ receipt \in [Row -> [Attempt -> {"none", "authorized", "accepted", "failed", "unknown"}]]
    /\ process \in [Dispatcher -> [at : Locations, row : Row \cup {NoRow},
                                   attempt : Attempt \cup {NoAttempt}]]
    /\ delivered \in [Row -> Nat]

Unwritten == [status |-> "absent", attempts |-> 0, claim |-> NoAttempt,
              lapsed |-> FALSE, unknown |-> FALSE]

Starting == [at |-> "start", row |-> NoRow, attempt |-> NoAttempt]

Init ==
    /\ contact = [generation |-> 0, consent |-> FALSE, verified |-> FALSE]
    /\ google = FALSE
    /\ invited = "live"
    /\ asked = TRUE
    /\ outbox = [r \in Row |-> Unwritten]
    /\ receipt = [r \in Row |-> [n \in Attempt |-> "none"]]
    /\ process = [p \in Dispatcher |-> Starting]
    /\ delivered = [r \in Row |-> 0]

-----------------------------------------------------------------------------
(***************************************************************************)
(* Rows                                                                    *)
(***************************************************************************)

Pending(r) == outbox[r].status \in {"queued", "sending", "failed"}

Close(r, status) == [outbox[r] EXCEPT !.status = status, !.claim = NoAttempt, !.lapsed = FALSE]

\* Mutant: a row under way keeps its claim.
CancelledWithClaim(S) ==
    [r \in Row |-> IF r \in S /\ Pending(r)
                   THEN [outbox[r] EXCEPT !.status = "cancelled", !.unknown = FALSE]
                   ELSE outbox[r]]

\* The error of a cancelled row tells nobody anything any more.
Cancelled(S) ==
    [r \in Row |-> IF r \in S /\ Pending(r)
                   THEN [Close(r, "cancelled") EXCEPT !.unknown = FALSE] ELSE outbox[r]]

Queue(table, r) == [table EXCEPT ![r] = [Unwritten EXCEPT !.status = "queued"]]

Goes(p, location) == process' = [process EXCEPT ![p].at = location]
Proceeds(p) == process' = [process EXCEPT ![p] = [Starting EXCEPT !.at = "claim"]]
Claims(p, r) == outbox[r].claim = process[p].attempt

\* An email of this row may still be on its way, or was: nobody can tell.
Uncertain(r) ==
    outbox[r].claim # NoAttempt /\ receipt[r][outbox[r].claim] \in {"authorized", "unknown"}

-----------------------------------------------------------------------------
(***************************************************************************)
(* The guest                                                               *)
(***************************************************************************)

LinkWorks == invited = "live"

\* A new address is a new generation; whatever waited for the old one is dropped.
Register(vouched) ==
    LET g == contact.generation + 1
        closed == Cancelled(Row)
    IN  /\ LinkWorks
        /\ contact.generation < MaxGenerations
        /\ contact' = [generation |-> g, consent |-> TRUE, verified |-> vouched]
        /\ google' = vouched
        /\ outbox' = IF vouched THEN closed ELSE Queue(closed, <<"verification", g>>)
        /\ UNCHANGED <<invited, asked, receipt, process, delivered>>

Disable ==
    /\ LinkWorks
    /\ contact.generation \in 1..(MaxGenerations - 1)
    /\ contact' = [contact EXCEPT !.generation = @ + 1, !.consent = FALSE]
    /\ outbox' = Cancelled(Row)
    /\ UNCHANGED <<google, invited, asked, receipt, process, delivered>>

\* Mutant: a link of an earlier address is as good.
VerifyAnyLink(g) ==
    /\ delivered[<<"verification", g>>] > 0
    /\ LinkWorks
    /\ contact.consent /\ ~contact.verified
    /\ contact' = [contact EXCEPT !.verified = TRUE]
    /\ outbox' = Cancelled({<<"verification", h>> : h \in Generation})
    /\ UNCHANGED <<google, invited, asked, receipt, process, delivered>>

\* The capability of a verification mail carries the generation it was made for.
Confirmable(g) ==
    /\ LinkWorks
    /\ contact.generation = g
    /\ contact.consent /\ ~contact.verified

\* The guest opens the link of a verification mail, perhaps of an old one.  (One sent
\* before its invitation was issued again is refused, which nothing here depends on.)
Verify(g) ==
    /\ delivered[<<"verification", g>>] > 0
    /\ Confirmable(g)
    /\ contact' = [contact EXCEPT !.verified = TRUE]
    /\ outbox' = Cancelled({<<"verification", h>> : h \in Generation})
    /\ UNCHANGED <<google, invited, asked, receipt, process, delivered>>

\* The guest answers, the visit moves or its day comes.
Settle ==
    /\ asked
    /\ asked' = FALSE
    /\ UNCHANGED <<contact, google, invited, outbox, receipt, process, delivered>>

\* The host withdraws the invitation and with it the visit.
Withdraw ==
    /\ invited # "withdrawn"
    /\ invited' = "withdrawn"
    /\ asked' = FALSE
    /\ UNCHANGED <<contact, google, outbox, receipt, process, delivered>>

\* A link outlives the visit that was confirmed with it; without one it expires.
LinkExpires ==
    /\ LinkWorks /\ ~asked
    /\ invited' = "expired"
    /\ UNCHANGED <<contact, google, asked, outbox, receipt, process, delivered>>

LinkIsReissued ==
    /\ invited = "expired"
    /\ invited' = "live"
    /\ UNCHANGED <<contact, google, asked, outbox, receipt, process, delivered>>

-----------------------------------------------------------------------------
(***************************************************************************)
(* dispatchGuestEmailPings: recovery                                       *)
(***************************************************************************)

EnqueueReminders(p) ==
    LET r == <<"reminder", contact.generation>>
        due == contact.consent /\ contact.verified /\ LinkWorks /\ asked
    IN  /\ process[p].at = "start"
        /\ outbox' = IF due /\ outbox[r].status = "absent" THEN Queue(outbox, r) ELSE outbox
        /\ Goes(p, "adopt")
        /\ UNCHANGED <<guestVars, receipt, delivered>>

\* A row whose email was accepted is sent, whatever it says.
AdoptAccepted(p) ==
    /\ process[p].at = "adopt"
    /\ outbox' = [r \in Row |->
         IF Pending(r) /\ \E n \in Attempt : receipt[r][n] = "accepted"
         THEN [Close(r, "sent") EXCEPT !.unknown = FALSE] ELSE outbox[r]]
    /\ Goes(p, "age")
    /\ UNCHANGED <<guestVars, receipt, delivered>>

\* Authorizations older than a lease; a receipt is younger than its claim.  Those of
\* claims that are gone are left alone: no reader tells the two statuses apart.
AgeReceipts(p) ==
    /\ process[p].at = "age"
    /\ \E old \in SUBSET {r \in Row : outbox[r].lapsed
                                     /\ receipt[r][outbox[r].claim] = "authorized"} :
         receipt' = [r \in Row |-> IF r \in old
                       THEN [receipt[r] EXCEPT ![outbox[r].claim] = "unknown"] ELSE receipt[r]]
    /\ Goes(p, "abandon")
    /\ UNCHANGED <<guestVars, outbox, delivered>>

AbandonUncertain(p) ==
    /\ process[p].at = "abandon"
    /\ outbox' = [r \in Row |->
         IF outbox[r].lapsed /\ Uncertain(r)
         THEN [Close(r, "failed") EXCEPT !.unknown = TRUE] ELSE outbox[r]]
    /\ Goes(p, "exhaust")
    /\ UNCHANGED <<guestVars, receipt, delivered>>

FailExhausted(p) ==
    /\ process[p].at = "exhaust"
    /\ outbox' = [r \in Row |->
         IF outbox[r].lapsed /\ outbox[r].attempts >= MaxAttempts
         THEN [Close(r, "failed") EXCEPT !.unknown = FALSE] ELSE outbox[r]]
    /\ Proceeds(p)
    /\ UNCHANGED <<guestVars, receipt, delivered>>

-----------------------------------------------------------------------------
(***************************************************************************)
(* dispatchGuestEmailPings: sending                                        *)
(***************************************************************************)

\* Mutant: a lapsed claim is taken over whatever its receipt says.
ClaimableByLease(r) ==
    /\ outbox[r].attempts < MaxAttempts
    /\ ~outbox[r].unknown
    /\ outbox[r].status \in {"queued", "failed"} \/ outbox[r].lapsed

Claimable(r) ==
    /\ outbox[r].attempts < MaxAttempts
    /\ ~outbox[r].unknown
    /\ \A n \in Attempt : receipt[r][n] # "accepted"
    /\ ~Uncertain(r)
    /\ outbox[r].status \in {"queued", "failed"} \/ outbox[r].lapsed

ClaimPing(p, r) ==
    LET n == outbox[r].attempts + 1
    IN  /\ process[p].at = "claim"
        /\ Claimable(r)
        /\ outbox' = [outbox EXCEPT ![r] = [status |-> "sending", attempts |-> n, claim |-> n,
                                            lapsed |-> FALSE, unknown |-> FALSE]]
        /\ process' = [process EXCEPT ![p] = [at |-> "authorize", row |-> r, attempt |-> n]]
        /\ UNCHANGED <<guestVars, receipt, delivered>>

\* Nothing is left but rows that failed a moment ago.
EndDispatch(p) ==
    /\ process[p].at = "claim"
    /\ \A r \in Row : Claimable(r) => outbox[r].status = "failed"
    /\ process' = [process EXCEPT ![p] = [Starting EXCEPT !.at = "done"]]
    /\ UNCHANGED <<guestVars, outbox, receipt, delivered>>

\* currentRecipient.  A verification is not sent a day after it was asked for.
Current(r, fresh) ==
    /\ LinkWorks /\ contact.consent
    /\ contact.generation = r[2]
    /\ IF r[1] = "verification" THEN fresh /\ ~contact.verified
       ELSE contact.verified /\ asked

\* Under the home lock, so that it is ordered with registrations and withdrawals.
Authorize(p, fresh) ==
    LET r == process[p].row
        n == process[p].attempt
        sends == Claims(p, r) /\ ~outbox[r].lapsed /\ Current(r, fresh)
    IN  /\ process[p].at = "authorize"
        /\ receipt' = IF sends THEN [receipt EXCEPT ![r][n] = "authorized"] ELSE receipt
        /\ Goes(p, IF sends THEN "send" ELSE "obsolete")
        /\ UNCHANGED <<guestVars, outbox, delivered>>

\* That transaction fails: nothing is sent.
FailToAuthorize(p) ==
    /\ process[p].at = "authorize"
    /\ Goes(p, "failed")
    /\ UNCHANGED <<guestVars, outbox, receipt, delivered>>

\* Also the fate of a claim that merely lapsed and nobody took over yet.
CancelObsolete(p) ==
    LET r == process[p].row
    IN  /\ process[p].at = "obsolete"
        /\ outbox' = IF Claims(p, r) THEN [outbox EXCEPT ![r] = Close(r, "cancelled")] ELSE outbox
        /\ Proceeds(p)
        /\ UNCHANGED <<guestVars, receipt, delivered>>

\* The provider takes the email or not (or there is none to take: its preparation
\* failed); its answer arrives, or is lost.
Send(p, taken, answered) ==
    LET r == process[p].row
    IN  /\ process[p].at = "send"
        /\ delivered' = [delivered EXCEPT ![r] = IF taken THEN @ + 1 ELSE @]
        /\ Goes(p, IF ~answered THEN "unknown" ELSE IF taken THEN "record" ELSE "failed")
        /\ UNCHANGED <<guestVars, outbox, receipt>>

\* Mutant: the row is not checked to be still the dispatcher's.
MarkSentAnyway(p) ==
    outbox' = [outbox EXCEPT ![process[p].row] = Close(process[p].row, "sent")]

MarkSent(p) ==
    LET r == process[p].row
    IN  outbox' = IF Claims(p, r) THEN [outbox EXCEPT ![r] = Close(r, "sent")] ELSE outbox

MarkAccepted(p) ==
    receipt' = [receipt EXCEPT ![process[p].row][process[p].attempt] = "accepted"]

RecordAcceptance(p) ==
    /\ process[p].at = "record"
    /\ MarkAccepted(p)
    /\ MarkSent(p)
    /\ Proceeds(p)
    /\ UNCHANGED <<guestVars, delivered>>

\* That transaction failed: the receipt first, then the row.
RecordReceipt(p) ==
    /\ process[p].at = "record"
    /\ MarkAccepted(p)
    /\ Goes(p, "recordRow")
    /\ UNCHANGED <<guestVars, outbox, delivered>>

RecordRow(p) ==
    /\ process[p].at = "recordRow"
    /\ MarkSent(p)
    /\ Proceeds(p)
    /\ UNCHANGED <<guestVars, receipt, delivered>>

\* Mutant: a lost answer counts as a failure to send.
RecordAsFailed(p) ==
    LET r == process[p].row
        n == process[p].attempt
    IN  /\ process[p].at \in {"failed", "unknown"}
        /\ receipt' = IF receipt[r][n] = "authorized"
                      THEN [receipt EXCEPT ![r][n] = "failed"] ELSE receipt
        /\ outbox' = IF Claims(p, r) THEN [outbox EXCEPT ![r] = Close(r, "failed")] ELSE outbox
        /\ Proceeds(p)
        /\ UNCHANGED <<guestVars, delivered>>

\* Only an explicit refusal makes a retry safe.
RecordFailure(p) ==
    LET r == process[p].row
        n == process[p].attempt
        unknown == process[p].at = "unknown"
    IN  /\ process[p].at \in {"failed", "unknown"}
        /\ receipt' = IF receipt[r][n] = "authorized"
                      THEN [receipt EXCEPT ![r][n] = IF unknown THEN "unknown" ELSE "failed"]
                      ELSE receipt
        /\ outbox' = IF Claims(p, r)
                     THEN [outbox EXCEPT ![r] = [Close(r, "failed") EXCEPT !.unknown = unknown]]
                     ELSE outbox
        /\ Proceeds(p)
        /\ UNCHANGED <<guestVars, delivered>>

\* Five minutes pass since the claim.
LeaseLapses(r) ==
    /\ outbox[r].status = "sending" /\ ~outbox[r].lapsed
    /\ outbox' = [outbox EXCEPT ![r].lapsed = TRUE]
    /\ UNCHANGED <<guestVars, receipt, process, delivered>>

-----------------------------------------------------------------------------
DispatchStep(p) ==
    \/ EnqueueReminders(p) \/ AdoptAccepted(p) \/ AgeReceipts(p)
    \/ AbandonUncertain(p) \/ FailExhausted(p) \/ EndDispatch(p)
    \/ \E r \in Row : ClaimPing(p, r)
    \/ \E fresh \in BOOLEAN : Authorize(p, fresh)
    \/ FailToAuthorize(p) \/ CancelObsolete(p)
    \/ \E taken, answered \in BOOLEAN : Send(p, taken, answered)
    \/ RecordAcceptance(p) \/ RecordReceipt(p) \/ RecordRow(p) \/ RecordFailure(p)

Next ==
    \/ \E vouched \in BOOLEAN : Register(vouched)
    \/ \E g \in Generation : Verify(g)
    \/ Disable \/ Settle \/ Withdraw \/ LinkExpires \/ LinkIsReissued
    \/ \E p \in Dispatcher : DispatchStep(p)
    \/ \E r \in Row : LeaseLapses(r)

Spec == Init /\ [][Next]_vars

-----------------------------------------------------------------------------
(***************************************************************************)
(* Properties                                                              *)
(***************************************************************************)

\* The provider takes each email at most once, although dispatchers overlap, stall
\* past their lease, die around the call and lose its answer
\* (guest-outbox.ts:181-227, 289-295).
SentAtMostOnce == \A r \in Row : delivered[r] <= 1

\* What hosts and guests are told of a row is true: one marked sent was taken by
\* the provider; one queued, or failed and to be retried, was not, however late the
\* answer of a lapsed attempt comes (loadGuestDeliveryFacts, guest-outbox.ts:317-354).
\* A last attempt may read failed although its email is on its way: its lease can
\* lapse between AbandonUncertain and FailExhausted, which asks for no receipt.
StatusIsTrue ==
    \A r \in Row :
        /\ outbox[r].status = "sent" => delivered[r] > 0
        /\ outbox[r].status = "queued" => delivered[r] = 0
        /\ outbox[r].status = "failed" /\ ~outbox[r].unknown /\ outbox[r].attempts < MaxAttempts
           => \/ delivered[r] = 0
              \/ \E n \in Attempt : receipt[r][n] = "accepted"

\* An address counts as verified only by Google or by the link of an email that
\* was sent to this very address, whatever changes of the contact that email and
\* the guest's click raced with (guest-contact.ts:152-173, 308-334).
VerifiedByItsOwnEmail ==
    contact.verified /\ contact.consent
    => \/ google
       \/ delivered[<<"verification", contact.generation>>] > 0

\* What was sent or cancelled stays so: no late record of a dispatcher whose row was
\* taken from it, and no recovery of an accepted email, brings a cancelled row back
\* (guest-outbox.ts:181-193, 275-287).
SettledForGood ==
    [][\A r \in Row : outbox[r].status \in {"sent", "cancelled"}
                     => outbox'[r].status = outbox[r].status]_vars

-----------------------------------------------------------------------------
(***************************************************************************)
(* What the outbox implements                                              *)
(***************************************************************************)

\* A row that may still be claimed, or is, is open, whatever its last attempt came to.
Told ==
    [r \in Row |->
        CASE outbox[r].status = "absent" -> "none"
          [] outbox[r].status \in {"sent", "cancelled"} -> outbox[r].status
          [] outbox[r].status = "failed" /\ outbox[r].unknown -> "unknown"
          [] /\ outbox[r].status = "failed" /\ ~outbox[r].unknown
             /\ outbox[r].attempts >= MaxAttempts -> "failed"
          [] OTHER -> "open"]

Carriers == [r \in Row |-> {p \in Dispatcher : process[p].at = "send" /\ process[p].row = r}]

Notices == INSTANCE GuestNotices
              WITH told <- Told, carriers <- Carriers, taken <- delivered,
                   Carrier <- Dispatcher

\* Overlapping dispatchers, lapsed leases, lost answers, late records and changes of the
\* contact never offer an email twice or to an address the guest has left, never tell an
\* email as sent that was not, and never change what is told of a settled one
\* (guest-outbox.ts:156-354, guest-contact.ts:152-334).
ImplementsNotices == Notices!Spec
=============================================================================
