------------------------- MODULE GuestOutboxProofs -------------------------
(***************************************************************************)
(* Proofs about GuestOutbox for any number of dispatchers, attempts and    *)
(* generations of the contact.  That no email is sent twice rests on one   *)
(* fact, HotRowsAreBlocked: from the moment a dispatcher is authorized to  *)
(* send the email of a row, the row and its receipts together keep every   *)
(* other dispatcher from claiming it.                                      *)
(***************************************************************************)
EXTENDS GuestOutbox, TLAPS

Attempting == {"authorize", "obsolete", "send", "record", "recordRow", "failed", "unknown"}

Entry == [status : {"absent", "queued", "sending", "sent", "failed", "cancelled"},
          attempts : 0..MaxAttempts, claim : Attempt \cup {NoAttempt},
          lapsed : BOOLEAN, unknown : BOOLEAN]

\* An email of the row was taken, or is about to be offered to the provider.
Hot(r) ==
    \/ delivered[r] > 0
    \/ \E p \in Dispatcher : process[p].at = "send" /\ process[p].row = r

\* Nobody may claim the row, or its claimant is past its authorization.
Blocked(r) ==
    \/ outbox[r].status \in {"sent", "cancelled"}
    \/ /\ outbox[r].status = "failed"
       /\ \/ outbox[r].unknown
          \/ outbox[r].attempts >= MaxAttempts
          \/ \E n \in Attempt : receipt[r][n] = "accepted"
    \/ /\ outbox[r].status = "sending"
       /\ receipt[r][outbox[r].claim] \in {"authorized", "unknown", "accepted"}

RowsAreFresh ==
    \A r \in Row :
        /\ outbox[r].status = "absent" => outbox[r].attempts = 0
        /\ r[2] > contact.generation => outbox[r].status = "absent"
        /\ outbox[r].lapsed => outbox[r].status = "sending"
        /\ \A n \in Attempt : n > outbox[r].attempts => receipt[r][n] = "none"

AttemptsAreOwned ==
    /\ \A p \in Dispatcher :
          process[p].at \in Attempting
          => /\ process[p].row \in Row
             /\ process[p].attempt \in Attempt
             /\ process[p].attempt <= outbox[process[p].row].attempts
    /\ \A p, q \in Dispatcher :
          /\ process[p].at \in Attempting /\ process[q].at \in Attempting
          /\ process[p].row = process[q].row
          /\ process[p].attempt = process[q].attempt
          => p = q

AuthorizedOnce ==
    \A p \in Dispatcher :
        process[p].at = "authorize" => receipt[process[p].row][process[p].attempt] = "none"

SendersAreAlone ==
    \A p \in Dispatcher :
        process[p].at = "send"
        => /\ delivered[process[p].row] = 0
           /\ \A q \in Dispatcher :
                 process[q].at = "send" /\ process[q].row = process[p].row => q = p

RefusedWereNotSent ==
    \A p \in Dispatcher :
        process[p].at \in {"obsolete", "failed"} /\ Claims(p, process[p].row)
        => ~Hot(process[p].row)

HotRowsAreBlocked == \A r \in Row : Hot(r) => Blocked(r)

AcceptedWereSent ==
    /\ \A r \in Row, n \in Attempt : receipt[r][n] = "accepted" => delivered[r] > 0
    /\ \A r \in Row : outbox[r].status = "sent" => delivered[r] > 0
    /\ \A p \in Dispatcher :
          process[p].at \in {"record", "recordRow"} => delivered[process[p].row] > 0

ConsentHasAnAddress == contact.consent => contact.generation \in Generation

IInv ==
    /\ TypeOK
    /\ ConsentHasAnAddress
    /\ RowsAreFresh
    /\ AttemptsAreOwned
    /\ AuthorizedOnce
    /\ SendersAreAlone
    /\ RefusedWereNotSent
    /\ HotRowsAreBlocked
    /\ AcceptedWereSent
    /\ SentAtMostOnce
    /\ VerifiedByItsOwnEmail

\* What was sent or cancelled is not touched by this step.
KeepsSettled ==
    \A r \in Row : outbox[r].status \in {"sent", "cancelled"}
                   => outbox'[r].status = outbox[r].status

-----------------------------------------------------------------------------
(***************************************************************************)
(* Steps in general                                                        *)
(***************************************************************************)

LEMMA RowFacts ==
    /\ \A r \in Row : r[2] \in Generation
    /\ \A g \in Generation :
          /\ <<"verification", g>> \in Row /\ <<"verification", g>>[2] = g
          /\ <<"reminder", g>> \in Row /\ <<"reminder", g>>[2] = g
BY DEF Row

\* A step in which nobody claims a row or goes on with an attempt, and no row is
\* unblocked, leaves in force what the dispatchers under way rely on.
LEMMA QuietStep ==
    ASSUME IInv, TypeOK',
           \A q \in Dispatcher : process'[q].at \in Attempting => process'[q] = process[q],
           \A r \in Row : /\ outbox'[r].attempts = outbox[r].attempts
                          /\ outbox'[r].claim \in {outbox[r].claim, NoAttempt}
                          /\ Hot(r) /\ Blocked(r) => Blocked(r)',
           delivered' = delivered
    PROVE  /\ AttemptsAreOwned'
           /\ SendersAreAlone'
           /\ RefusedWereNotSent'
           /\ HotRowsAreBlocked'
           /\ SentAtMostOnce'
<1>1. AttemptsAreOwned'
  BY DEF IInv, AttemptsAreOwned, Attempting
<1>2. \A r \in Row : Hot(r)' => Hot(r)
  BY DEF Hot, Attempting
<1>3. HotRowsAreBlocked'
  BY <1>2 DEF IInv, HotRowsAreBlocked
<1>4. SendersAreAlone'
  BY DEF IInv, SendersAreAlone, Attempting
<1>5. RefusedWereNotSent'
  <2> SUFFICES ASSUME NEW p \in Dispatcher, process'[p].at \in {"obsolete", "failed"},
                      Claims(p, process[p].row)'
               PROVE  ~Hot(process[p].row)'
    BY DEF RefusedWereNotSent
  <2>1. /\ process'[p] = process[p] /\ process[p].at \in {"obsolete", "failed"}
        /\ process[p].row \in Row /\ process[p].attempt \in Attempt
    BY DEF Attempting, IInv, AttemptsAreOwned
  <2>2. Claims(p, process[p].row)
    BY <2>1 DEF Claims, Attempt, NoAttempt
  <2> QED BY <1>2, <2>1, <2>2 DEF IInv, RefusedWereNotSent
<1>6. SentAtMostOnce'
  BY DEF IInv, SentAtMostOnce
<1> QED BY <1>1, <1>3, <1>4, <1>5, <1>6

LEMMA InitIInv == Init => IInv
<1> SUFFICES ASSUME Init PROVE IInv
  OBVIOUS
<1> USE GuestOutboxAssumption
<1>1. TypeOK
  <2>1. Unwritten \in Entry
    BY DEF Unwritten, Entry, NoAttempt
  <2>2. Starting \in [at : Locations, row : Row \cup {NoRow}, attempt : Attempt \cup {NoAttempt}]
    BY DEF Starting, Locations
  <2>3. contact \in [generation : 0..MaxGenerations, consent : BOOLEAN, verified : BOOLEAN]
    BY DEF Init
  <2>4. \A r \in Row : outbox[r].claim # NoAttempt <=> outbox[r].status = "sending"
    BY DEF Init, Unwritten
  <2> QED BY <2>1, <2>2, <2>3, <2>4 DEF Init, TypeOK, Entry
<1>2. RowsAreFresh
  BY DEF Init, RowsAreFresh, Unwritten
<1>3. AttemptsAreOwned /\ AuthorizedOnce /\ SendersAreAlone /\ RefusedWereNotSent
  BY DEF Init, AttemptsAreOwned, AuthorizedOnce, SendersAreAlone, RefusedWereNotSent,
         Starting, Attempting
<1>4. HotRowsAreBlocked
  BY DEF Init, HotRowsAreBlocked, Hot, Starting
<1>5. AcceptedWereSent
  BY DEF Init, AcceptedWereSent, Unwritten, Starting
<1>6. SentAtMostOnce /\ VerifiedByItsOwnEmail /\ ConsentHasAnAddress
  BY DEF Init, SentAtMostOnce, VerifiedByItsOwnEmail, ConsentHasAnAddress
<1> QED BY <1>1, <1>2, <1>3, <1>4, <1>5, <1>6 DEF IInv

-----------------------------------------------------------------------------
(***************************************************************************)
(* Steps that close rows                                                   *)
(***************************************************************************)

\* This step closes the row with a status it does not come back from by itself.
Closes(r, status) ==
    /\ Pending(r)
    /\ outbox'[r].status = status
    /\ outbox'[r].attempts = outbox[r].attempts
    /\ outbox'[r].claim = NoAttempt
    /\ ~outbox'[r].lapsed

LEMMA CloseFacts ==
    ASSUME TypeOK, NEW r \in Row, NEW status \in {"sent", "failed", "cancelled"},
           NEW unknown \in BOOLEAN
    PROVE  LET plain == Close(r, status)
               told == [Close(r, status) EXCEPT !.unknown = unknown]
           IN  /\ plain \in Entry
               /\ told \in Entry
               /\ plain.status = status /\ told.status = status
               /\ plain.attempts = outbox[r].attempts /\ told.attempts = outbox[r].attempts
               /\ plain.claim = NoAttempt /\ told.claim = NoAttempt
               /\ ~plain.lapsed /\ ~told.lapsed
               /\ plain.unknown = outbox[r].unknown /\ told.unknown = unknown
<1>1. outbox[r] \in Entry
  BY DEF TypeOK, Entry
<1> QED BY <1>1 DEF Entry, Close, NoAttempt

LEMMA CancelledFacts ==
    ASSUME TypeOK, NEW S
    PROVE  /\ Cancelled(S) \in [Row -> Entry]
           /\ \A r \in Row :
                 \/ Cancelled(S)[r] = outbox[r] /\ (r \in S => ~Pending(r))
                 \/ /\ Pending(r)
                    /\ Cancelled(S)[r].status = "cancelled"
                    /\ Cancelled(S)[r].attempts = outbox[r].attempts
                    /\ Cancelled(S)[r].claim = NoAttempt
                    /\ ~Cancelled(S)[r].lapsed
<1>1. \A r \in Row : outbox[r] \in Entry
  BY DEF TypeOK, Entry
<1> QED BY <1>1, CloseFacts DEF Cancelled

\* This step queues the row, ages its claim, or closes it without unblocking it.
RowMoves(r) ==
    \/ outbox'[r] = outbox[r]
    \/ /\ outbox[r].status = "absent" /\ outbox'[r].status = "queued"
       /\ outbox'[r].attempts = 0 /\ outbox'[r].claim = NoAttempt /\ ~outbox'[r].lapsed
       /\ r[2] <= contact'.generation
    \/ /\ outbox[r].status = "sending" /\ outbox'[r].status = "sending"
       /\ outbox'[r].attempts = outbox[r].attempts
       /\ outbox'[r].claim = outbox[r].claim
    \/ Closes(r, "cancelled")
    \/ Closes(r, "sent") /\ delivered[r] > 0
    \/ /\ Closes(r, "failed")
       /\ outbox'[r].unknown \/ outbox[r].attempts >= MaxAttempts \/ ~Hot(r)

\* This step leaves the receipt as it is, or answers an authorization: an email
\* that may have been taken stays so on record for as long as its claim lasts.
ReceiptMoves(r, n) ==
    \/ receipt'[r][n] = receipt[r][n]
    \/ /\ n <= outbox[r].attempts
       /\ receipt'[r][n] = "accepted" => delivered[r] > 0
       /\ receipt[r][n] = "accepted" => receipt'[r][n] = "accepted"
       /\ outbox'[r].claim = n /\ receipt[r][n] \in {"authorized", "unknown"}
          => receipt'[r][n] \in {"authorized", "unknown", "accepted"}
       /\ \A q \in Dispatcher :
             ~(process'[q].at = "authorize" /\ process'[q].row = r /\ process'[q].attempt = n)

\* A step in which nobody claims a row or goes on with an attempt.
LEMMA TableStep ==
    ASSUME IInv,
           \A r \in Row : RowMoves(r),
           \A r \in Row, n \in Attempt : ReceiptMoves(r, n),
           \A q \in Dispatcher : process'[q].at \in Attempting => process'[q] = process[q],
           delivered' = delivered,
           contact'.generation >= contact.generation,
           outbox' \in [Row -> Entry],
           receipt' \in [Row -> [Attempt -> {"none", "authorized", "accepted", "failed",
                                             "unknown"}]],
           process' \in [Dispatcher -> [at : Locations, row : Row \cup {NoRow},
                                        attempt : Attempt \cup {NoAttempt}]],
           contact' \in [generation : 0..MaxGenerations, consent : BOOLEAN,
                         verified : BOOLEAN],
           google' \in BOOLEAN, invited' \in {"live", "expired", "withdrawn"}, asked' \in BOOLEAN,
           ConsentHasAnAddress', VerifiedByItsOwnEmail'
    PROVE  IInv' /\ KeepsSettled
<1>1. TypeOK'
  <2>1. \A r \in Row : outbox'[r].claim # NoAttempt <=> outbox'[r].status = "sending"
    BY DEF IInv, TypeOK, RowMoves, Closes
  <2> QED BY <2>1 DEF IInv, TypeOK, Entry
<1>2. \A r \in Row : /\ outbox'[r].attempts = outbox[r].attempts
                     /\ outbox'[r].claim \in {outbox[r].claim, NoAttempt}
  BY DEF IInv, RowsAreFresh, RowMoves, Closes
<1>3. RowsAreFresh'
  <2> SUFFICES ASSUME NEW r \in Row
               PROVE  /\ outbox'[r].status = "absent" => outbox'[r].attempts = 0
                      /\ r[2] > contact'.generation => outbox'[r].status = "absent"
                      /\ outbox'[r].lapsed => outbox'[r].status = "sending"
                      /\ \A n \in Attempt : n > outbox'[r].attempts => receipt'[r][n] = "none"
    BY DEF RowsAreFresh
  <2>1. contact.generation \in Nat /\ contact'.generation \in Nat /\ r[2] \in Nat
    BY RowFacts DEF IInv, TypeOK, Generation
  <2>2. outbox[r].attempts \in Nat
    BY DEF IInv, TypeOK
  <2>3. /\ outbox'[r].status = "absent" => outbox'[r].attempts = 0
        /\ r[2] > contact'.generation => outbox'[r].status = "absent"
        /\ outbox'[r].lapsed => outbox'[r].status = "sending"
    BY <2>1 DEF IInv, RowsAreFresh, RowMoves, Closes, Pending
  <2>4. \A n \in Attempt : n > outbox'[r].attempts => receipt'[r][n] = "none"
    BY <1>2, <2>2 DEF IInv, RowsAreFresh, ReceiptMoves, Attempt
  <2> QED BY <2>3, <2>4
<1>4. ASSUME NEW r \in Row, Hot(r), Blocked(r) PROVE Blocked(r)'
  <2>1. CASE outbox'[r] = outbox[r]
    <3>1. outbox[r].claim \in Attempt \cup {NoAttempt}
      BY DEF IInv, TypeOK
    <3>2. outbox[r].status = "sending" => outbox[r].claim \in Attempt
      BY <3>1 DEF IInv, TypeOK
    <3> QED BY <1>4, <2>1, <3>2 DEF Blocked, ReceiptMoves
  <2>2. CASE outbox[r].status = "sending" /\ outbox'[r].status = "sending"
             /\ outbox'[r].claim = outbox[r].claim
    <3>1. outbox[r].claim \in Attempt
      BY <2>2 DEF IInv, TypeOK
    <3> QED BY <1>4, <2>2, <3>1 DEF Blocked, ReceiptMoves
  <2>3. CASE Closes(r, "cancelled") \/ Closes(r, "sent")
    BY <2>3 DEF Blocked, Closes
  <2>4. CASE Closes(r, "failed")
             /\ (outbox'[r].unknown \/ outbox[r].attempts >= MaxAttempts \/ ~Hot(r))
    BY <1>4, <2>4 DEF Blocked, Closes
  <2> QED BY <1>4, <2>1, <2>2, <2>3, <2>4 DEF RowMoves, Blocked
<1>5. AuthorizedOnce'
  <2> SUFFICES ASSUME NEW p \in Dispatcher, process'[p].at = "authorize"
               PROVE  receipt'[process'[p].row][process'[p].attempt] = "none"
    BY DEF AuthorizedOnce
  <2>1. /\ process'[p] = process[p] /\ process[p].at = "authorize"
        /\ process[p].row \in Row /\ process[p].attempt \in Attempt
    BY DEF Attempting, IInv, AttemptsAreOwned
  <2>2. receipt[process[p].row][process[p].attempt] = "none"
    BY <2>1 DEF IInv, AuthorizedOnce
  <2>3. ReceiptMoves(process[p].row, process[p].attempt)
    BY <2>1
  <2> QED BY <2>1, <2>2, <2>3 DEF ReceiptMoves
<1>6. AcceptedWereSent'
  <2>1. \A r \in Row, n \in Attempt : receipt'[r][n] = "accepted" => delivered[r] > 0
    BY DEF IInv, AcceptedWereSent, ReceiptMoves
  <2>2. \A r \in Row : outbox'[r].status = "sent" => delivered[r] > 0
    BY DEF IInv, AcceptedWereSent, RowMoves, Closes
  <2>3. \A p \in Dispatcher :
           process'[p].at \in {"record", "recordRow"} => delivered[process'[p].row] > 0
    BY DEF IInv, AcceptedWereSent, Attempting
  <2> QED BY <2>1, <2>2, <2>3 DEF AcceptedWereSent
<1>7. KeepsSettled
  BY DEF KeepsSettled, RowMoves, Closes, Pending
<1> QED BY <1>1, <1>2, <1>3, <1>4, <1>5, <1>6, <1>7, QuietStep DEF IInv

-----------------------------------------------------------------------------
(***************************************************************************)
(* The guest's steps and those of recovery                                 *)
(***************************************************************************)

LEMMA CancelledMoves ==
    ASSUME TypeOK, NEW S, outbox' = Cancelled(S)
    PROVE  /\ outbox' \in [Row -> Entry]
           /\ \A r \in Row : outbox'[r] = outbox[r] \/ Closes(r, "cancelled")
BY CancelledFacts DEF Closes

LEMMA QueueMoves ==
    ASSUME NEW table \in [Row -> Entry], NEW r \in Row
    PROVE  /\ Queue(table, r) \in [Row -> Entry]
           /\ \A q \in Row \ {r} : Queue(table, r)[q] = table[q]
           /\ Queue(table, r)[r].status = "queued"
           /\ Queue(table, r)[r].attempts = 0
           /\ Queue(table, r)[r].claim = NoAttempt
           /\ ~Queue(table, r)[r].lapsed
<1> DEFINE queued == [Unwritten EXCEPT !.status = "queued"]
<1>1. Unwritten \in Entry
  BY GuestOutboxAssumption DEF Unwritten, Entry, NoAttempt
<1>2. queued \in Entry
  BY <1>1 DEF Entry
<1>3. /\ queued.status = "queued" /\ queued.attempts = 0
      /\ queued.claim = NoAttempt /\ ~queued.lapsed
  BY DEF Unwritten
<1> QED BY <1>2, <1>3 DEF Queue

LEMMA RegisterStep ==
    ASSUME IInv, NEW vouched \in BOOLEAN, Register(vouched)
    PROVE  IInv' /\ KeepsSettled
<1> DEFINE g == contact.generation + 1
           v == <<"verification", g>>
<1> USE GuestOutboxAssumption
<1>1. contact.generation \in Nat /\ g \in Generation /\ v \in Row /\ v[2] = g
  <2>1. contact.generation \in 0..MaxGenerations /\ contact.generation < MaxGenerations
    BY DEF IInv, TypeOK, Register
  <2>2. g \in Generation
    BY <2>1 DEF Generation
  <2>3. v \in Row /\ v[2] = g
    BY <2>2, RowFacts
  <2> QED BY <2>1, <2>2, <2>3
<1>2. /\ contact' = [generation |-> g, consent |-> TRUE, verified |-> vouched]
      /\ google' = vouched
      /\ UNCHANGED <<invited, asked, receipt, process, delivered>>
  BY DEF Register
<1>3. /\ Cancelled(Row) \in [Row -> Entry]
      /\ \A r \in Row : outbox[r].status = "absent" => Cancelled(Row)[r] = outbox[r]
  BY CancelledFacts DEF IInv, Pending
<1>4. outbox' \in [Row -> Entry] /\ \A r \in Row : RowMoves(r)
  <2>1. CASE vouched
    <3>1. outbox' = Cancelled(Row)
      BY <2>1 DEF Register
    <3> QED BY <3>1, CancelledMoves DEF IInv, RowMoves
  <2>2. CASE ~vouched
    <3>1. outbox' = Queue(Cancelled(Row), v)
      BY <2>2 DEF Register
    <3>2. outbox[v].status = "absent"
      BY <1>1 DEF IInv, RowsAreFresh
    <3>3. RowMoves(v)
      BY <1>1, <1>2, <1>3, <3>1, <3>2, QueueMoves DEF RowMoves
    <3>4. ASSUME NEW r \in Row, r # v PROVE RowMoves(r)
      <4>1. outbox'[r] = Cancelled(Row)[r]
        BY <1>1, <1>3, <3>1, <3>4, QueueMoves
      <4> QED BY <4>1, CancelledFacts DEF IInv, RowMoves, Closes
    <3>5. outbox' \in [Row -> Entry]
      BY <1>1, <1>3, <3>1, QueueMoves
    <3> QED BY <3>3, <3>4, <3>5
  <2> QED BY <2>1, <2>2
<1>5. \A r \in Row, n \in Attempt : ReceiptMoves(r, n)
  BY <1>2 DEF ReceiptMoves
<1>6. ConsentHasAnAddress' /\ VerifiedByItsOwnEmail'
  BY <1>1, <1>2 DEF ConsentHasAnAddress, VerifiedByItsOwnEmail
<1>7. contact'.generation >= contact.generation
  BY <1>1, <1>2
<1>8. contact' \in [generation : 0..MaxGenerations, consent : BOOLEAN, verified : BOOLEAN]
  BY <1>1, <1>2 DEF Generation
<1> QED BY <1>2, <1>4, <1>5, <1>6, <1>7, <1>8, TableStep DEF IInv, TypeOK

LEMMA DisableStep ==
    ASSUME IInv, Disable
    PROVE  IInv' /\ KeepsSettled
<1>1. outbox' \in [Row -> Entry] /\ \A r \in Row : RowMoves(r)
  BY CancelledMoves DEF IInv, Disable, RowMoves
<1>2. /\ contact.generation \in Nat
      /\ contact' \in [generation : 0..MaxGenerations, consent : BOOLEAN, verified : BOOLEAN]
      /\ contact'.generation = contact.generation + 1
      /\ contact'.consent = FALSE
  <2>1. /\ contact \in [generation : 0..MaxGenerations, consent : BOOLEAN,
                          verified : BOOLEAN]
        /\ contact.generation \in 1..(MaxGenerations - 1)
        /\ contact' = [contact EXCEPT !.generation = contact.generation + 1,
                                      !.consent = FALSE]
    BY DEF IInv, TypeOK, Disable
  <2>2. contact.generation \in Nat /\ contact.generation + 1 \in 0..MaxGenerations
    BY <2>1, GuestOutboxAssumption
  <2>3. contact'.generation = contact.generation + 1 /\ contact'.consent = FALSE
    BY <2>1
  <2>4. contact' \in [generation : 0..MaxGenerations, consent : BOOLEAN, verified : BOOLEAN]
    BY <2>1, <2>2
  <2> QED BY <2>2, <2>3, <2>4
<1>3. \A r \in Row, n \in Attempt : ReceiptMoves(r, n)
  BY DEF Disable, ReceiptMoves
<1>4. ConsentHasAnAddress' /\ VerifiedByItsOwnEmail'
  BY <1>2 DEF ConsentHasAnAddress, VerifiedByItsOwnEmail
<1>5. contact'.generation >= contact.generation
  BY <1>2
<1> QED BY <1>1, <1>2, <1>3, <1>4, <1>5, TableStep DEF IInv, TypeOK, Disable

LEMMA VerifyStep ==
    ASSUME IInv, NEW g \in Generation, Verify(g)
    PROVE  IInv' /\ KeepsSettled
<1>1. outbox' \in [Row -> Entry] /\ \A r \in Row : RowMoves(r)
  BY CancelledMoves DEF IInv, Verify, RowMoves
<1>2. /\ contact.generation \in Nat
      /\ contact' \in [generation : 0..MaxGenerations, consent : BOOLEAN, verified : BOOLEAN]
      /\ contact'.generation = contact.generation
  <2>1. /\ contact \in [generation : 0..MaxGenerations, consent : BOOLEAN,
                          verified : BOOLEAN]
        /\ contact' = [contact EXCEPT !.verified = TRUE]
    BY DEF IInv, TypeOK, Verify
  <2>2. contact.generation \in Nat
    BY <2>1, GuestOutboxAssumption
  <2>3. contact' \in [generation : 0..MaxGenerations, consent : BOOLEAN, verified : BOOLEAN]
    BY <2>1
  <2>4. contact'.generation = contact.generation
    BY <2>1
  <2> QED BY <2>2, <2>3, <2>4
<1>3. \A r \in Row, n \in Attempt : ReceiptMoves(r, n)
  BY DEF Verify, ReceiptMoves
<1>4. ConsentHasAnAddress' /\ VerifiedByItsOwnEmail'
  BY <1>2 DEF IInv, ConsentHasAnAddress, VerifiedByItsOwnEmail, Verify, Confirmable
<1>5. contact'.generation >= contact.generation
  BY <1>2
<1> QED BY <1>1, <1>2, <1>3, <1>4, <1>5, TableStep DEF IInv, TypeOK, Verify, Confirmable

LEMMA LeaveStep ==
    ASSUME IInv, Settle \/ Withdraw \/ LinkExpires \/ LinkIsReissued
    PROVE  IInv' /\ KeepsSettled
<1>1. UNCHANGED <<contact, google, outbox, receipt, process, delivered>>
  BY DEF Settle, Withdraw, LinkExpires, LinkIsReissued
<1>2. invited' \in {"live", "expired", "withdrawn"} /\ asked' \in BOOLEAN
  BY DEF IInv, TypeOK, Settle, Withdraw, LinkExpires, LinkIsReissued
<1>3. \A r \in Row : RowMoves(r)
  BY <1>1 DEF RowMoves
<1>4. \A r \in Row, n \in Attempt : ReceiptMoves(r, n)
  BY <1>1 DEF ReceiptMoves
<1>5. contact.generation \in Nat
  BY GuestOutboxAssumption DEF IInv, TypeOK
<1>6. ConsentHasAnAddress' /\ VerifiedByItsOwnEmail'
  BY <1>1 DEF IInv, ConsentHasAnAddress, VerifiedByItsOwnEmail
<1> QED BY <1>1, <1>2, <1>3, <1>4, <1>5, <1>6, TableStep DEF IInv, TypeOK, Entry

\* A dispatcher goes where it holds no claim.
LEMMA FreeMove ==
    ASSUME TypeOK, NEW p \in Dispatcher,
           \/ /\ process[p].at \notin Attempting
              /\ \E to \in Locations \ Attempting : Goes(p, to)
           \/ Proceeds(p)
           \/ process' = [process EXCEPT ![p] = [Starting EXCEPT !.at = "done"]]
           \/ process' = process
    PROVE  /\ process' \in [Dispatcher -> [at : Locations, row : Row \cup {NoRow},
                                           attempt : Attempt \cup {NoAttempt}]]
           /\ \A q \in Dispatcher : process'[q].at \in Attempting => process'[q] = process[q]
<1> DEFINE Standing == [at : Locations, row : Row \cup {NoRow},
                        attempt : Attempt \cup {NoAttempt}]
<1>1. \A to \in Locations : [Starting EXCEPT !.at = to] \in Standing
  BY DEF Starting
<1>2. \A to \in Locations : [process[p] EXCEPT !.at = to] \in Standing
  <2>1. process[p] \in Standing
    BY DEF TypeOK
  <2>2. \A row \in Standing, to \in Locations : [row EXCEPT !.at = to] \in Standing
    OBVIOUS
  <2> QED BY <2>1, <2>2
<1>3. "claim" \in Locations \ Attempting /\ "done" \in Locations \ Attempting
  BY DEF Locations, Attempting
<1>4. \A to : [Starting EXCEPT !.at = to].at = to
  BY DEF Starting
<1>5. \A to : [process[p] EXCEPT !.at = to].at = to
  BY DEF TypeOK
<1>6. CASE process[p].at \notin Attempting /\ \E to \in Locations \ Attempting : Goes(p, to)
  BY <1>2, <1>5, <1>6 DEF TypeOK, Goes
<1>7. CASE Proceeds(p)
  BY <1>1, <1>3, <1>4, <1>7 DEF TypeOK, Proceeds
<1>8. CASE process' = [process EXCEPT ![p] = [Starting EXCEPT !.at = "done"]]
  BY <1>1, <1>3, <1>4, <1>8 DEF TypeOK
<1>9. CASE process' = process
  BY <1>9 DEF TypeOK
<1> QED BY <1>6, <1>7, <1>8, <1>9

\* A step of the system, not of the guest, that moves rows and receipts.
LEMMA SystemStep ==
    ASSUME IInv, guestVars' = guestVars, delivered' = delivered,
           \A r \in Row : RowMoves(r),
           \A r \in Row, n \in Attempt : ReceiptMoves(r, n),
           outbox' \in [Row -> Entry],
           receipt' \in [Row -> [Attempt -> {"none", "authorized", "accepted", "failed",
                                             "unknown"}]],
           process' \in [Dispatcher -> [at : Locations, row : Row \cup {NoRow},
                                        attempt : Attempt \cup {NoAttempt}]],
           \A q \in Dispatcher : process'[q].at \in Attempting => process'[q] = process[q]
    PROVE  IInv' /\ KeepsSettled
<1>1. contact.generation \in Nat
  BY GuestOutboxAssumption DEF IInv, TypeOK
<1>2. /\ contact' \in [generation : 0..MaxGenerations, consent : BOOLEAN, verified : BOOLEAN]
      /\ google' \in BOOLEAN /\ invited' \in {"live", "expired", "withdrawn"} /\ asked' \in BOOLEAN
  BY DEF IInv, TypeOK, guestVars
<1>3. /\ ConsentHasAnAddress' /\ VerifiedByItsOwnEmail'
      /\ contact'.generation >= contact.generation
  BY <1>1 DEF IInv, ConsentHasAnAddress, VerifiedByItsOwnEmail, guestVars
<1> QED BY <1>2, <1>3, TableStep

LEMMA EnqueueStep ==
    ASSUME IInv, NEW p \in Dispatcher, EnqueueReminders(p)
    PROVE  IInv' /\ KeepsSettled
<1> DEFINE r == <<"reminder", contact.generation>>
           due == contact.consent /\ contact.verified /\ LinkWorks /\ asked
           queues == due /\ outbox[r].status = "absent"
<1>1. /\ process[p].at = "start" /\ Goes(p, "adopt")
      /\ outbox' = IF queues THEN Queue(outbox, r) ELSE outbox
      /\ UNCHANGED <<guestVars, receipt, delivered>>
  BY DEF EnqueueReminders
<1>2. contact.generation \in Nat /\ contact'.generation = contact.generation
  BY <1>1, GuestOutboxAssumption DEF IInv, TypeOK, guestVars
<1>3. outbox \in [Row -> Entry]
  BY DEF IInv, TypeOK, Entry
<1>4. outbox' \in [Row -> Entry] /\ \A q \in Row : RowMoves(q)
  <2>1. CASE queues /\ contact.generation \in Generation
    <3>1. r \in Row /\ r[2] = contact.generation
      BY <2>1, RowFacts
    <3>2. RowMoves(r)
      BY <1>1, <1>2, <1>3, <2>1, <3>1, QueueMoves DEF RowMoves
    <3>3. ASSUME NEW q \in Row, q # r PROVE RowMoves(q)
      BY <1>1, <1>3, <2>1, <3>1, <3>3, QueueMoves DEF RowMoves
    <3> QED BY <1>1, <1>3, <2>1, <3>1, <3>2, <3>3, QueueMoves
  <2>2. CASE queues /\ contact.generation \notin Generation
    <3>1. r \notin Row
      BY <2>2 DEF Row
    <3>2. outbox' = outbox
      BY <1>1, <1>3, <2>2, <3>1 DEF Queue
    <3> QED BY <1>3, <3>2 DEF RowMoves
  <2>3. CASE ~queues
    BY <1>1, <1>3, <2>3 DEF RowMoves
  <2> QED BY <2>1, <2>2, <2>3
<1>5. \A q \in Row, n \in Attempt : ReceiptMoves(q, n)
  BY <1>1 DEF ReceiptMoves
<1>6. process[p].at \notin Attempting /\ "adopt" \in Locations \ Attempting
  BY <1>1 DEF Attempting, Locations
<1>7. receipt' \in [Row -> [Attempt -> {"none", "authorized", "accepted", "failed", "unknown"}]]
  BY <1>1 DEF IInv, TypeOK
<1> QED BY <1>1, <1>4, <1>5, <1>6, <1>7, FreeMove, SystemStep DEF IInv

LEMMA AdoptStep ==
    ASSUME IInv, NEW p \in Dispatcher, AdoptAccepted(p)
    PROVE  IInv' /\ KeepsSettled
<1> DEFINE adopted(r) == Pending(r) /\ \E n \in Attempt : receipt[r][n] = "accepted"
<1>1. /\ process[p].at = "adopt" /\ Goes(p, "age")
      /\ outbox' = [r \in Row |-> IF adopted(r)
                                  THEN [Close(r, "sent") EXCEPT !.unknown = FALSE]
                                  ELSE outbox[r]]
      /\ UNCHANGED <<guestVars, receipt, delivered>>
  BY DEF AdoptAccepted
<1>2. ASSUME NEW r \in Row PROVE RowMoves(r) /\ outbox'[r] \in Entry
  <2>1. CASE adopted(r)
    <3>1. delivered[r] > 0
      BY <2>1 DEF IInv, AcceptedWereSent
    <3>2. outbox'[r] = [Close(r, "sent") EXCEPT !.unknown = FALSE]
      BY <1>1, <2>1
    <3>3. TypeOK
      BY DEF IInv
    <3>4. LET told == [Close(r, "sent") EXCEPT !.unknown = FALSE]
          IN  /\ told \in Entry /\ told.status = "sent"
              /\ told.attempts = outbox[r].attempts /\ told.claim = NoAttempt
              /\ ~told.lapsed /\ told.unknown = FALSE
      BY <3>3, CloseFacts
    <3>5. outbox'[r] \in Entry /\ Closes(r, "sent")
      BY <2>1, <3>2, <3>4 DEF Closes
    <3> QED BY <3>1, <3>5 DEF RowMoves
  <2>2. CASE ~adopted(r)
    BY <1>1, <2>2 DEF IInv, TypeOK, Entry, RowMoves
  <2> QED BY <2>1, <2>2
<1>3. outbox' \in [Row -> Entry]
  BY <1>1, <1>2
<1>4. \A r \in Row, n \in Attempt : ReceiptMoves(r, n)
  BY <1>1 DEF ReceiptMoves
<1>5. process[p].at \notin Attempting /\ "age" \in Locations \ Attempting
  BY <1>1 DEF Attempting, Locations
<1>6. receipt' \in [Row -> [Attempt -> {"none", "authorized", "accepted", "failed", "unknown"}]]
  BY <1>1 DEF IInv, TypeOK
<1> QED BY <1>1, <1>2, <1>3, <1>4, <1>5, <1>6, FreeMove, SystemStep DEF IInv

LEMMA AgeStep ==
    ASSUME IInv, NEW p \in Dispatcher, AgeReceipts(p)
    PROVE  IInv' /\ KeepsSettled
<1> DEFINE Results == {"none", "authorized", "accepted", "failed", "unknown"}
<1>1. process[p].at = "age" /\ Goes(p, "abandon") /\ UNCHANGED <<guestVars, outbox, delivered>>
  BY DEF AgeReceipts
<1>2. PICK old \in SUBSET {r \in Row : outbox[r].lapsed
                                      /\ receipt[r][outbox[r].claim] = "authorized"} :
         receipt' = [r \in Row |-> IF r \in old
                       THEN [receipt[r] EXCEPT ![outbox[r].claim] = "unknown"] ELSE receipt[r]]
  BY DEF AgeReceipts
<1>3. ASSUME NEW r \in Row PROVE receipt'[r] \in [Attempt -> Results]
  BY <1>2 DEF IInv, TypeOK
<1>4. ASSUME NEW r \in Row, NEW n \in Attempt PROVE ReceiptMoves(r, n)
  <2>1. CASE r \in old /\ outbox[r].claim = n
    <3>1. receipt[r][n] = "authorized" /\ receipt'[r][n] = "unknown"
      BY <1>2, <2>1 DEF IInv, TypeOK
    <3>2. n <= outbox[r].attempts
      <4>1. outbox[r].attempts \in Nat /\ n \in Nat
        BY DEF IInv, TypeOK, Attempt
      <4> QED BY <3>1, <4>1 DEF IInv, RowsAreFresh
    <3>3. \A q \in Dispatcher :
             ~(process'[q].at = "authorize" /\ process'[q].row = r /\ process'[q].attempt = n)
      <4>1. \A q \in Dispatcher : process'[q].at = "authorize" => process'[q] = process[q]
        BY <1>1 DEF Goes, IInv, TypeOK
      <4> QED BY <3>1, <4>1 DEF IInv, AuthorizedOnce
    <3> QED BY <3>1, <3>2, <3>3 DEF ReceiptMoves
  <2>2. CASE ~(r \in old /\ outbox[r].claim = n)
    BY <1>2, <2>2 DEF IInv, TypeOK, ReceiptMoves
  <2> QED BY <2>1, <2>2
<1>5. receipt' \in [Row -> [Attempt -> Results]]
  BY <1>2, <1>3
<1>6. outbox' \in [Row -> Entry] /\ \A r \in Row : RowMoves(r)
  BY <1>1 DEF IInv, TypeOK, Entry, RowMoves
<1>7. process[p].at \notin Attempting /\ "abandon" \in Locations \ Attempting
  BY <1>1 DEF Attempting, Locations
<1> QED BY <1>1, <1>4, <1>5, <1>6, <1>7, FreeMove, SystemStep DEF IInv

\* A claim that lapsed is closed as failed: nobody can tell whether its email was
\* sent, or the row has no attempt left.
LEMMA FailLapsed ==
    ASSUME IInv, NEW closes \in [Row -> BOOLEAN], NEW unknown \in BOOLEAN,
           \A r \in Row : closes[r] => outbox[r].lapsed
                                       /\ (unknown \/ outbox[r].attempts >= MaxAttempts),
           outbox' = [r \in Row |-> IF closes[r]
                                    THEN [Close(r, "failed") EXCEPT !.unknown = unknown]
                                    ELSE outbox[r]]
    PROVE  outbox' \in [Row -> Entry] /\ \A r \in Row : RowMoves(r)
<1>1. ASSUME NEW r \in Row PROVE RowMoves(r) /\ outbox'[r] \in Entry
  <2>1. CASE closes[r]
    <3>1. outbox'[r] = [Close(r, "failed") EXCEPT !.unknown = unknown]
      BY <2>1
    <3>2. Pending(r)
      BY <2>1 DEF IInv, RowsAreFresh, Pending
    <3>3. TypeOK
      BY DEF IInv
    <3>4. LET told == [Close(r, "failed") EXCEPT !.unknown = unknown]
          IN  /\ told \in Entry /\ told.status = "failed"
              /\ told.attempts = outbox[r].attempts /\ told.claim = NoAttempt
              /\ ~told.lapsed /\ told.unknown = unknown
      BY <3>3, CloseFacts
    <3>5. outbox'[r] \in Entry /\ Closes(r, "failed") /\ outbox'[r].unknown = unknown
      BY <2>1, <3>1, <3>2, <3>4 DEF Closes
    <3> QED BY <2>1, <3>5 DEF RowMoves
  <2>2. CASE ~closes[r]
    BY <2>2 DEF IInv, TypeOK, Entry, RowMoves
  <2> QED BY <2>1, <2>2
<1> QED BY <1>1

LEMMA AbandonStep ==
    ASSUME IInv, NEW p \in Dispatcher, AbandonUncertain(p)
    PROVE  IInv' /\ KeepsSettled
<1> DEFINE closes == [r \in Row |-> outbox[r].lapsed /\ Uncertain(r)]
<1>1. /\ process[p].at = "abandon" /\ Goes(p, "exhaust")
      /\ outbox' = [r \in Row |-> IF closes[r]
                                  THEN [Close(r, "failed") EXCEPT !.unknown = TRUE]
                                  ELSE outbox[r]]
      /\ UNCHANGED <<guestVars, receipt, delivered>>
  BY DEF AbandonUncertain
<1>2. closes \in [Row -> BOOLEAN] /\ \A r \in Row : closes[r] => outbox[r].lapsed
  BY DEF IInv, TypeOK, Uncertain
<1>3. outbox' \in [Row -> Entry] /\ \A r \in Row : RowMoves(r)
  BY <1>1, <1>2, FailLapsed
<1>4. \A r \in Row, n \in Attempt : ReceiptMoves(r, n)
  BY <1>1 DEF ReceiptMoves
<1>5. process[p].at \notin Attempting /\ "exhaust" \in Locations \ Attempting
  BY <1>1 DEF Attempting, Locations
<1>6. receipt' \in [Row -> [Attempt -> {"none", "authorized", "accepted", "failed", "unknown"}]]
  BY <1>1 DEF IInv, TypeOK
<1> QED BY <1>1, <1>3, <1>4, <1>5, <1>6, FreeMove, SystemStep DEF IInv

LEMMA ExhaustStep ==
    ASSUME IInv, NEW p \in Dispatcher, FailExhausted(p)
    PROVE  IInv' /\ KeepsSettled
<1> DEFINE closes == [r \in Row |-> outbox[r].lapsed /\ outbox[r].attempts >= MaxAttempts]
<1>1. /\ Proceeds(p)
      /\ outbox' = [r \in Row |-> IF closes[r]
                                  THEN [Close(r, "failed") EXCEPT !.unknown = FALSE]
                                  ELSE outbox[r]]
      /\ UNCHANGED <<guestVars, receipt, delivered>>
  BY DEF FailExhausted
<1>2. /\ closes \in [Row -> BOOLEAN]
      /\ \A r \in Row : closes[r] => outbox[r].lapsed /\ outbox[r].attempts >= MaxAttempts
  BY DEF IInv, TypeOK
<1>3. outbox' \in [Row -> Entry] /\ \A r \in Row : RowMoves(r)
  BY <1>1, <1>2, FailLapsed
<1>4. \A r \in Row, n \in Attempt : ReceiptMoves(r, n)
  BY <1>1 DEF ReceiptMoves
<1>5. receipt' \in [Row -> [Attempt -> {"none", "authorized", "accepted", "failed", "unknown"}]]
  BY <1>1 DEF IInv, TypeOK
<1> QED BY <1>1, <1>3, <1>4, <1>5, FreeMove, SystemStep DEF IInv

LEMMA EndStep ==
    ASSUME IInv, NEW p \in Dispatcher, EndDispatch(p)
    PROVE  IInv' /\ KeepsSettled
<1>1. /\ process' = [process EXCEPT ![p] = [Starting EXCEPT !.at = "done"]]
      /\ UNCHANGED <<guestVars, outbox, receipt, delivered>>
  BY DEF EndDispatch
<1>2. outbox' \in [Row -> Entry] /\ \A r \in Row : RowMoves(r)
  BY <1>1 DEF IInv, TypeOK, Entry, RowMoves
<1>3. \A r \in Row, n \in Attempt : ReceiptMoves(r, n)
  BY <1>1 DEF ReceiptMoves
<1>4. receipt' \in [Row -> [Attempt -> {"none", "authorized", "accepted", "failed", "unknown"}]]
  BY <1>1 DEF IInv, TypeOK
<1> QED BY <1>1, <1>2, <1>3, <1>4, FreeMove, SystemStep DEF IInv

LEMMA LapseStep ==
    ASSUME IInv, NEW r \in Row, LeaseLapses(r)
    PROVE  IInv' /\ KeepsSettled
<1>1. /\ outbox[r].status = "sending"
      /\ outbox' = [outbox EXCEPT ![r] = [outbox[r] EXCEPT !.lapsed = TRUE]]
      /\ UNCHANGED <<guestVars, receipt, process, delivered>>
  BY DEF LeaseLapses
<1>2. outbox \in [Row -> Entry]
  BY DEF IInv, TypeOK, Entry
<1>3. outbox' \in [Row -> Entry]
  BY <1>1, <1>2 DEF Entry
<1>4. ASSUME NEW q \in Row PROVE RowMoves(q)
  BY <1>1, <1>2 DEF Entry, RowMoves
<1>5. \A q \in Row, n \in Attempt : ReceiptMoves(q, n)
  BY <1>1 DEF ReceiptMoves
<1>6. receipt' \in [Row -> [Attempt -> {"none", "authorized", "accepted", "failed", "unknown"}]]
  BY <1>1 DEF IInv, TypeOK
<1>7. /\ process' \in [Dispatcher -> [at : Locations, row : Row \cup {NoRow},
                                      attempt : Attempt \cup {NoAttempt}]]
      /\ \A q \in Dispatcher : process'[q].at \in Attempting => process'[q] = process[q]
  BY <1>1 DEF IInv, TypeOK
<1> QED BY <1>1, <1>3, <1>4, <1>5, <1>6, <1>7, SystemStep

-----------------------------------------------------------------------------
(***************************************************************************)
(* A dispatcher ends its attempt                                           *)
(***************************************************************************)

LEMMA BusyFacts ==
    ASSUME IInv, NEW p \in Dispatcher, process[p].at \in Attempting
    PROVE  /\ process[p].row \in Row
           /\ process[p].attempt \in Attempt
           /\ process[p].attempt <= outbox[process[p].row].attempts
           /\ Claims(p, process[p].row) => /\ outbox[process[p].row].status = "sending"
                                           /\ Pending(process[p].row)
<1>1. /\ process[p].row \in Row /\ process[p].attempt \in Attempt
      /\ process[p].attempt <= outbox[process[p].row].attempts
  BY DEF IInv, AttemptsAreOwned
<1>2. process[p].attempt # NoAttempt
  BY <1>1 DEF Attempt, NoAttempt
<1> QED BY <1>1, <1>2 DEF IInv, TypeOK, Claims, Pending

LEMMA ObsoleteStep ==
    ASSUME IInv, NEW p \in Dispatcher, CancelObsolete(p)
    PROVE  IInv' /\ KeepsSettled
<1> DEFINE r == process[p].row
<1>1. /\ process[p].at = "obsolete" /\ Proceeds(p)
      /\ outbox' = IF Claims(p, r) THEN [outbox EXCEPT ![r] = Close(r, "cancelled")] ELSE outbox
      /\ UNCHANGED <<guestVars, receipt, delivered>>
  BY DEF CancelObsolete
<1>2. TypeOK /\ r \in Row /\ (Claims(p, r) => Pending(r))
  BY <1>1, BusyFacts DEF IInv, Attempting
<1>3. LET plain == Close(r, "cancelled")
      IN  /\ plain \in Entry /\ plain.status = "cancelled"
          /\ plain.attempts = outbox[r].attempts /\ plain.claim = NoAttempt
          /\ ~plain.lapsed
  BY <1>2, CloseFacts
<1>4. outbox \in [Row -> Entry]
  BY <1>2 DEF TypeOK, Entry
<1>5. outbox' \in [Row -> Entry]
  BY <1>1, <1>2, <1>3, <1>4
<1>6. ASSUME NEW q \in Row PROVE RowMoves(q)
  BY <1>1, <1>2, <1>3, <1>4 DEF RowMoves, Closes
<1>7. \A q \in Row, n \in Attempt : ReceiptMoves(q, n)
  BY <1>1 DEF ReceiptMoves
<1>8. receipt' \in [Row -> [Attempt -> {"none", "authorized", "accepted", "failed", "unknown"}]]
  BY <1>1, <1>2 DEF TypeOK
<1> QED BY <1>1, <1>2, <1>5, <1>6, <1>7, <1>8, FreeMove, SystemStep

\* The row of an email that was taken is marked sent, if it still is the dispatcher's.
LEMMA MarkSentMoves ==
    ASSUME IInv, NEW p \in Dispatcher, process[p].at \in {"record", "recordRow"}, MarkSent(p)
    PROVE  /\ outbox' \in [Row -> Entry]
           /\ \A q \in Row : RowMoves(q)
<1> DEFINE r == process[p].row
<1>1. TypeOK /\ r \in Row /\ (Claims(p, r) => Pending(r)) /\ delivered[r] > 0
  BY BusyFacts DEF IInv, Attempting, AcceptedWereSent
<1>2. LET plain == Close(r, "sent")
      IN  /\ plain \in Entry /\ plain.status = "sent"
          /\ plain.attempts = outbox[r].attempts /\ plain.claim = NoAttempt
          /\ ~plain.lapsed
  BY <1>1, CloseFacts
<1>3. outbox' = IF Claims(p, r) THEN [outbox EXCEPT ![r] = Close(r, "sent")] ELSE outbox
  BY DEF MarkSent
<1>4. outbox \in [Row -> Entry]
  BY <1>1 DEF TypeOK, Entry
<1>5. outbox' \in [Row -> Entry]
  BY <1>1, <1>2, <1>3, <1>4
<1>6. ASSUME NEW q \in Row PROVE RowMoves(q)
  BY <1>1, <1>2, <1>3, <1>4 DEF RowMoves, Closes
<1> QED BY <1>5, <1>6

\* An attempt of a dispatcher that is past its authorization and gives it up.
LEMMA NobodyElseAuthorizes ==
    ASSUME IInv, NEW p \in Dispatcher, process[p].at \in Attempting \ {"authorize"},
           \A q \in Dispatcher : process'[q].at = "authorize" => process'[q] = process[q]
    PROVE  \A q \in Dispatcher : ~(/\ process'[q].at = "authorize"
                                   /\ process'[q].row = process[p].row
                                   /\ process'[q].attempt = process[p].attempt)
BY DEF IInv, AttemptsAreOwned, Attempting

LEMMA AcceptanceStep ==
    ASSUME IInv, NEW p \in Dispatcher, RecordAcceptance(p)
    PROVE  IInv' /\ KeepsSettled
<1> DEFINE r == process[p].row
           n == process[p].attempt
           Results == {"none", "authorized", "accepted", "failed", "unknown"}
<1>1. /\ process[p].at = "record" /\ MarkAccepted(p) /\ MarkSent(p) /\ Proceeds(p)
      /\ UNCHANGED <<guestVars, delivered>>
  BY DEF RecordAcceptance
<1>2. r \in Row /\ n \in Attempt /\ n <= outbox[r].attempts /\ delivered[r] > 0
  BY <1>1, BusyFacts DEF IInv, Attempting, AcceptedWereSent
<1>3. TypeOK /\ receipt \in [Row -> [Attempt -> Results]]
  BY DEF IInv, TypeOK
<1>4. receipt' = [receipt EXCEPT ![r] = [receipt[r] EXCEPT ![n] = "accepted"]]
  BY <1>1 DEF MarkAccepted
<1>5. receipt' \in [Row -> [Attempt -> Results]]
  BY <1>2, <1>3, <1>4
<1>6. \A q \in Dispatcher : process'[q].at \in Attempting => process'[q] = process[q]
  BY <1>1, <1>3, FreeMove
<1>7. ASSUME NEW q \in Row, NEW m \in Attempt PROVE ReceiptMoves(q, m)
  <2>1. CASE q = r /\ m = n
    <3>1. receipt'[q][m] = "accepted"
      BY <1>2, <1>3, <1>4, <2>1
    <3>2. \A v \in Dispatcher : ~(/\ process'[v].at = "authorize"
                                  /\ process'[v].row = r /\ process'[v].attempt = n)
      BY <1>1, <1>6, NobodyElseAuthorizes DEF Attempting
    <3> QED BY <1>2, <2>1, <3>1, <3>2 DEF ReceiptMoves
  <2>2. CASE ~(q = r /\ m = n)
    BY <1>2, <1>3, <1>4, <2>2 DEF ReceiptMoves
  <2> QED BY <2>1, <2>2
<1>8. outbox' \in [Row -> Entry] /\ \A q \in Row : RowMoves(q)
  BY <1>1, MarkSentMoves
<1>9. process' \in [Dispatcher -> [at : Locations, row : Row \cup {NoRow},
                                   attempt : Attempt \cup {NoAttempt}]]
  BY <1>1, <1>3, FreeMove
<1> QED BY <1>1, <1>5, <1>6, <1>7, <1>8, <1>9, SystemStep

LEMMA RecordRowStep ==
    ASSUME IInv, NEW p \in Dispatcher, RecordRow(p)
    PROVE  IInv' /\ KeepsSettled
<1>1. /\ process[p].at = "recordRow" /\ MarkSent(p) /\ Proceeds(p)
      /\ UNCHANGED <<guestVars, receipt, delivered>>
  BY DEF RecordRow
<1>2. outbox' \in [Row -> Entry] /\ \A q \in Row : RowMoves(q)
  BY <1>1, MarkSentMoves
<1>3. \A q \in Row, m \in Attempt : ReceiptMoves(q, m)
  BY <1>1 DEF ReceiptMoves
<1>4. receipt' \in [Row -> [Attempt -> {"none", "authorized", "accepted", "failed", "unknown"}]]
  BY <1>1 DEF IInv, TypeOK
<1>5. TypeOK
  BY DEF IInv
<1> QED BY <1>1, <1>2, <1>3, <1>4, <1>5, FreeMove, SystemStep

LEMMA FailureStep ==
    ASSUME IInv, NEW p \in Dispatcher, RecordFailure(p)
    PROVE  IInv' /\ KeepsSettled
<1> DEFINE r == process[p].row
           n == process[p].attempt
           unknown == process[p].at = "unknown"
           Results == {"none", "authorized", "accepted", "failed", "unknown"}
<1>1. /\ process[p].at \in {"failed", "unknown"}
      /\ receipt' = IF receipt[r][n] = "authorized"
                    THEN [receipt EXCEPT ![r] = [receipt[r] EXCEPT
                                           ![n] = IF unknown THEN "unknown" ELSE "failed"]]
                    ELSE receipt
      /\ outbox' = IF Claims(p, r)
                   THEN [outbox EXCEPT ![r] = [Close(r, "failed") EXCEPT !.unknown = unknown]]
                   ELSE outbox
      /\ Proceeds(p)
      /\ UNCHANGED <<guestVars, delivered>>
  BY DEF RecordFailure
<1>2. unknown \in BOOLEAN /\ (process[p].at = "failed" <=> ~unknown)
  BY <1>1
<1> HIDE DEF unknown
<1>3. r \in Row /\ n \in Attempt /\ n <= outbox[r].attempts /\ (Claims(p, r) => Pending(r))
  BY <1>1, BusyFacts DEF Attempting
<1>4. TypeOK /\ receipt \in [Row -> [Attempt -> Results]] /\ outbox \in [Row -> Entry]
  BY DEF IInv, TypeOK, Entry
<1>5. receipt' \in [Row -> [Attempt -> Results]]
  BY <1>1, <1>3, <1>4
<1>6. \A q \in Dispatcher : process'[q].at \in Attempting => process'[q] = process[q]
  BY <1>1, <1>4, FreeMove
<1>7. LET told == [Close(r, "failed") EXCEPT !.unknown = unknown]
      IN  /\ told \in Entry /\ told.status = "failed"
          /\ told.attempts = outbox[r].attempts /\ told.claim = NoAttempt
          /\ ~told.lapsed /\ told.unknown = unknown
  BY <1>3, <1>4, <1>2, CloseFacts
<1>8. outbox' \in [Row -> Entry]
  BY <1>1, <1>3, <1>4, <1>7
<1>9. ASSUME NEW q \in Row PROVE RowMoves(q)
  <2>1. CASE Claims(p, r) /\ q = r
    <3>1. Closes(r, "failed") /\ outbox'[r].unknown = unknown
      BY <1>1, <1>3, <1>4, <1>7, <2>1 DEF Closes
    <3>2. unknown \/ ~Hot(r)
      BY <1>2, <2>1 DEF IInv, RefusedWereNotSent
    <3> QED BY <2>1, <3>1, <3>2 DEF RowMoves
  <2>2. CASE ~(Claims(p, r) /\ q = r)
    BY <1>1, <1>3, <1>4, <2>2 DEF RowMoves
  <2> QED BY <2>1, <2>2
<1>10. ASSUME NEW q \in Row, NEW m \in Attempt PROVE ReceiptMoves(q, m)
  <2>1. CASE q = r /\ m = n /\ receipt[r][n] = "authorized"
    <3>1. receipt'[r][n] \in {"unknown", "failed"}
      BY <1>1, <1>3, <1>4, <2>1
    <3>2. outbox'[r].claim # n
      <4>1. n # NoAttempt
        BY <1>3 DEF Attempt, NoAttempt
      <4> QED BY <1>1, <1>3, <1>4, <1>7, <4>1 DEF Claims
    <3>3. \A v \in Dispatcher : ~(/\ process'[v].at = "authorize"
                                  /\ process'[v].row = r /\ process'[v].attempt = n)
      BY <1>1, <1>6, NobodyElseAuthorizes DEF Attempting
    <3> QED BY <1>3, <2>1, <3>1, <3>2, <3>3 DEF ReceiptMoves
  <2>2. CASE ~(q = r /\ m = n /\ receipt[r][n] = "authorized")
    BY <1>1, <1>3, <1>4, <2>2 DEF ReceiptMoves
  <2> QED BY <2>1, <2>2
<1>11. process' \in [Dispatcher -> [at : Locations, row : Row \cup {NoRow},
                                    attempt : Attempt \cup {NoAttempt}]]
  BY <1>1, <1>4, FreeMove
<1> QED BY <1>1, <1>5, <1>6, <1>8, <1>9, <1>10, <1>11, SystemStep

-----------------------------------------------------------------------------
(***************************************************************************)
(* A dispatcher goes on with its attempt                                   *)
(***************************************************************************)

LEMMA AttemptStep ==
    ASSUME IInv, NEW p \in Dispatcher, process[p].at \in Attempting,
           NEW to \in Attempting \ {"authorize"}, Goes(p, to),
           UNCHANGED <<guestVars, outbox>>,
           receipt' \in [Row -> [Attempt -> {"none", "authorized", "accepted", "failed",
                                             "unknown"}]],
           \A r \in Row, n \in Attempt :
              ~(r = process[p].row /\ n = process[p].attempt) => receipt'[r][n] = receipt[r][n],
           delivered' \in [Row -> Nat],
           \A r \in Row : delivered'[r] >= delivered[r]
    PROVE  /\ process'[p].at = to
           /\ process'[p].row = process[p].row /\ process'[p].attempt = process[p].attempt
           /\ \A q \in Dispatcher \ {p} : process'[q] = process[q]
           /\ TypeOK' /\ RowsAreFresh' /\ AttemptsAreOwned' /\ AuthorizedOnce'
           /\ ConsentHasAnAddress' /\ VerifiedByItsOwnEmail'
           /\ KeepsSettled
<1>1. /\ process'[p].at = to
      /\ process'[p].row = process[p].row /\ process'[p].attempt = process[p].attempt
      /\ \A q \in Dispatcher \ {p} : process'[q] = process[q]
      /\ process' \in [Dispatcher -> [at : Locations, row : Row \cup {NoRow},
                                      attempt : Attempt \cup {NoAttempt}]]
  <2> DEFINE Standing == [at : Locations, row : Row \cup {NoRow},
                          attempt : Attempt \cup {NoAttempt}]
             moved == [process[p] EXCEPT !.at = to]
  <2>1. to \in Locations /\ process \in [Dispatcher -> Standing]
    BY DEF Attempting, Locations, IInv, TypeOK
  <2>2. /\ moved \in Standing /\ moved.at = to
        /\ moved.row = process[p].row /\ moved.attempt = process[p].attempt
    BY <2>1, SMTT(30)
  <2>3. process' = [process EXCEPT ![p] = moved]
    BY DEF Goes
  <2> QED BY <2>1, <2>2, <2>3
<1>2. TypeOK'
  BY <1>1 DEF IInv, TypeOK, guestVars
<1>3. RowsAreFresh'
  <2>1. /\ process[p].row \in Row /\ process[p].attempt \in Attempt
        /\ process[p].attempt <= outbox[process[p].row].attempts
    BY BusyFacts
  <2>2. ASSUME NEW r \in Row, NEW n \in Attempt, n > outbox[r].attempts
        PROVE  receipt'[r][n] = "none"
    <3>1. outbox[r].attempts \in Nat /\ n \in Nat
      BY DEF IInv, TypeOK, Attempt
    <3>2. ~(r = process[p].row /\ n = process[p].attempt)
      BY <2>1, <2>2, <3>1
    <3> QED BY <2>2, <3>2 DEF IInv, RowsAreFresh
  <2> QED BY <2>2 DEF IInv, RowsAreFresh, guestVars
<1>4. AttemptsAreOwned'
  <2>1. /\ AttemptsAreOwned /\ outbox' = outbox
        /\ \A q \in Dispatcher :
              /\ process'[q].row = process[q].row
              /\ process'[q].attempt = process[q].attempt
              /\ process'[q].at \in Attempting <=> process[q].at \in Attempting
    BY <1>1 DEF IInv, guestVars
  <2> QED BY <2>1 DEF AttemptsAreOwned
<1>5. AuthorizedOnce'
  <2> SUFFICES ASSUME NEW q \in Dispatcher, process'[q].at = "authorize"
               PROVE  receipt'[process'[q].row][process'[q].attempt] = "none"
    BY DEF AuthorizedOnce
  <2>1. q # p /\ process'[q] = process[q]
    BY <1>1
  <2>2. /\ process[q].row \in Row /\ process[q].attempt \in Attempt
        /\ ~(process[q].row = process[p].row /\ process[q].attempt = process[p].attempt)
    BY <2>1 DEF IInv, AttemptsAreOwned, Attempting
  <2> QED BY <2>1, <2>2 DEF IInv, AuthorizedOnce
<1>6. VerifiedByItsOwnEmail'
  <2> SUFFICES ASSUME contact.verified, contact.consent, ~google
               PROVE  delivered'[<<"verification", contact.generation>>] > 0
    BY DEF VerifiedByItsOwnEmail, guestVars
  <2>1. delivered[<<"verification", contact.generation>>] > 0
    BY DEF IInv, VerifiedByItsOwnEmail
  <2>2. <<"verification", contact.generation>> \in Row
    BY RowFacts DEF IInv, ConsentHasAnAddress
  <2> QED BY <2>1, <2>2 DEF IInv, TypeOK
<1>7. ConsentHasAnAddress'
  BY DEF IInv, ConsentHasAnAddress, guestVars
<1>8. KeepsSettled
  BY DEF KeepsSettled
<1> QED BY <1>1, <1>2, <1>3, <1>4, <1>5, <1>6, <1>7, <1>8

LEMMA FailToAuthorizeStep ==
    ASSUME IInv, NEW p \in Dispatcher, FailToAuthorize(p)
    PROVE  IInv' /\ KeepsSettled
<1> DEFINE r == process[p].row
           n == process[p].attempt
<1>1. /\ process[p].at = "authorize" /\ Goes(p, "failed")
      /\ UNCHANGED <<guestVars, outbox, receipt, delivered>>
  BY DEF FailToAuthorize
<1>2. /\ process'[p].at = "failed" /\ process'[p].row = r /\ process'[p].attempt = n
      /\ \A q \in Dispatcher \ {p} : process'[q] = process[q]
      /\ TypeOK' /\ RowsAreFresh' /\ AttemptsAreOwned' /\ AuthorizedOnce'
      /\ ConsentHasAnAddress' /\ VerifiedByItsOwnEmail'
      /\ KeepsSettled
  BY <1>1, AttemptStep, SMTT(30) DEF IInv, TypeOK, Attempting
<1>3. r \in Row /\ n \in Attempt /\ (Claims(p, r) => outbox[r].status = "sending")
  BY <1>1, BusyFacts DEF Attempting
<1>4. \A q \in Row : Hot(q)' => Hot(q)
  BY <1>1, <1>2 DEF Hot
<1>5. SendersAreAlone'
  BY <1>1, <1>2 DEF IInv, SendersAreAlone
<1>6. RefusedWereNotSent'
  <2> SUFFICES ASSUME NEW q \in Dispatcher, process'[q].at \in {"obsolete", "failed"},
                      Claims(q, process[q].row)'
               PROVE  ~Hot(process[q].row)'
    BY DEF RefusedWereNotSent
  <2>1. CASE q = p
    <3>1. Claims(p, r)
      BY <1>1, <1>2, <2>1 DEF Claims
    <3>2. receipt[r][outbox[r].claim] = "none"
      BY <1>1, <3>1 DEF Claims, IInv, AuthorizedOnce
    <3>3. ~Blocked(r)
      BY <1>3, <3>1, <3>2 DEF Blocked
    <3> QED BY <1>2, <1>3, <1>4, <2>1, <3>3 DEF IInv, HotRowsAreBlocked
  <2>2. CASE q # p
    <3>1. process'[q] = process[q]
      BY <1>2, <2>2
    <3>2. Claims(q, process[q].row) /\ process[q].row \in Row
      BY <1>1, <3>1, BusyFacts DEF Claims, Attempting
    <3> QED BY <1>4, <3>1, <3>2 DEF IInv, RefusedWereNotSent
  <2> QED BY <2>1, <2>2
<1>7. HotRowsAreBlocked'
  BY <1>1, <1>4 DEF IInv, HotRowsAreBlocked, Blocked
<1>8. AcceptedWereSent'
  BY <1>1, <1>2 DEF IInv, AcceptedWereSent
<1>9. SentAtMostOnce'
  BY <1>1 DEF IInv, SentAtMostOnce
<1> QED BY <1>2, <1>5, <1>6, <1>7, <1>8, <1>9 DEF IInv

\* The receipt is committed under a claim nobody was authorized for before, so the
\* row was not blocked: no email of it was sent, and nobody else is about to.
LEMMA AuthorizeStep ==
    ASSUME IInv, NEW p \in Dispatcher, NEW fresh \in BOOLEAN, Authorize(p, fresh)
    PROVE  IInv' /\ KeepsSettled
<1> DEFINE r == process[p].row
           n == process[p].attempt
           sends == Claims(p, r) /\ ~outbox[r].lapsed /\ Current(r, fresh)
           to == IF sends THEN "send" ELSE "obsolete"
           Results == {"none", "authorized", "accepted", "failed", "unknown"}
<1>1. /\ process[p].at = "authorize" /\ Goes(p, to)
      /\ receipt' = IF sends
                    THEN [receipt EXCEPT ![r] = [receipt[r] EXCEPT ![n] = "authorized"]]
                    ELSE receipt
      /\ UNCHANGED <<guestVars, outbox, delivered>>
  BY DEF Authorize
<1>2. r \in Row /\ n \in Attempt /\ (Claims(p, r) => outbox[r].status = "sending")
  BY <1>1, BusyFacts DEF Attempting
<1>3. receipt \in [Row -> [Attempt -> Results]] /\ receipt[r][n] = "none"
  BY <1>1 DEF IInv, TypeOK, AuthorizedOnce
<1>4. /\ receipt' \in [Row -> [Attempt -> Results]]
      /\ \A q \in Row, m \in Attempt : ~(q = r /\ m = n) => receipt'[q][m] = receipt[q][m]
      /\ sends => receipt'[r][n] = "authorized"
  BY <1>1, <1>2, <1>3
<1>5. to \in Attempting \ {"authorize"} /\ to \notin {"failed", "record", "recordRow"}
  BY DEF Attempting
<1>6. /\ process'[p].at = to /\ process'[p].row = r /\ process'[p].attempt = n
      /\ \A q \in Dispatcher \ {p} : process'[q] = process[q]
      /\ TypeOK' /\ RowsAreFresh' /\ AttemptsAreOwned' /\ AuthorizedOnce'
      /\ ConsentHasAnAddress' /\ VerifiedByItsOwnEmail'
      /\ KeepsSettled
  <2> HIDE DEF to
  <2>1. process[p].at \in Attempting /\ delivered' \in [Row -> Nat]
        /\ \A q \in Row : delivered'[q] >= delivered[q]
    BY <1>1 DEF Attempting, IInv, TypeOK
  <2> QED BY <1>1, <1>4, <1>5, <2>1, AttemptStep
<1>7. sends => ~Hot(r)
  BY <1>2, <1>3 DEF IInv, HotRowsAreBlocked, Blocked, Claims
<1>8. \A q \in Row : Hot(q)' => Hot(q) \/ (sends /\ q = r)
  BY <1>1, <1>6 DEF Hot
<1>9. SendersAreAlone'
  <2>1. \A q \in Dispatcher : process'[q].at = "send" =>
           \/ q = p /\ sends
           \/ q # p /\ process'[q] = process[q] /\ process[q].at = "send"
    BY <1>6
  <2>2. sends => delivered[r] = 0
                 /\ \A q \in Dispatcher : ~(process[q].at = "send" /\ process[q].row = r)
    BY <1>2, <1>7 DEF Hot, IInv, TypeOK
  <2> QED BY <1>1, <1>6, <2>1, <2>2 DEF IInv, SendersAreAlone
<1>10. RefusedWereNotSent'
  <2> SUFFICES ASSUME NEW q \in Dispatcher, process'[q].at \in {"obsolete", "failed"},
                      Claims(q, process[q].row)'
               PROVE  ~Hot(process[q].row)'
    BY DEF RefusedWereNotSent
  <2>1. CASE q = p
    <3>1. ~sends /\ Claims(p, r)
      BY <1>1, <1>6, <2>1 DEF Claims
    <3>2. ~Blocked(r)
      BY <1>2, <1>3, <3>1 DEF Blocked, Claims
    <3> QED BY <1>2, <1>6, <1>8, <2>1, <3>1, <3>2 DEF IInv, HotRowsAreBlocked
  <2>2. CASE q # p
    <3>1. process'[q] = process[q]
      BY <1>6, <2>2
    <3>2. Claims(q, process[q].row) /\ process[q].row \in Row
      BY <1>1, <3>1, BusyFacts DEF Claims, Attempting
    <3>3. sends => process[q].row # r
      BY <1>1, <2>2, <3>1, <3>2 DEF Claims, IInv, AttemptsAreOwned, Attempting
    <3> QED BY <1>8, <3>1, <3>2, <3>3 DEF IInv, RefusedWereNotSent
  <2> QED BY <2>1, <2>2
<1>11. HotRowsAreBlocked'
  <2> SUFFICES ASSUME NEW q \in Row, Hot(q)' PROVE Blocked(q)'
    BY DEF HotRowsAreBlocked
  <2>1. CASE sends /\ q = r
    BY <1>1, <1>2, <1>4, <2>1 DEF Blocked, Claims
  <2>2. CASE ~(sends /\ q = r)
    <3>1. Blocked(q)
      BY <1>8, <2>2 DEF IInv, HotRowsAreBlocked
    <3>2. outbox[q].status = "sending" => outbox[q].claim \in Attempt
      BY DEF IInv, TypeOK
    <3>3. \A m \in Attempt : receipt[q][m] # "none" => receipt'[q][m] = receipt[q][m]
      BY <1>3, <1>4
    <3> QED BY <1>1, <3>1, <3>2, <3>3 DEF Blocked
  <2> QED BY <2>1, <2>2
<1>12. AcceptedWereSent'
  <2>1. \A q \in Row, m \in Attempt : receipt'[q][m] = "accepted" => delivered[q] > 0
    BY <1>1, <1>3, <1>4 DEF IInv, AcceptedWereSent
  <2>2. \A q \in Dispatcher :
           process'[q].at \in {"record", "recordRow"} => delivered[process'[q].row] > 0
    BY <1>5, <1>6 DEF IInv, AcceptedWereSent
  <2> QED BY <1>1, <2>1, <2>2 DEF IInv, AcceptedWereSent
<1>13. SentAtMostOnce'
  BY <1>1 DEF IInv, SentAtMostOnce
<1> QED BY <1>6, <1>9, <1>10, <1>11, <1>12, <1>13 DEF IInv

\* The one dispatcher that is authorized offers the email to the provider.
LEMMA SendStep ==
    ASSUME IInv, NEW p \in Dispatcher, NEW taken \in BOOLEAN, NEW answered \in BOOLEAN,
           Send(p, taken, answered)
    PROVE  IInv' /\ KeepsSettled
<1> DEFINE r == process[p].row
           n == process[p].attempt
           to == IF ~answered THEN "unknown" ELSE IF taken THEN "record" ELSE "failed"
<1>1. /\ process[p].at = "send" /\ Goes(p, to)
      /\ delivered' = [delivered EXCEPT ![r] = IF taken THEN delivered[r] + 1 ELSE delivered[r]]
      /\ UNCHANGED <<guestVars, outbox, receipt>>
  BY DEF Send
<1>2. r \in Row /\ n \in Attempt /\ delivered \in [Row -> Nat]
  BY <1>1, BusyFacts DEF Attempting, IInv, TypeOK
<1>3. /\ delivered[r] = 0
      /\ \A q \in Dispatcher : process[q].at = "send" /\ process[q].row = r => q = p
  BY <1>1 DEF IInv, SendersAreAlone
<1>4. /\ delivered' \in [Row -> Nat]
      /\ \A q \in Row : q # r => delivered'[q] = delivered[q]
      /\ delivered'[r] = IF taken THEN 1 ELSE 0
      /\ \A q \in Row : delivered'[q] >= delivered[q]
  BY <1>1, <1>2, <1>3
<1>5. /\ to \in Attempting \ {"authorize"} /\ to \notin {"send", "recordRow"}
      /\ to = "record" => taken
      /\ to = "failed" => ~taken
  BY DEF Attempting
<1>6. /\ process'[p].at = to /\ process'[p].row = r /\ process'[p].attempt = n
      /\ \A q \in Dispatcher \ {p} : process'[q] = process[q]
      /\ TypeOK' /\ RowsAreFresh' /\ AttemptsAreOwned' /\ AuthorizedOnce'
      /\ ConsentHasAnAddress' /\ VerifiedByItsOwnEmail'
      /\ KeepsSettled
  <2> HIDE DEF to
  <2>1. /\ process[p].at \in Attempting
        /\ receipt' \in [Row -> [Attempt -> {"none", "authorized", "accepted", "failed",
                                             "unknown"}]]
        /\ receipt' = receipt
    BY <1>1 DEF Attempting, IInv, TypeOK
  <2> QED BY <1>1, <1>4, <1>5, <2>1, AttemptStep
<1>7. Hot(r) /\ \A q \in Row : Hot(q)' => Hot(q)
  BY <1>1, <1>2, <1>4, <1>5, <1>6 DEF Hot
<1>8. SendersAreAlone'
  <2>1. \A q \in Dispatcher : process'[q].at = "send" =>
           /\ q # p /\ process'[q] = process[q] /\ process[q].at = "send"
           /\ process[q].row # r /\ process[q].row \in Row
    BY <1>3, <1>5, <1>6, BusyFacts DEF Attempting
  <2> QED BY <1>4, <2>1 DEF IInv, SendersAreAlone
<1>9. RefusedWereNotSent'
  <2> SUFFICES ASSUME NEW q \in Dispatcher, process'[q].at \in {"obsolete", "failed"},
                      Claims(q, process[q].row)'
               PROVE  ~Hot(process[q].row)'
    BY DEF RefusedWereNotSent
  <2>1. CASE q = p
    <3>1. delivered'[r] = 0
      BY <1>4, <1>5, <1>6, <2>1
    <3>2. \A v \in Dispatcher : ~(process'[v].at = "send" /\ process'[v].row = r)
      BY <1>3, <1>5, <1>6
    <3> QED BY <1>6, <2>1, <3>1, <3>2 DEF Hot
  <2>2. CASE q # p
    <3>1. process'[q] = process[q]
      BY <1>6, <2>2
    <3>2. Claims(q, process[q].row) /\ process[q].row \in Row
      BY <1>1, <3>1, BusyFacts DEF Claims, Attempting
    <3> QED BY <1>7, <3>1, <3>2 DEF IInv, RefusedWereNotSent
  <2> QED BY <2>1, <2>2
<1>10. HotRowsAreBlocked'
  BY <1>1, <1>7 DEF IInv, HotRowsAreBlocked, Blocked
<1>11. AcceptedWereSent'
  <2>1. \A q \in Row : delivered[q] > 0 => delivered'[q] > 0
    BY <1>2, <1>4
  <2>2. ASSUME NEW q \in Dispatcher, process'[q].at \in {"record", "recordRow"}
        PROVE  delivered'[process'[q].row] > 0
    <3>1. CASE q = p
      BY <1>4, <1>5, <1>6, <2>2, <3>1
    <3>2. CASE q # p
      <4>1. process'[q] = process[q] /\ process[q].row \in Row
        BY <1>6, <2>2, <3>2, BusyFacts DEF Attempting
      <4> QED BY <2>1, <2>2, <4>1 DEF IInv, AcceptedWereSent
    <3> QED BY <3>1, <3>2
  <2> QED BY <1>1, <2>1, <2>2 DEF IInv, AcceptedWereSent
<1>12. SentAtMostOnce'
  BY <1>4 DEF IInv, SentAtMostOnce
<1> QED BY <1>6, <1>8, <1>9, <1>10, <1>11, <1>12 DEF IInv

LEMMA ReceiptStep ==
    ASSUME IInv, NEW p \in Dispatcher, RecordReceipt(p)
    PROVE  IInv' /\ KeepsSettled
<1> DEFINE r == process[p].row
           n == process[p].attempt
           Results == {"none", "authorized", "accepted", "failed", "unknown"}
<1>1. /\ process[p].at = "record" /\ Goes(p, "recordRow")
      /\ receipt' = [receipt EXCEPT ![r] = [receipt[r] EXCEPT ![n] = "accepted"]]
      /\ UNCHANGED <<guestVars, outbox, delivered>>
  BY DEF RecordReceipt, MarkAccepted
<1>2. r \in Row /\ n \in Attempt /\ delivered[r] > 0
  BY <1>1, BusyFacts DEF Attempting, IInv, AcceptedWereSent
<1>3. receipt \in [Row -> [Attempt -> Results]]
  BY DEF IInv, TypeOK
<1>4. /\ receipt' \in [Row -> [Attempt -> Results]]
      /\ \A q \in Row, m \in Attempt : ~(q = r /\ m = n) => receipt'[q][m] = receipt[q][m]
      /\ receipt'[r][n] = "accepted"
  BY <1>1, <1>2, <1>3
<1>5. /\ process'[p].at = "recordRow" /\ process'[p].row = r /\ process'[p].attempt = n
      /\ \A q \in Dispatcher \ {p} : process'[q] = process[q]
      /\ TypeOK' /\ RowsAreFresh' /\ AttemptsAreOwned' /\ AuthorizedOnce'
      /\ ConsentHasAnAddress' /\ VerifiedByItsOwnEmail'
      /\ KeepsSettled
  <2>1. /\ process[p].at \in Attempting /\ "recordRow" \in Attempting \ {"authorize"}
        /\ delivered' \in [Row -> Nat] /\ \A q \in Row : delivered'[q] >= delivered[q]
    BY <1>1 DEF Attempting, IInv, TypeOK
  <2> QED BY <1>1, <1>4, <2>1, AttemptStep
<1>6. \A q \in Row : Hot(q)' => Hot(q)
  BY <1>1, <1>5 DEF Hot
<1>7. SendersAreAlone'
  BY <1>1, <1>5 DEF IInv, SendersAreAlone
<1>8. RefusedWereNotSent'
  <2> SUFFICES ASSUME NEW q \in Dispatcher, process'[q].at \in {"obsolete", "failed"},
                      Claims(q, process[q].row)'
               PROVE  ~Hot(process[q].row)'
    BY DEF RefusedWereNotSent
  <2>1. process'[q] = process[q]
    BY <1>5
  <2>2. Claims(q, process[q].row) /\ process[q].row \in Row
    BY <1>1, <2>1, BusyFacts DEF Claims, Attempting
  <2> QED BY <1>6, <2>1, <2>2 DEF IInv, RefusedWereNotSent
<1>9. HotRowsAreBlocked'
  <2> SUFFICES ASSUME NEW q \in Row, Hot(q)' PROVE Blocked(q)'
    BY DEF HotRowsAreBlocked
  <2>1. Blocked(q)
    BY <1>6 DEF IInv, HotRowsAreBlocked
  <2>2. outbox[q].status = "sending" => outbox[q].claim \in Attempt
    BY DEF IInv, TypeOK
  <2>3. \A m \in Attempt : \/ receipt'[q][m] = receipt[q][m]
                           \/ receipt'[q][m] = "accepted"
    BY <1>4
  <2> QED BY <1>1, <2>1, <2>2, <2>3 DEF Blocked
<1>10. AcceptedWereSent'
  <2>1. \A q \in Row, m \in Attempt : receipt'[q][m] = "accepted" => delivered[q] > 0
    BY <1>2, <1>4 DEF IInv, AcceptedWereSent
  <2>2. \A q \in Dispatcher :
           process'[q].at \in {"record", "recordRow"} => delivered[process'[q].row] > 0
    BY <1>2, <1>5 DEF IInv, AcceptedWereSent
  <2> QED BY <1>1, <2>1, <2>2 DEF IInv, AcceptedWereSent
<1>11. SentAtMostOnce'
  BY <1>1 DEF IInv, SentAtMostOnce
<1> QED BY <1>5, <1>7, <1>8, <1>9, <1>10, <1>11 DEF IInv

-----------------------------------------------------------------------------
(***************************************************************************)
(* A dispatcher claims a row                                               *)
(***************************************************************************)

\* A row that can be claimed is not blocked, so no email of it was or will be sent by
\* another dispatcher; the claim is a new attempt, which nobody else can mistake for
\* his own.
LEMMA ClaimStep ==
    ASSUME IInv, NEW p \in Dispatcher, NEW r \in Row, ClaimPing(p, r)
    PROVE  IInv' /\ KeepsSettled
<1> DEFINE n == outbox[r].attempts + 1
           claimed == [status |-> "sending", attempts |-> n, claim |-> n,
                       lapsed |-> FALSE, unknown |-> FALSE]
           claiming == [at |-> "authorize", row |-> r, attempt |-> n]
<1>1. /\ process[p].at = "claim" /\ Claimable(r)
      /\ outbox' = [outbox EXCEPT ![r] = claimed]
      /\ process' = [process EXCEPT ![p] = claiming]
      /\ UNCHANGED <<guestVars, receipt, delivered>>
  BY DEF ClaimPing
<1>2. TypeOK /\ outbox \in [Row -> Entry] /\ outbox[r].attempts \in Nat
  BY DEF IInv, TypeOK, Entry
<1>3. n \in Attempt /\ n # NoAttempt /\ n > outbox[r].attempts
  <2>1. outbox[r].attempts \in 0..MaxAttempts /\ outbox[r].attempts < MaxAttempts
    BY <1>1, <1>2 DEF Claimable, Entry
  <2> QED BY <2>1, GuestOutboxAssumption DEF Attempt, NoAttempt
<1>4. ~Blocked(r) /\ outbox[r].status \in {"queued", "failed", "sending"}
  <2>1. outbox[r].lapsed => outbox[r].status = "sending"
    BY DEF IInv, RowsAreFresh
  <2>2. outbox[r].status = "sending" => outbox[r].claim \in Attempt
                                        /\ outbox[r].claim # NoAttempt
    BY <1>2 DEF TypeOK
  <2>3. outbox[r].attempts < MaxAttempts
    BY <1>1 DEF Claimable
  <2>4. ~(outbox[r].attempts >= MaxAttempts)
    BY <1>2, <2>3, GuestOutboxAssumption
  <2> QED BY <1>1, <2>1, <2>2, <2>4 DEF Claimable, Uncertain, Blocked
<1>5. ~Hot(r)
  BY <1>4 DEF IInv, HotRowsAreBlocked
<1>6. claimed \in Entry /\ claimed.status = "sending" /\ claimed.claim = n
  <2>1. n \in 0..MaxAttempts
    BY <1>3 DEF Attempt
  <2> HIDE DEF n
  <2> QED BY <1>3, <2>1 DEF Entry
<1>7. /\ outbox' \in [Row -> Entry] /\ outbox'[r] = claimed
      /\ \A q \in Row : q # r => outbox'[q] = outbox[q]
  BY <1>1, <1>2, <1>6
<1>8. /\ process' \in [Dispatcher -> [at : Locations, row : Row \cup {NoRow},
                                      attempt : Attempt \cup {NoAttempt}]]
      /\ process'[p] = claiming
      /\ \A q \in Dispatcher \ {p} : process'[q] = process[q]
  <2> DEFINE Standing == [at : Locations, row : Row \cup {NoRow},
                          attempt : Attempt \cup {NoAttempt}]
  <2>1. claiming \in Standing
    <3> HIDE DEF n
    <3> QED BY <1>3 DEF Locations
  <2>2. process \in [Dispatcher -> Standing]
    BY <1>2 DEF TypeOK
  <2> HIDE DEF claiming, Standing
  <2>3. /\ process' \in [Dispatcher -> Standing] /\ process'[p] = claiming
        /\ \A q \in Dispatcher \ {p} : process'[q] = process[q]
    BY <1>1, <2>1, <2>2
  <2> QED BY <2>3 DEF Standing
<1>9. process'[p].at = "authorize" /\ process'[p].row = r /\ process'[p].attempt = n
  BY <1>8
<1>10. TypeOK'
  <2>1. \A q \in Row : outbox'[q].claim # NoAttempt <=> outbox'[q].status = "sending"
    BY <1>2, <1>3, <1>6, <1>7 DEF TypeOK
  <2> QED BY <1>1, <1>2, <1>7, <1>8, <2>1 DEF TypeOK, Entry, guestVars
<1>11. RowsAreFresh'
  <2>1. r[2] > contact.generation => FALSE
    BY <1>4 DEF IInv, RowsAreFresh
  <2>2. \A m \in Attempt : m > n => receipt[r][m] = "none"
    <3>1. \A m \in Attempt : m > n => m > outbox[r].attempts
      BY <1>2 DEF Attempt
    <3> QED BY <3>1 DEF IInv, RowsAreFresh
  <2>3. /\ outbox'[r].status = "sending" /\ outbox'[r].attempts = n
    BY <1>7
  <2> QED BY <1>1, <1>7, <2>1, <2>2, <2>3 DEF IInv, RowsAreFresh, guestVars
<1>12. AttemptsAreOwned'
  <2>1. ASSUME NEW q \in Dispatcher \ {p}, process[q].at \in Attempting
        PROVE  /\ process[q].attempt <= outbox'[process[q].row].attempts
               /\ ~(process[q].row = r /\ process[q].attempt = n)
    <3>1. /\ process[q].row \in Row /\ process[q].attempt \in Attempt
          /\ process[q].attempt <= outbox[process[q].row].attempts
      BY <2>1, BusyFacts
    <3>2. process[q].attempt \in Nat
      BY <3>1 DEF Attempt
    <3>3. CASE process[q].row = r
      BY <1>2, <1>7, <3>1, <3>2, <3>3
    <3>4. CASE process[q].row # r
      BY <1>7, <3>1, <3>4
    <3> QED BY <3>3, <3>4
  <2>2. outbox'[r].attempts = n /\ n <= n
    BY <1>2, <1>7
  <2>3. \A q \in Dispatcher :
           process'[q].at \in Attempting
           => /\ process'[q].row \in Row /\ process'[q].attempt \in Attempt
              /\ process'[q].attempt <= outbox'[process'[q].row].attempts
    <3> HIDE DEF n
    <3> QED BY <1>3, <1>8, <1>9, <2>1, <2>2 DEF IInv, AttemptsAreOwned
  <2>4. \A q, v \in Dispatcher :
           /\ process'[q].at \in Attempting /\ process'[v].at \in Attempting
           /\ process'[q].row = process'[v].row
           /\ process'[q].attempt = process'[v].attempt
           => q = v
    <3> HIDE DEF n
    <3> QED BY <1>8, <1>9, <2>1 DEF IInv, AttemptsAreOwned
  <2> QED BY <2>3, <2>4 DEF AttemptsAreOwned
<1>13. AuthorizedOnce'
  <2>1. receipt[r][n] = "none"
    BY <1>3 DEF IInv, RowsAreFresh
  <2> QED BY <1>1, <1>8, <1>9, <2>1 DEF IInv, AuthorizedOnce
<1>14. \A q \in Row : Hot(q)' => Hot(q)
  BY <1>1, <1>8, <1>9 DEF Hot
<1>15. SendersAreAlone'
  BY <1>1, <1>8, <1>9 DEF IInv, SendersAreAlone
<1>16. RefusedWereNotSent'
  <2> SUFFICES ASSUME NEW q \in Dispatcher, process'[q].at \in {"obsolete", "failed"},
                      Claims(q, process[q].row)'
               PROVE  ~Hot(process[q].row)'
    BY <1>8, <1>9 DEF RefusedWereNotSent
  <2>1. q # p /\ process'[q] = process[q]
    BY <1>8, <1>9
  <2>2. /\ process[q].row \in Row /\ process[q].attempt \in Attempt
        /\ process[q].attempt <= outbox[process[q].row].attempts
    BY <2>1, BusyFacts DEF Attempting
  <2>3. CASE process[q].row = r
    BY <1>5, <1>14, <2>1, <2>3
  <2>4. CASE process[q].row # r
    <3>1. Claims(q, process[q].row)
      BY <1>7, <2>1, <2>2, <2>4 DEF Claims
    <3> QED BY <1>14, <2>1, <2>2, <3>1 DEF IInv, RefusedWereNotSent
  <2> QED BY <2>3, <2>4
<1>17. HotRowsAreBlocked'
  <2> SUFFICES ASSUME NEW q \in Row, Hot(q)' PROVE Blocked(q)'
    BY DEF HotRowsAreBlocked
  <2>1. q # r /\ Blocked(q)
    BY <1>5, <1>14 DEF IInv, HotRowsAreBlocked
  <2> QED BY <1>1, <1>7, <2>1 DEF Blocked
<1>18. AcceptedWereSent'
  <2>1. \A q \in Row : outbox'[q].status = "sent" => outbox[q].status = "sent"
    BY <1>6, <1>7
  <2>2. \A q \in Dispatcher :
           process'[q].at \in {"record", "recordRow"} => process'[q] = process[q]
    BY <1>8, <1>9
  <2> QED BY <1>1, <2>1, <2>2 DEF IInv, AcceptedWereSent
<1>19. SentAtMostOnce' /\ ConsentHasAnAddress' /\ VerifiedByItsOwnEmail'
  BY <1>1 DEF IInv, SentAtMostOnce, ConsentHasAnAddress, VerifiedByItsOwnEmail, guestVars
<1>20. KeepsSettled
  BY <1>4, <1>7 DEF KeepsSettled
<1> QED BY <1>10, <1>11, <1>12, <1>13, <1>15, <1>16, <1>17, <1>18, <1>19, <1>20 DEF IInv

-----------------------------------------------------------------------------
(***************************************************************************)
(* The theorems                                                            *)
(***************************************************************************)

LEMMA NextIInv ==
    ASSUME IInv, [Next]_vars
    PROVE  IInv' /\ KeepsSettled
<1>1. ASSUME NEW vouched \in BOOLEAN, Register(vouched) PROVE IInv' /\ KeepsSettled
  BY <1>1, RegisterStep
<1>2. ASSUME NEW g \in Generation, Verify(g) PROVE IInv' /\ KeepsSettled
  BY <1>2, VerifyStep
<1>3. CASE Disable
  BY <1>3, DisableStep
<1>4. CASE Settle \/ Withdraw \/ LinkExpires \/ LinkIsReissued
  BY <1>4, LeaveStep
<1>5. ASSUME NEW r \in Row, LeaseLapses(r) PROVE IInv' /\ KeepsSettled
  BY <1>5, LapseStep
<1>6. ASSUME NEW p \in Dispatcher, DispatchStep(p) PROVE IInv' /\ KeepsSettled
  <2>1. CASE EnqueueReminders(p)
    BY <2>1, EnqueueStep
  <2>2. CASE AdoptAccepted(p)
    BY <2>2, AdoptStep
  <2>3. CASE AgeReceipts(p)
    BY <2>3, AgeStep
  <2>4. CASE AbandonUncertain(p)
    BY <2>4, AbandonStep
  <2>5. CASE FailExhausted(p)
    BY <2>5, ExhaustStep
  <2>6. CASE EndDispatch(p)
    BY <2>6, EndStep
  <2>7. ASSUME NEW r \in Row, ClaimPing(p, r) PROVE IInv' /\ KeepsSettled
    BY <2>7, ClaimStep
  <2>8. ASSUME NEW fresh \in BOOLEAN, Authorize(p, fresh) PROVE IInv' /\ KeepsSettled
    BY <2>8, AuthorizeStep
  <2>9. CASE FailToAuthorize(p)
    BY <2>9, FailToAuthorizeStep
  <2>10. CASE CancelObsolete(p)
    BY <2>10, ObsoleteStep
  <2>11. ASSUME NEW taken \in BOOLEAN, NEW answered \in BOOLEAN, Send(p, taken, answered)
         PROVE  IInv' /\ KeepsSettled
    BY <2>11, SendStep
  <2>12. CASE RecordAcceptance(p)
    BY <2>12, AcceptanceStep
  <2>13. CASE RecordReceipt(p)
    BY <2>13, ReceiptStep
  <2>14. CASE RecordRow(p)
    BY <2>14, RecordRowStep
  <2>15. CASE RecordFailure(p)
    BY <2>15, FailureStep
  <2> QED BY <1>6, <2>1, <2>2, <2>3, <2>4, <2>5, <2>6, <2>7, <2>8, <2>9, <2>10, <2>11,
             <2>12, <2>13, <2>14, <2>15 DEF DispatchStep
<1>7. CASE UNCHANGED vars
  <2>1. \A r \in Row : RowMoves(r)
    BY <1>7 DEF vars, RowMoves
  <2>2. \A r \in Row, n \in Attempt : ReceiptMoves(r, n)
    BY <1>7 DEF vars, ReceiptMoves
  <2> QED BY <1>7, <2>1, <2>2, SystemStep DEF vars, guestVars, IInv, TypeOK, Entry
<1> QED BY <1>1, <1>2, <1>3, <1>4, <1>5, <1>6, <1>7 DEF Next

\* The invariant everything else follows from.
THEOREM Invariance == Spec => []IInv
<1>1. Init => IInv
  BY InitIInv
<1>2. IInv /\ [Next]_vars => IInv'
  BY NextIInv
<1> QED BY <1>1, <1>2, PTL DEF Spec

\* The outbox, its receipts and its dispatchers stay well formed.
THEOREM TypeCorrect == Spec => []TypeOK
<1>1. IInv => TypeOK
  BY DEF IInv
<1> QED BY <1>1, Invariance, PTL

\* No email crosses the network twice, however many dispatchers overlap, stall past
\* their leases and lose the provider's answers (guest-outbox.ts:181-295).
THEOREM SentOnce == Spec => []SentAtMostOnce
<1>1. IInv => SentAtMostOnce
  BY DEF IInv
<1> QED BY <1>1, Invariance, PTL

\* What is told of a row's email is true (guest-outbox.ts:317-354).
THEOREM RowsTellTheTruth == Spec => []StatusIsTrue
<1>1. IInv => StatusIsTrue
  <2> SUFFICES ASSUME IInv, NEW r \in Row
               PROVE  /\ outbox[r].status = "sent" => delivered[r] > 0
                      /\ outbox[r].status = "queued" => delivered[r] = 0
                      /\ /\ outbox[r].status = "failed" /\ ~outbox[r].unknown
                         /\ outbox[r].attempts < MaxAttempts
                         => \/ delivered[r] = 0
                            \/ \E n \in Attempt : receipt[r][n] = "accepted"
    BY DEF StatusIsTrue
  <2>1. outbox[r].status = "sent" => delivered[r] > 0
    BY DEF IInv, AcceptedWereSent
  <2>2. delivered[r] = 0 \/ Blocked(r)
    BY DEF IInv, TypeOK, HotRowsAreBlocked, Hot
  <2>3. outbox[r].attempts < MaxAttempts => ~(outbox[r].attempts >= MaxAttempts)
    BY GuestOutboxAssumption DEF IInv, TypeOK
  <2> QED BY <2>1, <2>2, <2>3 DEF Blocked
<1> QED BY <1>1, Invariance, PTL

\* Nobody but Google and the owner of an address verifies it (guest-contact.ts:308-334).
THEOREM VerifiedByOwner == Spec => []VerifiedByItsOwnEmail
<1>1. IInv => VerifiedByItsOwnEmail
  BY DEF IInv
<1> QED BY <1>1, Invariance, PTL

\* A row that was sent or cancelled never changes its mind (guest-outbox.ts:275-295).
THEOREM SettledStays == Spec => SettledForGood
<1>1. IInv /\ [Next]_vars => [KeepsSettled]_vars
  BY NextIInv
<1>2. IInv /\ [Next]_vars
      => [\A r \in Row : outbox[r].status \in {"sent", "cancelled"}
                        => outbox'[r].status = outbox[r].status]_vars
  BY <1>1 DEF KeepsSettled
<1> QED BY <1>2, Invariance, PTL DEF Spec, SettledForGood

-----------------------------------------------------------------------------
(***************************************************************************)
(* The outbox implements the notices it promises                           *)
(***************************************************************************)

\* Whom a step of the outbox leaves offering what they offered.
SameCarriers == \A r \in Row, p \in Dispatcher :
    process'[p].at = "send" /\ process'[p].row = r
    <=> process[p].at = "send" /\ process[p].row = r

LEMMA CarriersStay == SameCarriers => Carriers' = Carriers
BY DEF SameCarriers, Carriers

LEMMA ToldFacts ==
    ASSUME TypeOK, NEW r \in Row
    PROVE  /\ Told[r] \in Notices!Story
           /\ Told[r] = "none" <=> outbox[r].status = "absent"
           /\ Told[r] \in Notices!Waiting <=> Pending(r)
           /\ Told[r] = "sent" <=> outbox[r].status = "sent"
           /\ Told[r] = "cancelled" <=> outbox[r].status = "cancelled"
           /\ Told[r] = "open"
              <=> \/ outbox[r].status \in {"queued", "sending"}
                  \/ /\ outbox[r].status = "failed" /\ ~outbox[r].unknown
                     /\ ~(outbox[r].attempts >= MaxAttempts)
<1>1. outbox[r] \in Entry
  BY DEF TypeOK, Entry
<1> QED BY <1>1 DEF Told, Entry, Pending, Notices!Story, Notices!Waiting

LEMMA SameRowSameStory ==
    ASSUME NEW r \in Row, /\ outbox'[r].status = outbox[r].status
                          /\ outbox'[r].unknown = outbox[r].unknown
                          /\ outbox'[r].attempts = outbox[r].attempts
    PROVE  Told'[r] = Told[r]
BY DEF Told

\* This step changes what is told of a row only as far as that may be told of it.
Tells(r) ==
    \/ Told'[r] = Told[r]
    \/ Pending(r) /\ outbox'[r].status = "sent" /\ delivered[r] > 0
    \/ outbox[r].status = "sending" /\ outbox'[r].status = "failed"
    \/ outbox[r].status = "sending" /\ outbox'[r].status = "cancelled" /\ ~Hot(r)

LEMMA TellStep ==
    ASSUME TypeOK, TypeOK', SameCarriers, UNCHANGED <<contact, delivered>>,
           \A r \in Row : Tells(r)
    PROVE  Notices!Next
<1>1. Notices!Notice = Row
  BY DEF Notices!Notice, Row
<1>2. \A r \in Row : Told'[r] \in Notices!Story
  <2> SUFFICES ASSUME NEW r \in Row PROVE Told'[r] \in Notices!Story
    OBVIOUS
  <2>1. outbox'[r] \in Entry
    BY DEF TypeOK, Entry
  <2> QED BY <2>1 DEF Told, Entry, Notices!Story, Notices!Waiting
<1>3. Told' \in [Row -> Notices!Story]
  BY <1>2 DEF Told
<1>4. ASSUME NEW r \in Row, Told'[r] # Told[r] PROVE Notices!MayTell(r, Told'[r])
  <2>1. CASE Pending(r) /\ outbox'[r].status = "sent" /\ delivered[r] > 0
    <3>1. Told'[r] = "sent"
      BY <2>1 DEF Told
    <3>2. Told[r] \in Notices!Waiting
      BY <2>1, ToldFacts
    <3> QED BY <2>1, <3>1, <3>2 DEF Notices!MayTell
  <2>2. CASE outbox[r].status = "sending" /\ outbox'[r].status = "failed"
    <3>1. Told[r] = "open"
      BY <2>2, ToldFacts
    <3>2. Told'[r] \in {"unknown", "failed", "open"}
      BY <2>2 DEF Told
    <3> QED BY <1>4, <3>1, <3>2 DEF Notices!MayTell
  <2>3. CASE outbox[r].status = "sending" /\ outbox'[r].status = "cancelled" /\ ~Hot(r)
    <3>1. Told[r] = "open"
      BY <2>3, ToldFacts
    <3>2. Told'[r] = "cancelled"
      BY <2>3 DEF Told
    <3>3. Notices!Unsent(r)
      <4>1. delivered[r] \in Nat /\ ~(delivered[r] > 0)
        BY <2>3 DEF TypeOK, Hot
      <4>2. Carriers[r] = {}
        BY <2>3 DEF Hot, Carriers
      <4> QED BY <4>1, <4>2 DEF Notices!Unsent
    <3> QED BY <3>1, <3>2, <3>3 DEF Notices!MayTell
  <2> QED BY <1>4, <2>1, <2>2, <2>3 DEF Tells
<1>5. Notices!Tell
  BY <1>1, <1>3, <1>4, CarriersStay DEF Notices!Tell, Notices!mail
<1> QED BY <1>5 DEF Notices!Next

LEMMA DroppedStep ==
    ASSUME TypeOK, NEW S \in SUBSET Row, NEW r \in Row, outbox'[r] = Cancelled(S)[r]
    PROVE  Told'[r] = Notices!Dropped(S)[r]
<1>1. Notices!Dropped(S)[r] = IF r \in S /\ Pending(r) THEN "cancelled" ELSE Told[r]
  <2>1. r \in Notices!Notice
    BY DEF Notices!Notice, Row
  <2> QED BY <2>1, ToldFacts DEF Notices!Dropped
<1>2. CASE r \in S /\ Pending(r)
  <2>1. outbox'[r].status = "cancelled"
    BY <1>2, CancelledFacts
  <2> QED BY <1>1, <1>2, <2>1 DEF Told
<1>3. CASE ~(r \in S /\ Pending(r))
  <2>1. outbox'[r] = outbox[r]
    BY <1>3 DEF Cancelled
  <2> QED BY <1>1, <1>3, <2>1, SameRowSameStory
<1> QED BY <1>2, <1>3

LEMMA DroppedAll ==
    ASSUME TypeOK, NEW S \in SUBSET Row, outbox' = Cancelled(S)
    PROVE  Told' = Notices!Dropped(S)
<1>1. \A r \in Row : Told'[r] = Notices!Dropped(S)[r]
  BY DroppedStep
<1> QED BY <1>1 DEF Told, Notices!Dropped, Notices!Notice, Row

LEMMA RegisterMaps ==
    ASSUME IInv, NEW vouched \in BOOLEAN, Register(vouched)
    PROVE  Notices!Next
<1> DEFINE g == contact.generation + 1
           v == <<"verification", g>>
<1>1. TypeOK /\ Notices!Notice = Row
  BY DEF IInv, Notices!Notice, Row
<1>2. contact.generation \in Nat /\ g \in Generation /\ v \in Row /\ v[2] = g
  <2>1. contact.generation \in 0..MaxGenerations /\ contact.generation < MaxGenerations
    BY DEF IInv, TypeOK, Register
  <2>2. contact.generation \in Nat /\ g \in Generation
    BY <2>1, GuestOutboxAssumption DEF Generation
  <2> QED BY <2>2, RowFacts
<1>3. /\ contact' = [generation |-> g, consent |-> TRUE, verified |-> vouched]
      /\ UNCHANGED <<process, delivered>>
      /\ outbox' = IF vouched THEN Cancelled(Row) ELSE Queue(Cancelled(Row), v)
  BY DEF Register
<1>4. Carriers' = Carriers
  BY <1>3 DEF Carriers
<1>5. CASE vouched
  <2>1. Told' = Notices!Dropped(Notices!Notice)
    BY <1>1, <1>3, <1>5, DroppedAll
  <2> QED BY <1>3, <1>4, <1>5, <2>1 DEF Notices!Next, Notices!Register, Notices!mail
<1>6. CASE ~vouched
  <2>1. Told[v] = "none"
    <3>1. outbox[v].status = "absent"
      BY <1>2 DEF IInv, RowsAreFresh
    <3> QED BY <1>1, <1>2, <3>1, ToldFacts
  <2>2. Cancelled(Row) \in [Row -> Entry]
    BY <1>1, CancelledFacts
  <2>3. Told'[v] = "open"
    <3>1. outbox'[v].status = "queued"
      BY <1>2, <1>3, <1>6, <2>2, QueueMoves
    <3> QED BY <1>2, <3>1 DEF Told
  <2>4. ASSUME NEW r \in Row \ {v} PROVE Told'[r] = Notices!Dropped(Row)[r]
    <3>1. outbox'[r] = Cancelled(Row)[r]
      BY <1>2, <1>3, <1>6, <2>2, <2>4, QueueMoves
    <3> QED BY <1>1, <3>1, DroppedStep
  <2>5. Told' = [Notices!Dropped(Row) EXCEPT ![v] = "open"]
    BY <1>1, <1>2, <2>3, <2>4 DEF Told, Notices!Dropped
  <2> QED BY <1>1, <1>3, <1>4, <1>6, <2>1, <2>5
          DEF Notices!Next, Notices!Register, Notices!mail
<1> QED BY <1>5, <1>6

LEMMA DisableMaps ==
    ASSUME IInv, Disable
    PROVE  Notices!Next
<1>1. TypeOK /\ Notices!Notice = Row
  BY DEF IInv, Notices!Notice, Row
<1>2. Told' = Notices!Dropped(Notices!Notice)
  BY <1>1, DroppedAll DEF Disable
<1>3. Carriers' = Carriers
  BY DEF Disable, Carriers
<1>4. Notices!Disable
  BY <1>2, <1>3 DEF Disable, Notices!Disable, Notices!mail
<1> QED BY <1>4 DEF Notices!Next

LEMMA VerifyMaps ==
    ASSUME IInv, NEW g \in Generation, Verify(g)
    PROVE  Notices!Next
<1> DEFINE S == {<<"verification", h>> : h \in Generation}
<1>1. TypeOK /\ S \in SUBSET Row /\ S = {n \in Notices!Notice : n[1] = "verification"}
  BY DEF IInv, Notices!Notice, Row
<1>2. Told' = Notices!Dropped(S)
  BY <1>1, DroppedAll DEF Verify
<1>3. Carriers' = Carriers
  BY DEF Verify, Carriers
<1>4. Notices!Confirm
  BY <1>1, <1>2, <1>3 DEF Verify, Confirmable, Notices!Confirm, Notices!mail
<1> QED BY <1>4 DEF Notices!Next

LEMMA EnqueueMaps ==
    ASSUME IInv, NEW p \in Dispatcher, EnqueueReminders(p)
    PROVE  [Notices!Next]_(Notices!notices)
<1> DEFINE r == <<"reminder", contact.generation>>
           due == contact.consent /\ contact.verified /\ LinkWorks /\ asked
           queues == due /\ outbox[r].status = "absent"
<1>1. /\ process[p].at = "start" /\ Goes(p, "adopt")
      /\ outbox' = IF queues THEN Queue(outbox, r) ELSE outbox
      /\ UNCHANGED <<contact, delivered>>
  BY DEF EnqueueReminders, guestVars
<1>2. TypeOK /\ outbox \in [Row -> Entry]
  BY DEF IInv, TypeOK, Entry
<1>3. Carriers' = Carriers
  <2>1. SameCarriers
    BY <1>1, <1>2 DEF SameCarriers, Goes, TypeOK
  <2> QED BY <2>1, CarriersStay
<1>4. CASE queues
  <2>1. r \in Row
    BY <1>4, RowFacts DEF IInv, ConsentHasAnAddress
  <2>2. Told[r] = "none"
    BY <1>2, <1>4, <2>1, ToldFacts
  <2>3. Told'[r] = "open"
    <3>1. outbox'[r].status = "queued"
      BY <1>1, <1>2, <1>4, <2>1, QueueMoves
    <3> QED BY <2>1, <3>1 DEF Told
  <2>4. ASSUME NEW q \in Row \ {r} PROVE Told'[q] = Told[q]
    <3>1. outbox'[q] = outbox[q]
      BY <1>1, <1>2, <1>4, <2>1, QueueMoves
    <3> QED BY <3>1, SameRowSameStory
  <2>5. Told' = [Told EXCEPT ![r] = "open"]
    BY <2>1, <2>3, <2>4 DEF Told
  <2>6. Notices!Remind
    BY <1>1, <1>3, <1>4, <2>2, <2>5 DEF Notices!Remind, Notices!mail
  <2> QED BY <2>6 DEF Notices!Next
<1>5. CASE ~queues
  <2>1. Told' = Told
    BY <1>1, <1>5 DEF Told
  <2> QED BY <1>1, <1>3, <2>1 DEF Notices!notices
<1> QED BY <1>4, <1>5

LEMMA Elsewhere ==
    ASSUME TypeOK, NEW p \in Dispatcher, process[p].at # "send",
           \/ \E to \in Locations \ {"send"} : Goes(p, to)
           \/ Proceeds(p)
           \/ process' = [process EXCEPT ![p] = [Starting EXCEPT !.at = "done"]]
           \/ \E r \in Row, n \in Attempt :
                 process' = [process EXCEPT ![p] = [at |-> "authorize", row |-> r, attempt |-> n]]
    PROVE  SameCarriers
<1>1. \A to : [Starting EXCEPT !.at = to].at = to
  BY DEF Starting
<1>2. \A to : [process[p] EXCEPT !.at = to].at = to
  BY DEF TypeOK
<1>3. process'[p].at # "send"
  <2>1. CASE \E to \in Locations \ {"send"} : Goes(p, to)
    BY <1>2, <2>1 DEF TypeOK, Goes
  <2>2. CASE Proceeds(p)
    BY <1>1, <2>2 DEF TypeOK, Proceeds
  <2>3. CASE process' = [process EXCEPT ![p] = [Starting EXCEPT !.at = "done"]]
    BY <1>1, <2>3 DEF TypeOK
  <2>4. CASE \E r \in Row, n \in Attempt :
                process' = [process EXCEPT ![p] = [at |-> "authorize", row |-> r, attempt |-> n]]
    BY <2>4 DEF TypeOK
  <2> QED BY <2>1, <2>2, <2>3, <2>4
<1>4. \A q \in Dispatcher \ {p} : process'[q] = process[q]
  BY DEF TypeOK, Goes, Proceeds
<1> QED BY <1>3, <1>4 DEF SameCarriers

LEMMA RecoveredStatus ==
    ASSUME TypeOK, NEW r \in Row, NEW unknown \in BOOLEAN
    PROVE  /\ [Close(r, "sent") EXCEPT !.unknown = unknown].status = "sent"
           /\ [Close(r, "failed") EXCEPT !.unknown = unknown].status = "failed"
<1>1. [Close(r, "sent") EXCEPT !.unknown = unknown].status = "sent"
  BY CloseFacts
<1>2. [Close(r, "failed") EXCEPT !.unknown = unknown].status = "failed"
  BY CloseFacts
<1> QED BY <1>1, <1>2

\* Recovery, and whatever else moves neither the contact nor an email.
LEMMA RecoveryMaps ==
    ASSUME IInv, TypeOK', NEW p \in Dispatcher,
           \/ AdoptAccepted(p) \/ AgeReceipts(p) \/ AbandonUncertain(p) \/ FailExhausted(p)
           \/ EndDispatch(p) \/ FailToAuthorize(p)
    PROVE  Notices!Next
<1>1. TypeOK /\ UNCHANGED <<contact, delivered>>
  BY DEF IInv, guestVars, AdoptAccepted, AgeReceipts, AbandonUncertain, FailExhausted,
         EndDispatch, FailToAuthorize
<1>2. SameCarriers
  <2>1. process[p].at # "send"
    BY DEF AdoptAccepted, AgeReceipts, AbandonUncertain, FailExhausted, EndDispatch,
           FailToAuthorize
  <2>2. {"age", "abandon", "exhaust", "failed"} \in SUBSET (Locations \ {"send"})
    BY DEF Locations
  <2> QED BY <1>1, <2>1, <2>2, Elsewhere
          DEF AdoptAccepted, AgeReceipts, AbandonUncertain, FailExhausted, EndDispatch,
              FailToAuthorize
<1>3. ASSUME NEW r \in Row PROVE Tells(r)
  <2>1. CASE outbox'[r] = outbox[r]
    BY <2>1, SameRowSameStory DEF Tells
  <2>2. CASE AdoptAccepted(p) /\ outbox'[r] # outbox[r]
    <3>1. /\ Pending(r) /\ \E n \in Attempt : receipt[r][n] = "accepted"
          /\ outbox'[r] = [Close(r, "sent") EXCEPT !.unknown = FALSE]
      BY <2>2 DEF AdoptAccepted
    <3>2. outbox'[r].status = "sent"
      BY <1>1, <3>1, RecoveredStatus
    <3>3. delivered[r] > 0
      BY <3>1 DEF IInv, AcceptedWereSent
    <3> QED BY <3>1, <3>2, <3>3 DEF Tells
  <2>3. CASE (AbandonUncertain(p) \/ FailExhausted(p)) /\ outbox'[r] # outbox[r]
    <3>1. outbox[r].lapsed
      BY <2>3 DEF AbandonUncertain, FailExhausted
    <3>2. outbox[r].status = "sending"
      BY <3>1 DEF IInv, RowsAreFresh
    <3>3. \/ outbox'[r] = [Close(r, "failed") EXCEPT !.unknown = TRUE]
          \/ outbox'[r] = [Close(r, "failed") EXCEPT !.unknown = FALSE]
      BY <2>3 DEF AbandonUncertain, FailExhausted
    <3>4. outbox'[r].status = "failed"
      BY <1>1, <3>3, RecoveredStatus
    <3> QED BY <3>2, <3>4 DEF Tells
  <2>4. CASE AgeReceipts(p) \/ EndDispatch(p) \/ FailToAuthorize(p)
    BY <2>4, SameRowSameStory DEF Tells, AgeReceipts, EndDispatch, FailToAuthorize
  <2> QED BY <2>1, <2>2, <2>3, <2>4
<1> QED BY <1>1, <1>2, <1>3, TellStep

\* A row that is claimed was open and stays so.
LEMMA ClaimMaps ==
    ASSUME IInv, TypeOK', NEW p \in Dispatcher, NEW r \in Row, ClaimPing(p, r)
    PROVE  Notices!Next
<1> DEFINE n == outbox[r].attempts + 1
           claimed == [status |-> "sending", attempts |-> n, claim |-> n,
                       lapsed |-> FALSE, unknown |-> FALSE]
<1>1. /\ TypeOK /\ process[p].at = "claim" /\ Claimable(r)
      /\ outbox' = [outbox EXCEPT ![r] = claimed]
      /\ process' = [process EXCEPT ![p] = [at |-> "authorize", row |-> r, attempt |-> n]]
      /\ UNCHANGED <<contact, delivered>>
  BY DEF ClaimPing, IInv, guestVars
<1>2. outbox[r].attempts \in 0..MaxAttempts /\ outbox[r].attempts < MaxAttempts
  BY <1>1 DEF Claimable, TypeOK
<1>3. SameCarriers
  <2>1. n \in Attempt
    BY <1>2, GuestOutboxAssumption DEF Attempt
  <2> QED BY <1>1, <2>1, Elsewhere
<1>4. ASSUME NEW q \in Row PROVE Tells(q)
  <2>1. CASE q # r
    BY <1>1, <2>1, SameRowSameStory DEF TypeOK, Tells
  <2>2. CASE q = r
    <3>1. outbox'[r].status = "sending"
      BY <1>1 DEF TypeOK
    <3>2. Told'[r] = "open"
      BY <3>1 DEF Told
    <3>3. outbox[r].status \in {"queued", "failed", "sending"}
      BY <1>1 DEF Claimable, IInv, RowsAreFresh
    <3>4. Told[r] = "open"
      BY <1>1, <1>2, <3>3, GuestOutboxAssumption, ToldFacts DEF Claimable
    <3> QED BY <2>2, <3>2, <3>4 DEF Tells
  <2> QED BY <2>1, <2>2
<1> QED BY <1>1, <1>3, <1>4, TellStep

LEMMA LapseMaps ==
    ASSUME IInv, TypeOK', NEW r \in Row, LeaseLapses(r)
    PROVE  Notices!Next
<1>1. /\ TypeOK /\ outbox' = [outbox EXCEPT ![r] = [outbox[r] EXCEPT !.lapsed = TRUE]]
      /\ UNCHANGED <<contact, process, delivered>>
  BY DEF LeaseLapses, IInv, guestVars
<1>2. ASSUME NEW q \in Row PROVE Tells(q)
  <2>1. outbox[q] \in Entry /\ outbox \in [Row -> Entry]
    BY <1>1 DEF TypeOK, Entry
  <2>2. /\ outbox'[q].status = outbox[q].status /\ outbox'[q].unknown = outbox[q].unknown
        /\ outbox'[q].attempts = outbox[q].attempts
    BY <1>1, <2>1 DEF Entry
  <2> QED BY <2>2, SameRowSameStory DEF Tells
<1>3. SameCarriers
  BY <1>1 DEF SameCarriers
<1> QED BY <1>1, <1>2, <1>3, TellStep

\* An authorization is the notice's one offer: its row is claimed, so it is open; the
\* guest wants it; and nobody was authorized for it before, or it would be blocked.
LEMMA AuthorizeMaps ==
    ASSUME IInv, TypeOK', NEW p \in Dispatcher, NEW fresh \in BOOLEAN, Authorize(p, fresh)
    PROVE  Notices!Next
<1> DEFINE r == process[p].row
           sends == Claims(p, r) /\ ~outbox[r].lapsed /\ Current(r, fresh)
           to == IF sends THEN "send" ELSE "obsolete"
<1>1. /\ TypeOK /\ process[p].at = "authorize" /\ Goes(p, to)
      /\ UNCHANGED <<contact, outbox, delivered>>
  BY DEF Authorize, IInv, guestVars
<1>2. /\ r \in Row /\ process[p].attempt \in Attempt
      /\ Claims(p, r) => outbox[r].status = "sending"
  BY <1>1, BusyFacts DEF Attempting
<1>3. Told' = Told
  BY <1>1 DEF Told
<1>4. CASE sends
  <2>1. Told[r] = "open"
    BY <1>1, <1>2, <1>4, ToldFacts
  <2>2. Notices!Wanted(r)
    BY <1>2, <1>4 DEF Current, Notices!Wanted, Row
  <2>3. ~Hot(r)
    <3>1. ~Blocked(r)
      BY <1>1, <1>2, <1>4 DEF Blocked, Claims, IInv, AuthorizedOnce
    <3> QED BY <1>2, <3>1 DEF IInv, HotRowsAreBlocked
  <2>4. Notices!Unsent(r)
    <3>1. delivered[r] \in Nat /\ ~(delivered[r] > 0)
      BY <1>1, <1>2, <2>3 DEF TypeOK, Hot
    <3>2. Carriers[r] = {}
      BY <1>2, <2>3 DEF Hot, Carriers
    <3> QED BY <3>1, <3>2 DEF Notices!Unsent
  <2>5. Carriers' = [Carriers EXCEPT ![r] = {p}]
    <3>1. /\ process'[p].at = "send" /\ process'[p].row = r
          /\ \A q \in Dispatcher \ {p} : process'[q] = process[q]
      BY <1>1, <1>4 DEF Goes, TypeOK
    <3>2. Carriers'[r] = {p}
      BY <1>2, <2>3, <3>1 DEF Carriers, Hot
    <3>3. \A q \in Row \ {r} : Carriers'[q] = Carriers[q]
      BY <1>1, <3>1 DEF Carriers
    <3> QED BY <3>2, <3>3 DEF Carriers
  <2>6. Notices!Offer(p, r) /\ r \in Notices!Notice
    BY <1>1, <1>2, <1>3, <2>1, <2>2, <2>4, <2>5 DEF Notices!Offer, Notices!Notice, Row
  <2> QED BY <2>6 DEF Notices!Next
<1>5. CASE ~sends
  <2>1. SameCarriers
    BY <1>1, <1>5, Elsewhere DEF Locations
  <2>2. \A q \in Row : Tells(q)
    BY <1>3 DEF Tells
  <2> QED BY <1>1, <2>1, <2>2, TellStep
<1> QED BY <1>4, <1>5

LEMMA SendMaps ==
    ASSUME IInv, NEW p \in Dispatcher, NEW taken \in BOOLEAN, NEW answered \in BOOLEAN,
           Send(p, taken, answered)
    PROVE  Notices!Next
<1> DEFINE r == process[p].row
           to == IF ~answered THEN "unknown" ELSE IF taken THEN "record" ELSE "failed"
<1>1. /\ TypeOK /\ process[p].at = "send" /\ Goes(p, to)
      /\ delivered' = [delivered EXCEPT ![r] = IF taken THEN @ + 1 ELSE @]
      /\ UNCHANGED <<contact, outbox>>
  BY DEF Send, IInv, guestVars
<1>2. r \in Row /\ r \in Notices!Notice
  BY <1>1, BusyFacts DEF Attempting, Notices!Notice, Row
<1>3. Told' = Told
  BY <1>1 DEF Told
<1>4. p \in Carriers[r]
  BY <1>1, <1>2 DEF Carriers
<1>5. Carriers' = [Carriers EXCEPT ![r] = @ \ {p}]
  <2>1. process'[p].at # "send" /\ \A q \in Dispatcher \ {p} : process'[q] = process[q]
    BY <1>1 DEF Goes, TypeOK
  <2>2. Carriers'[r] = Carriers[r] \ {p}
    BY <1>2, <2>1 DEF Carriers
  <2>3. \A q \in Row \ {r} : Carriers'[q] = Carriers[q]
    BY <2>1 DEF Carriers
  <2> QED BY <2>2, <2>3 DEF Carriers
<1>6. Notices!Return(p, r, taken)
  BY <1>1, <1>3, <1>4, <1>5 DEF Notices!Return
<1> QED BY <1>2, <1>6 DEF Notices!Next

\* A late record reaches the row only while its claim lasts.
LEMMA ObsoleteMaps ==
    ASSUME IInv, TypeOK', NEW p \in Dispatcher, CancelObsolete(p)
    PROVE  Notices!Next
<1> DEFINE r == process[p].row
<1>1. /\ TypeOK /\ process[p].at = "obsolete" /\ Proceeds(p)
      /\ outbox' = IF Claims(p, r) THEN [outbox EXCEPT ![r] = Close(r, "cancelled")] ELSE outbox
      /\ UNCHANGED <<contact, delivered>>
  BY DEF CancelObsolete, IInv, guestVars
<1>2. SameCarriers
  BY <1>1, Elsewhere
<1>3. r \in Row /\ (Claims(p, r) => outbox[r].status = "sending")
  BY <1>1, BusyFacts DEF Attempting
<1>4. ASSUME NEW q \in Row PROVE Tells(q)
  <2>1. CASE q = r /\ Claims(p, r)
    <3>1. outbox'[r].status = "cancelled"
      BY <1>1, <1>3, <2>1, CloseFacts DEF TypeOK
    <3>2. ~Hot(r)
      BY <1>1, <2>1 DEF IInv, RefusedWereNotSent
    <3> QED BY <1>3, <2>1, <3>1, <3>2 DEF Tells
  <2>2. CASE ~(q = r /\ Claims(p, r))
    <3>1. outbox'[q] = outbox[q]
      BY <1>1, <1>3, <2>2 DEF TypeOK
    <3> QED BY <3>1, SameRowSameStory DEF Tells
  <2> QED BY <2>1, <2>2
<1> QED BY <1>1, <1>2, <1>4, TellStep

LEMMA RecordMaps ==
    ASSUME IInv, TypeOK', NEW p \in Dispatcher,
           RecordAcceptance(p) \/ RecordReceipt(p) \/ RecordRow(p)
    PROVE  Notices!Next
<1> DEFINE r == process[p].row
<1>1. /\ TypeOK /\ process[p].at \in {"record", "recordRow"}
      /\ Proceeds(p) \/ Goes(p, "recordRow")
      /\ outbox' = outbox \/ MarkSent(p)
      /\ UNCHANGED <<contact, delivered>>
  BY DEF RecordAcceptance, RecordReceipt, RecordRow, IInv, guestVars
<1>2. SameCarriers
  BY <1>1, Elsewhere DEF Locations
<1>3. /\ r \in Row /\ (Claims(p, r) => outbox[r].status = "sending")
      /\ delivered[r] > 0
  BY <1>1, BusyFacts DEF Attempting, IInv, AcceptedWereSent
<1>4. ASSUME NEW q \in Row PROVE Tells(q)
  <2>1. CASE outbox'[q] = outbox[q]
    BY <2>1, SameRowSameStory DEF Tells
  <2>2. CASE outbox'[q] # outbox[q]
    <3>1. q = r /\ Claims(p, r) /\ outbox'[r] = Close(r, "sent")
      BY <1>1, <1>3, <2>2 DEF MarkSent, TypeOK
    <3>2. outbox[r] \in Entry
      BY <1>1, <1>3 DEF TypeOK, Entry
    <3>3. outbox'[r].status = "sent"
      BY <3>1, <3>2 DEF Close, Entry
    <3> QED BY <1>3, <3>1, <3>3 DEF Tells, Pending
  <2> QED BY <2>1, <2>2
<1> QED BY <1>1, <1>2, <1>4, TellStep

LEMMA FailureMaps ==
    ASSUME IInv, TypeOK', NEW p \in Dispatcher, RecordFailure(p)
    PROVE  Notices!Next
<1> DEFINE r == process[p].row
           unknown == process[p].at = "unknown"
           closed == [Close(r, "failed") EXCEPT !.unknown = unknown]
<1>1. /\ TypeOK /\ process[p].at \in {"failed", "unknown"} /\ Proceeds(p)
      /\ outbox' = IF Claims(p, r) THEN [outbox EXCEPT ![r] = closed] ELSE outbox
      /\ UNCHANGED <<contact, delivered>>
  BY DEF RecordFailure, IInv, guestVars
<1>2. SameCarriers
  BY <1>1, Elsewhere
<1>3. r \in Row /\ (Claims(p, r) => outbox[r].status = "sending")
  BY <1>1, BusyFacts DEF Attempting
<1>4. ASSUME NEW q \in Row PROVE Tells(q)
  <2>1. CASE q = r /\ Claims(p, r)
    <3>1. outbox[r] \in Entry
      BY <1>1, <1>3 DEF TypeOK, Entry
    <3>2. closed.status = "failed"
      BY <3>1 DEF Close, Entry
    <3>3. outbox'[r].status = "failed"
      BY <1>1, <1>3, <2>1, <3>2 DEF TypeOK
    <3> QED BY <1>3, <2>1, <3>3 DEF Tells
  <2>2. CASE ~(q = r /\ Claims(p, r))
    <3>1. outbox'[q] = outbox[q]
      BY <1>1, <1>3, <2>2 DEF TypeOK
    <3> QED BY <3>1, SameRowSameStory DEF Tells
  <2> QED BY <2>1, <2>2
<1> QED BY <1>1, <1>2, <1>4, TellStep

LEMMA NextMaps ==
    ASSUME IInv, TypeOK', [Next]_vars
    PROVE  [Notices!Next]_(Notices!notices)
<1>1. ASSUME NEW vouched \in BOOLEAN, Register(vouched) PROVE Notices!Next
  BY <1>1, RegisterMaps
<1>2. ASSUME NEW g \in Generation, Verify(g) PROVE Notices!Next
  BY <1>2, VerifyMaps
<1>3. CASE Disable
  BY <1>3, DisableMaps
<1>4. CASE Settle \/ Withdraw \/ LinkExpires \/ LinkIsReissued \/ UNCHANGED vars
  <2>1. UNCHANGED <<contact, outbox, process, delivered>>
    BY <1>4 DEF Settle, Withdraw, LinkExpires, LinkIsReissued, vars
  <2> QED BY <2>1 DEF Notices!notices, Told, Carriers
<1>5. ASSUME NEW r \in Row, LeaseLapses(r) PROVE Notices!Next
  BY <1>5, LapseMaps
<1>6. ASSUME NEW p \in Dispatcher, DispatchStep(p) PROVE [Notices!Next]_(Notices!notices)
  <2>1. CASE EnqueueReminders(p)
    BY <2>1, EnqueueMaps
  <2>2. CASE \/ AdoptAccepted(p) \/ AgeReceipts(p) \/ AbandonUncertain(p)
             \/ FailExhausted(p) \/ EndDispatch(p) \/ FailToAuthorize(p)
    BY <2>2, RecoveryMaps
  <2>3. ASSUME NEW r \in Row, ClaimPing(p, r) PROVE Notices!Next
    BY <2>3, ClaimMaps
  <2>4. ASSUME NEW fresh \in BOOLEAN, Authorize(p, fresh) PROVE Notices!Next
    BY <2>4, AuthorizeMaps
  <2>5. CASE CancelObsolete(p)
    BY <2>5, ObsoleteMaps
  <2>6. ASSUME NEW taken \in BOOLEAN, NEW answered \in BOOLEAN, Send(p, taken, answered)
        PROVE  Notices!Next
    BY <2>6, SendMaps
  <2>7. CASE RecordAcceptance(p) \/ RecordReceipt(p) \/ RecordRow(p)
    BY <2>7, RecordMaps
  <2>8. CASE RecordFailure(p)
    BY <2>8, FailureMaps
  <2> QED BY <1>6, <2>1, <2>2, <2>3, <2>4, <2>5, <2>6, <2>7, <2>8 DEF DispatchStep
<1> QED BY <1>1, <1>2, <1>3, <1>4, <1>5, <1>6 DEF Next

\* Leases, claims, attempts, receipts and recovery are invisible from outside: every
\* step of the outbox is one of the notices it promises, or none
\* (guest-outbox.ts:156-354, guest-contact.ts:152-334).
THEOREM OutboxImplementsNotices == Spec => ImplementsNotices
<1>1. Init => Notices!Init
  <2> SUFFICES ASSUME Init PROVE Notices!Init
    OBVIOUS
  <2>1. Told = [n \in Notices!Notice |-> "none"]
    BY DEF Init, Told, Unwritten, Notices!Notice, Row
  <2>2. Carriers = [n \in Notices!Notice |-> {}]
    BY DEF Init, Carriers, Starting, Notices!Notice, Row
  <2> QED BY <2>1, <2>2 DEF Init, Notices!Init, Notices!Notice, Row
<1>2. IInv /\ IInv' /\ [Next]_vars => [Notices!Next]_(Notices!notices)
  BY NextMaps DEF IInv
<1> QED BY <1>1, <1>2, Invariance, PTL DEF Spec, ImplementsNotices, Notices!Spec
=============================================================================
