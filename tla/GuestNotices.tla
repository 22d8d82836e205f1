---------------------------- MODULE GuestNotices ----------------------------
(***************************************************************************)
(* What the guest outbox promises, without leases, claims, attempts or     *)
(* receipts: an email is offered to the provider only while hosts are told *)
(* that it is open and its address is the guest's, by one carrier at a     *)
(* time and never again once it was taken; what is told of it is final     *)
(* unless it was open, except that an email that was taken may be told so  *)
(* late; and an address is confirmed only by an email that reached it.     *)
(***************************************************************************)
EXTENDS Naturals

CONSTANTS
    Generation, \* the numbers of the guest's addresses
    Carrier     \* who may offer an email

VARIABLES
    contact,    \* the address in use, the guest's consent, and whether it is confirmed
    told,       \* what is told of each notice
    carriers,   \* who is offering its email
    taken       \* how often the provider took it

mail == <<carriers, taken>>
notices == <<contact, told, carriers, taken>>

Notice == {"verification", "reminder"} \X Generation
Waiting == {"open", "unknown", "failed"}
Story == {"none", "sent", "cancelled"} \cup Waiting

Init ==
    /\ contact = [generation |-> 0, consent |-> FALSE, verified |-> FALSE]
    /\ told = [n \in Notice |-> "none"]
    /\ carriers = [n \in Notice |-> {}]
    /\ taken = [n \in Notice |-> 0]

Unsent(n) == carriers[n] = {} /\ taken[n] = 0

Dropped(N) == [n \in Notice |-> IF n \in N /\ told[n] \in Waiting THEN "cancelled" ELSE told[n]]

\* Nothing stays open for an address that is given up.
Register(vouched) ==
    LET new == <<"verification", contact.generation + 1>>
    IN  /\ contact' = [generation |-> contact.generation + 1, consent |-> TRUE,
                       verified |-> vouched]
        /\ IF vouched THEN told' = Dropped(Notice)
           ELSE told[new] = "none" /\ told' = [Dropped(Notice) EXCEPT ![new] = "open"]
        /\ UNCHANGED mail

Disable ==
    /\ contact' = [contact EXCEPT !.generation = @ + 1, !.consent = FALSE]
    /\ told' = Dropped(Notice)
    /\ UNCHANGED mail

Confirm ==
    /\ contact.consent /\ ~contact.verified
    /\ taken[<<"verification", contact.generation>>] > 0
    /\ contact' = [contact EXCEPT !.verified = TRUE]
    /\ told' = Dropped({n \in Notice : n[1] = "verification"})
    /\ UNCHANGED mail

Remind ==
    LET new == <<"reminder", contact.generation>>
    IN  /\ contact.consent /\ contact.verified
        /\ told[new] = "none"
        /\ told' = [told EXCEPT ![new] = "open"]
        /\ UNCHANGED <<contact, mail>>

\* The guest wants this email at this address.
Wanted(n) ==
    /\ contact.consent /\ n[2] = contact.generation
    /\ n[1] = "verification" <=> ~contact.verified

Offer(c, n) ==
    /\ told[n] = "open" /\ Wanted(n) /\ Unsent(n)
    /\ carriers' = [carriers EXCEPT ![n] = {c}]
    /\ UNCHANGED <<contact, told, taken>>

Return(c, n, accepted) ==
    /\ c \in carriers[n]
    /\ carriers' = [carriers EXCEPT ![n] = @ \ {c}]
    /\ taken' = [taken EXCEPT ![n] = IF accepted THEN @ + 1 ELSE @]
    /\ UNCHANGED <<contact, told>>

MayTell(n, story) ==
    \/ story = "sent" /\ told[n] \in Waiting /\ taken[n] > 0
    \/ story \in {"unknown", "failed"} /\ told[n] = "open"
    \/ story = "cancelled" /\ told[n] = "open" /\ Unsent(n)

Tell ==
    /\ told' \in [Notice -> Story]
    /\ \A n \in Notice : told'[n] # told[n] => MayTell(n, told'[n])
    /\ UNCHANGED <<contact, mail>>

Next ==
    \/ \E vouched \in BOOLEAN : Register(vouched)
    \/ Disable \/ Confirm \/ Remind \/ Tell
    \/ \E c \in Carrier, n \in Notice :
          Offer(c, n) \/ \E accepted \in BOOLEAN : Return(c, n, accepted)

Spec == Init /\ [][Next]_notices
=============================================================================
