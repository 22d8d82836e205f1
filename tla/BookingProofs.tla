--------------------------- MODULE BookingProofs ---------------------------
(***************************************************************************)
(* Proofs about Booking for any house, calendar, parties and policies.     *)
(* The checked invariants are inductive together.  Two lemmas carry them:  *)
(* what a booking transaction leaves behind (BookingFacts), and what a     *)
(* cancellation leaves behind (CancellingFacts).                           *)
(***************************************************************************)
EXTENDS Booking, FiniteSetTheorems, TLAPS

IInv ==
    /\ TypeOK
    /\ RoomNightsExclusive
    /\ OneVisitPerInvitation
    /\ WithdrawnHoldsNothing
    /\ ApprovalIsForTheseTerms

\* Who is held, confirmed or moved in a step, and needs overflow then, was approved.
OverflowKept ==
    \A v \in Visit :
        Booked(v) /\ ~Sleeps(Standard, terms[v])'
        => (approval[v] = Held(v, TRUE) /\ Sleeps(Maximum, terms[v]))'

-----------------------------------------------------------------------------
(***************************************************************************)
(* Drafts                                                                  *)
(***************************************************************************)

\* Consent is the one field of a draft that its row leaves out.
LEMMA DraftFacts ==
    ASSUME NEW d \in Draft, NEW x \in BOOLEAN, NEW y \in BOOLEAN
    PROVE  /\ [d EXCEPT !.overflow = x] \in Draft
           /\ [d EXCEPT !.overflow = x].stay = d.stay
           /\ [d EXCEPT !.overflow = x].rooms = d.rooms
           /\ [d EXCEPT !.overflow = x].party = d.party
           /\ [d EXCEPT !.overflow = x].overflow = x
           /\ [d EXCEPT !.overflow = d.overflow] = d
           /\ [[d EXCEPT !.overflow = x] EXCEPT !.overflow = y] = [d EXCEPT !.overflow = y]
<1> DEFINE e == [d EXCEPT !.overflow = x]
           f == [d EXCEPT !.overflow = y]
           g == [e EXCEPT !.overflow = y]
           h == [d EXCEPT !.overflow = d.overflow]
<1>1. /\ e \in Draft /\ e.stay = d.stay /\ e.rooms = d.rooms /\ e.party = d.party
      /\ e.overflow = x
  BY DEF Draft
<1>2. /\ f \in Draft /\ f.stay = d.stay /\ f.rooms = d.rooms /\ f.party = d.party
      /\ f.overflow = y
  BY DEF Draft
<1>3. /\ g \in Draft /\ g.stay = d.stay /\ g.rooms = d.rooms /\ g.party = d.party
      /\ g.overflow = y
  <2> HIDE DEF e
  <2> QED BY <1>1 DEF Draft
<1>4. /\ h \in Draft /\ h.stay = d.stay /\ h.rooms = d.rooms /\ h.party = d.party
      /\ h.overflow = d.overflow
  BY DEF Draft
<1>5. ASSUME NEW a \in Draft, NEW b \in Draft, a.stay = b.stay, a.rooms = b.rooms,
             a.party = b.party, a.overflow = b.overflow
      PROVE  a = b
  <2>1. a = [stay |-> a.stay, party |-> a.party, rooms |-> a.rooms, overflow |-> a.overflow]
    BY DEF Draft
  <2>2. b = [stay |-> b.stay, party |-> b.party, rooms |-> b.rooms, overflow |-> b.overflow]
    BY DEF Draft
  <2> QED BY <1>5, <2>1, <2>2
<1>6. g = f
  <2> HIDE DEF f, g
  <2> QED BY <1>2, <1>3, <1>5
<1>7. h = d
  <2> HIDE DEF h
  <2> QED BY <1>4, <1>5
<1> QED BY <1>1, <1>6, <1>7

-----------------------------------------------------------------------------
(***************************************************************************)
(* What a transaction leaves behind                                        *)
(***************************************************************************)

\* A visit is booked and the lapsed holds are released; nobody else is touched.
LEMMA BookingFacts ==
    ASSUME TypeOK, NEW v \in Visit, NEW state \in {"hold", "confirmed"},
           NEW draft \in Draft, NEW hash \in Draft \cup {NoDraft},
           Booking(v, state, draft, hash), v \notin Lapsing,
           waiting' \in SUBSET Invitation, UNCHANGED <<withdrawn, hostVars>>
    PROVE  /\ TypeOK'
           /\ Active(v)' /\ status'[v] = state
           /\ terms'[v] = [draft EXCEPT !.overflow = FALSE]
           /\ approval'[v] = hash
           /\ \A u \in Visit \ {v} :
                 /\ Active(u)' <=> u \in Remaining
                 /\ u \in Remaining => /\ Active(u)
                                       /\ status'[u] = status[u]
                                       /\ terms'[u] = terms[u]
                                       /\ approval'[u] = approval[u]
                 /\ u \notin Remaining => approval'[u] \in {approval[u], NoDraft}
                 /\ u \in Lapsing => approval'[u] = NoDraft
<1>1. /\ Row(draft) \in Draft /\ Row(draft) # NoDraft
      /\ Row(draft) = [draft EXCEPT !.overflow = FALSE]
  <2>1. Row(draft) \in Draft
    BY DraftFacts DEF Row
  <2> QED BY <2>1, BookingAssumption DEF Row
<1>2. /\ status' = [u \in Visit |-> IF u = v THEN state
                                    ELSE IF u \in Lapsing THEN "cancelled" ELSE status[u]]
      /\ terms' = [u \in Visit |-> IF u = v THEN Row(draft)
                                   ELSE IF u \in Lapsing THEN NoDraft ELSE terms[u]]
      /\ approval' = [u \in Visit |-> IF u = v THEN hash
                                      ELSE IF u \in Lapsing THEN NoDraft ELSE approval[u]]
      /\ lapsed' = {}
  BY DEF Booking
<1>3. TypeOK'
  BY <1>1, <1>2 DEF TypeOK, hostVars
<1>4. Active(v)' /\ status'[v] = state /\ terms'[v] = Row(draft) /\ approval'[v] = hash
  BY <1>2 DEF Active
<1>5. ASSUME NEW u \in Visit \ {v}
      PROVE  /\ Active(u)' <=> u \in Remaining
             /\ u \in Remaining => /\ Active(u)
                                   /\ status'[u] = status[u]
                                   /\ terms'[u] = terms[u]
                                   /\ approval'[u] = approval[u]
             /\ u \notin Remaining => approval'[u] \in {approval[u], NoDraft}
             /\ u \in Lapsing => approval'[u] = NoDraft
  BY <1>2 DEF Active, Remaining, Lapsing
<1> QED BY <1>1, <1>3, <1>4, <1>5

\* Some visits are cancelled; the others are as they were.
LEMMA CancellingFacts ==
    ASSUME TypeOK, NEW S \in SUBSET Visit, Cancelling(S), UNCHANGED <<waiting, hostVars>>,
           withdrawn' \in SUBSET Invitation
    PROVE  /\ TypeOK'
           /\ \A u \in Visit :
                 /\ Active(u)' <=> Active(u) /\ u \notin S
                 /\ u \notin S => /\ status'[u] = status[u]
                                  /\ terms'[u] = terms[u]
                                  /\ approval'[u] = approval[u]
                 /\ u \in S => approval'[u] = NoDraft
BY DEF TypeOK, Cancelling, Active, hostVars

LEMMA CancellingStep ==
    ASSUME IInv, NEW S \in SUBSET Visit, Cancelling(S), UNCHANGED <<waiting, hostVars>>,
           withdrawn' \in SUBSET Invitation,
           \A u \in Visit \ S : MadeFor[u] \in withdrawn' /\ Active(u) => MadeFor[u] \in withdrawn
    PROVE  IInv'
<1>1. /\ TypeOK'
      /\ \A u \in Visit :
            /\ Active(u)' <=> Active(u) /\ u \notin S
            /\ u \notin S => /\ terms'[u] = terms[u]
                             /\ approval'[u] = approval[u]
            /\ u \in S => approval'[u] = NoDraft
  BY CancellingFacts DEF IInv
<1>2. RoomNightsExclusive'
  BY <1>1 DEF IInv, RoomNightsExclusive, Meets, hostVars
<1>3. OneVisitPerInvitation'
  BY <1>1 DEF IInv, OneVisitPerInvitation
<1>4. WithdrawnHoldsNothing'
  BY <1>1 DEF IInv, WithdrawnHoldsNothing
<1>5. ApprovalIsForTheseTerms'
  BY <1>1 DEF IInv, ApprovalIsForTheseTerms, SameTerms, Held
<1> QED BY <1>1, <1>2, <1>3, <1>4, <1>5 DEF IInv

\* What can be slept in depends on the rooms and the party alone.
LEMMA SleepsAlike ==
    ASSUME NEW places, NEW a, NEW b, a.rooms = b.rooms, a.party = b.party
    PROVE  Sleeps(places, a) <=> Sleeps(places, b)
BY DEF Sleeps

\* A visit takes a draft whose rooms are free and whose invitation is nobody else's.
LEMMA BookingStep ==
    ASSUME IInv, NEW v \in Visit, NEW state \in {"hold", "confirmed"},
           NEW draft \in Draft, NEW hash \in Draft \cup {NoDraft},
           Booking(v, state, draft, hash), v \notin Lapsing,
           waiting' \in SUBSET Invitation, UNCHANGED <<withdrawn, hostVars>>,
           \A r \in draft.rooms : Free(r, v, draft.stay),
           MadeFor[v] \notin withdrawn,
           \A u \in Remaining \ {v} : MadeFor[u] # MadeFor[v],
           hash # NoDraft => hash = [draft EXCEPT !.overflow = hash.overflow],
           ~Sleeps(Standard, draft)
           => hash = [draft EXCEPT !.overflow = TRUE] /\ Sleeps(Maximum, draft)
    PROVE  IInv' /\ OverflowKept
<1> DEFINE row == [draft EXCEPT !.overflow = FALSE]
<1>1. /\ TypeOK'
      /\ Active(v)' /\ terms'[v] = row /\ approval'[v] = hash
      /\ \A u \in Visit \ {v} :
            /\ Active(u)' <=> u \in Remaining
            /\ u \in Remaining => /\ Active(u)
                                  /\ status'[u] = status[u]
                                  /\ terms'[u] = terms[u]
                                  /\ approval'[u] = approval[u]
            /\ u \notin Remaining => approval'[u] \in {approval[u], NoDraft}
            /\ u \in Lapsing => approval'[u] = NoDraft
  BY BookingFacts DEF IInv
<1>2. /\ row.stay = draft.stay /\ row.rooms = draft.rooms /\ row.party = draft.party
      /\ \A y \in BOOLEAN : [row EXCEPT !.overflow = y] = [draft EXCEPT !.overflow = y]
  BY DraftFacts
<1> HIDE DEF row
<1>3. /\ \A u \in Remaining \ {v} :
            Meets(terms[u].stay, draft.stay) => ~Meets(terms[u].rooms, draft.rooms)
      /\ \A b \in Block :
            Meets(blocks[b].stay, draft.stay) => ~Meets(blocks[b].rooms, draft.rooms)
  BY DEF Free, Others, Meets
<1>4. RoomNightsExclusive'
  <2>1. \A u, w \in Visit :
           u # w /\ Active(u)' /\ Active(w)' /\ Meets(terms'[u].stay, terms'[w].stay)
           => ~Meets(terms'[u].rooms, terms'[w].rooms)
    <3> SUFFICES ASSUME NEW u \in Visit, NEW w \in Visit, u # w, Active(u)', Active(w)',
                        Meets(terms'[u].stay, terms'[w].stay)
                 PROVE  ~Meets(terms'[u].rooms, terms'[w].rooms)
      OBVIOUS
    <3>1. CASE u = v
      BY <1>1, <1>2, <1>3, <3>1 DEF Meets
    <3>2. CASE w = v
      BY <1>1, <1>2, <1>3, <3>2 DEF Meets
    <3>3. CASE u # v /\ w # v
      BY <1>1, <3>3 DEF IInv, RoomNightsExclusive
    <3> QED BY <3>1, <3>2, <3>3
  <2>2. \A u \in Visit, b \in Block :
           Active(u)' /\ Meets(terms'[u].stay, blocks[b].stay)
           => ~Meets(terms'[u].rooms, blocks[b].rooms)
    <3> SUFFICES ASSUME NEW u \in Visit, NEW b \in Block, Active(u)',
                        Meets(terms'[u].stay, blocks[b].stay)
                 PROVE  ~Meets(terms'[u].rooms, blocks[b].rooms)
      OBVIOUS
    <3>1. CASE u = v
      BY <1>1, <1>2, <1>3, <3>1 DEF Meets
    <3>2. CASE u # v
      BY <1>1, <3>2 DEF IInv, RoomNightsExclusive
    <3> QED BY <3>1, <3>2
  <2>3. blocks' = blocks
    BY DEF hostVars
  <2> QED BY <2>1, <2>2, <2>3 DEF IInv, RoomNightsExclusive, Meets
<1>5. OneVisitPerInvitation'
  BY <1>1 DEF IInv, OneVisitPerInvitation
<1>6. WithdrawnHoldsNothing'
  BY <1>1 DEF IInv, WithdrawnHoldsNothing
<1>7. ApprovalIsForTheseTerms'
  <2> SUFFICES ASSUME NEW u \in Visit, approval'[u] # NoDraft
               PROVE  Active(u)' /\ [terms'[u] EXCEPT !.overflow = approval'[u].overflow]
                                    = approval'[u]
    BY DEF ApprovalIsForTheseTerms, SameTerms, Held
  <2>1. CASE u = v
    <3>1. hash \in Draft /\ hash.overflow \in BOOLEAN
      BY <1>1, <2>1 DEF Draft
    <3> QED BY <1>1, <1>2, <2>1, <3>1
  <2>2. CASE u # v
    <3>1. approval[u] # NoDraft /\ u \notin Lapsing
      BY <1>1, <2>2
    <3>2. Active(u) /\ u \in Remaining
      BY <3>1 DEF IInv, ApprovalIsForTheseTerms, Remaining
    <3> QED BY <1>1, <2>2, <3>1, <3>2 DEF IInv, ApprovalIsForTheseTerms, SameTerms, Held
  <2> QED BY <2>1, <2>2
<1>8. OverflowKept
  <2>1. Standard' = Standard /\ Maximum' = Maximum
    BY DEF Standard, Maximum, hostVars
  <2> SUFFICES ASSUME NEW u \in Visit, Booked(u), ~Sleeps(Standard, terms'[u])
               PROVE  /\ approval'[u] = [terms'[u] EXCEPT !.overflow = TRUE]
                      /\ Sleeps(Maximum, terms'[u])
    BY <2>1 DEF OverflowKept, Held, Sleeps
  <2>2. u = v
    BY <1>1 DEF Booked
  <2>3. terms'[u].rooms = draft.rooms /\ terms'[u].party = draft.party
    BY <1>1, <1>2, <2>2
  <2>4. /\ Sleeps(Standard, terms'[u]) <=> Sleeps(Standard, draft)
        /\ Sleeps(Maximum, terms'[u]) <=> Sleeps(Maximum, draft)
    BY <2>3, SleepsAlike
  <2> QED BY <1>1, <1>2, <2>2, <2>4
<1> QED BY <1>1, <1>4, <1>5, <1>6, <1>7, <1>8 DEF IInv

-----------------------------------------------------------------------------
(***************************************************************************)
(* The operations                                                          *)
(***************************************************************************)

LEMMA InitIInv == Init => IInv
BY BookingAssumption
   DEF Init, IInv, TypeOK, RoomNightsExclusive, OneVisitPerInvitation, WithdrawnHoldsNothing,
       ApprovalIsForTheseTerms, Active, Meets, NoBlock

LEMMA CreateStep ==
    ASSUME IInv, NEW v \in Visit, NEW draft \in Draft, NEW approved \in BOOLEAN,
           CreateTemporaryHold(v, draft, approved)
    PROVE  IInv' /\ OverflowKept
<1> DEFINE hash == IF approved THEN draft ELSE NoDraft
<1>1. /\ status[v] = "none" /\ MadeFor[v] \notin withdrawn
      /\ ~HasActiveVisit(MadeFor[v]) /\ Selectable(v, draft, approved)
      /\ Booking(v, "hold", draft, hash)
      /\ waiting' = waiting \ {MadeFor[v]} /\ UNCHANGED <<withdrawn, hostVars>>
  BY DEF CreateTemporaryHold
<1>2. v \notin Lapsing /\ waiting' \in SUBSET Invitation /\ hash \in Draft \cup {NoDraft}
  BY <1>1 DEF Lapsing, IInv, TypeOK
<1>3. \A r \in draft.rooms : Free(r, v, draft.stay)
  BY <1>1 DEF Selectable
<1>4. \A u \in Remaining \ {v} : MadeFor[u] # MadeFor[v]
  BY <1>1 DEF HasActiveVisit
<1>5. draft.overflow \in BOOLEAN /\ [draft EXCEPT !.overflow = draft.overflow] = draft
  BY DraftFacts DEF Draft
<1>6. hash # NoDraft => hash = [draft EXCEPT !.overflow = hash.overflow]
  BY <1>5
<1>7. ~Sleeps(Standard, draft)
      => hash = [draft EXCEPT !.overflow = TRUE] /\ Sleeps(Maximum, draft)
  <2> SUFFICES ASSUME ~Sleeps(Standard, draft)
               PROVE  hash = [draft EXCEPT !.overflow = TRUE] /\ Sleeps(Maximum, draft)
    OBVIOUS
  <2>1. Sleeps(Maximum, draft) /\ draft.overflow /\ approved
    BY <1>1 DEF Selectable, Fits
  <2>2. draft.overflow = TRUE
    BY <1>5, <2>1
  <2> QED BY <1>5, <2>1, <2>2
<1> HIDE DEF hash
<1> QED BY <1>1, <1>2, <1>3, <1>4, <1>6, <1>7, BookingStep

\* An active visit has terms, and its invitation is its own and not withdrawn.
LEMMA ActiveFacts ==
    ASSUME IInv, NEW v \in Visit, Active(v), v \notin Lapsing
    PROVE  /\ terms[v] \in Draft
           /\ approval[v] \in Draft \cup {NoDraft}
           /\ MadeFor[v] \notin withdrawn
           /\ \A u \in Remaining \ {v} : MadeFor[u] # MadeFor[v]
BY DEF IInv, TypeOK, Active, Remaining, WithdrawnHoldsNothing, OneVisitPerInvitation

LEMMA ConfirmStep ==
    ASSUME IInv, NEW v \in Visit, NEW approved \in BOOLEAN, ConfirmVisit(v, approved)
    PROVE  IInv' /\ OverflowKept
<1> DEFINE consented == approval[v] = Held(v, TRUE)
           draft == Held(v, consented)
           hash == IF approved THEN draft ELSE approval[v]
<1>1. /\ status[v] = "hold" /\ v \notin lapsed
      /\ Selectable(v, draft, consented)
      /\ Booking(v, "confirmed", terms[v], hash)
      /\ UNCHANGED <<waiting, withdrawn, hostVars>>
  BY DEF ConfirmVisit
<1>2. Active(v) /\ v \notin Lapsing /\ waiting' \in SUBSET Invitation
  BY <1>1 DEF Active, Lapsing, IInv, TypeOK
<1>3. consented \in BOOLEAN
  OBVIOUS
<1>4. /\ terms[v] \in Draft /\ approval[v] \in Draft \cup {NoDraft}
      /\ MadeFor[v] \notin withdrawn
      /\ \A u \in Remaining \ {v} : MadeFor[u] # MadeFor[v]
  BY <1>2, ActiveFacts
<1>5. consented => approval[v] = Held(v, TRUE) /\ draft = Held(v, TRUE)
  OBVIOUS
<1> HIDE DEF consented
<1>6. /\ draft \in Draft /\ draft.stay = terms[v].stay /\ draft.rooms = terms[v].rooms
      /\ draft.party = terms[v].party /\ draft.overflow = consented
      /\ draft = [terms[v] EXCEPT !.overflow = consented]
  <2>1. draft = [terms[v] EXCEPT !.overflow = consented]
    BY DEF Held
  <2> HIDE DEF draft
  <2>2. /\ [terms[v] EXCEPT !.overflow = consented] \in Draft
        /\ [terms[v] EXCEPT !.overflow = consented].stay = terms[v].stay
        /\ [terms[v] EXCEPT !.overflow = consented].rooms = terms[v].rooms
        /\ [terms[v] EXCEPT !.overflow = consented].party = terms[v].party
        /\ [terms[v] EXCEPT !.overflow = consented].overflow = consented
    BY <1>3, <1>4 DEF Draft
  <2> QED BY <2>1, <2>2
<1> HIDE DEF draft
<1>7. \A r \in terms[v].rooms : Free(r, v, terms[v].stay)
  BY <1>1, <1>6 DEF Selectable
<1>8. hash \in Draft \cup {NoDraft}
  BY <1>4, <1>6
<1>9. hash # NoDraft => hash = [terms[v] EXCEPT !.overflow = hash.overflow]
  <2>1. approval[v] # NoDraft => approval[v] = [terms[v] EXCEPT !.overflow = approval[v].overflow]
    BY DEF IInv, ApprovalIsForTheseTerms, SameTerms, Held
  <2> QED BY <1>6, <2>1
<1>10. ~Sleeps(Standard, terms[v])
       => hash = [terms[v] EXCEPT !.overflow = TRUE] /\ Sleeps(Maximum, terms[v])
  <2> SUFFICES ASSUME ~Sleeps(Standard, terms[v])
               PROVE  hash = Held(v, TRUE) /\ Sleeps(Maximum, terms[v])
    BY DEF Held
  <2>1. /\ Sleeps(Standard, draft) <=> Sleeps(Standard, terms[v])
        /\ Sleeps(Maximum, draft) <=> Sleeps(Maximum, terms[v])
    BY <1>6, SleepsAlike
  <2>2. consented /\ Sleeps(Maximum, draft)
    BY <1>1, <2>1 DEF Selectable, Fits
  <2> QED BY <1>5, <2>1, <2>2
<1> HIDE DEF hash
<1> QED BY <1>1, <1>2, <1>4, <1>7, <1>8, <1>9, <1>10, BookingStep

LEMMA RescheduleStep ==
    ASSUME IInv, NEW v \in Visit, NEW draft \in Draft, NEW approved \in BOOLEAN,
           RescheduleVisit(v, draft, approved)
    PROVE  IInv' /\ OverflowKept
<1> DEFINE hash == ApprovalAfter(v, draft, approved)
<1>1. /\ Active(v) /\ v \notin Lapsing /\ Selectable(v, draft, approved)
      /\ Booking(v, "confirmed", draft, hash)
      /\ UNCHANGED <<waiting, withdrawn, hostVars>>
  BY DEF RescheduleVisit
<1>2. waiting' \in SUBSET Invitation
  BY <1>1 DEF IInv, TypeOK
<1>3. MadeFor[v] \notin withdrawn /\ \A u \in Remaining \ {v} : MadeFor[u] # MadeFor[v]
  BY <1>1, ActiveFacts
<1>4. \A r \in draft.rooms : Free(r, v, draft.stay)
  BY <1>1 DEF Selectable
<1>5. draft.overflow \in BOOLEAN /\ [draft EXCEPT !.overflow = draft.overflow] = draft
  BY DraftFacts DEF Draft
<1>6. /\ hash \in {draft, NoDraft}
      /\ approved => hash = draft
  BY DEF ApprovalAfter
<1>7. hash # NoDraft => hash = [draft EXCEPT !.overflow = hash.overflow]
  BY <1>5, <1>6
<1>8. ~Sleeps(Standard, draft)
      => hash = [draft EXCEPT !.overflow = TRUE] /\ Sleeps(Maximum, draft)
  <2> SUFFICES ASSUME ~Sleeps(Standard, draft)
               PROVE  hash = [draft EXCEPT !.overflow = TRUE] /\ Sleeps(Maximum, draft)
    OBVIOUS
  <2>1. Sleeps(Maximum, draft) /\ draft.overflow /\ approved
    BY <1>1 DEF Selectable, Fits
  <2>2. draft.overflow = TRUE
    BY <1>5, <2>1
  <2> QED BY <1>5, <1>6, <2>1, <2>2
<1>9. hash \in Draft \cup {NoDraft}
  BY <1>6
<1> HIDE DEF hash
<1> QED BY <1>1, <1>2, <1>3, <1>4, <1>7, <1>8, <1>9, BookingStep

LEMMA CancelStep ==
    ASSUME IInv,
           \/ ExpireHolds
           \/ \E v \in Visit : CancelVisit(v)
           \/ \E i \in Invitation : WithdrawInvitation(i)
    PROVE  IInv'
<1>1. CASE ExpireHolds
  <2>1. Lapsing \in SUBSET Visit
    BY DEF Lapsing
  <2> QED BY <1>1, <2>1, CancellingStep DEF ExpireHolds, IInv, TypeOK
<1>2. ASSUME NEW v \in Visit, CancelVisit(v) PROVE IInv'
  BY <1>2, CancellingStep DEF CancelVisit, IInv, TypeOK
<1>3. ASSUME NEW i \in Invitation, WithdrawInvitation(i) PROVE IInv'
  <2> DEFINE active == {v \in Visit : Active(v) /\ MadeFor[v] = i}
  <2>1. /\ active \in SUBSET Visit /\ Cancelling(active)
        /\ withdrawn' = withdrawn \cup {i}
        /\ UNCHANGED <<waiting, hostVars>>
    BY <1>3 DEF WithdrawInvitation
  <2>2. withdrawn' \in SUBSET Invitation
    BY <2>1 DEF IInv, TypeOK
  <2>3. \A u \in Visit \ active : MadeFor[u] \in withdrawn' /\ Active(u)
                                  => MadeFor[u] \in withdrawn
    BY <2>1
  <2> HIDE DEF active
  <2> QED BY <2>1, <2>2, <2>3, CancellingStep
<1> QED BY <1>1, <1>2, <1>3

LEMMA BlockStep ==
    ASSUME IInv, NEW b \in Block,
           \/ CancelBlock(b)
           \/ \E rooms \in SUBSET Room, stay \in Stay : BlockRooms(b, rooms, stay)
    PROVE  IInv'
<1>1. /\ UNCHANGED <<visitVars, waiting, withdrawn, overrides, inventory, rules>>
      /\ blocks' \in [Block -> [rooms : SUBSET Room, stay : Stay] \cup {NoBlock}]
  BY DEF IInv, TypeOK, CancelBlock, BlockRooms
<1>2. TypeOK'
  BY <1>1 DEF IInv, TypeOK, visitVars
<1>3. RoomNightsExclusive'
  <2>1. CASE CancelBlock(b)
    <3>1. blocks'[b].rooms = {} /\ \A c \in Block \ {b} : blocks'[c] = blocks[c]
      BY <2>1 DEF CancelBlock, NoBlock, IInv, TypeOK
    <3> QED BY <1>1, <3>1 DEF IInv, RoomNightsExclusive, Meets, visitVars, Active
  <2>2. ASSUME NEW rooms \in SUBSET Room, NEW stay \in Stay, BlockRooms(b, rooms, stay)
        PROVE  RoomNightsExclusive'
    <3>1. /\ blocks'[b].rooms = rooms /\ blocks'[b].stay = stay
          /\ \A c \in Block \ {b} : blocks'[c] = blocks[c]
          /\ \A v \in Visit : Active(v) /\ Meets(terms[v].stay, stay)
                              => ~Meets(terms[v].rooms, rooms)
          /\ \A c \in Block : Meets(blocks[c].stay, stay) => ~Meets(blocks[c].rooms, rooms)
      BY <2>2 DEF BlockRooms, IInv, TypeOK
    <3>2. \A u, v \in Visit :
             u # v /\ Active(u) /\ Active(v) /\ Meets(terms[u].stay, terms[v].stay)
             => ~Meets(terms[u].rooms, terms[v].rooms)
      BY DEF IInv, RoomNightsExclusive
    <3>3. \A v \in Visit, c \in Block :
             Active(v) /\ Meets(terms[v].stay, blocks'[c].stay)
             => ~Meets(terms[v].rooms, blocks'[c].rooms)
      BY <3>1 DEF IInv, RoomNightsExclusive
    <3>4. \A c, d \in Block :
             c # d /\ Meets(blocks'[c].stay, blocks'[d].stay)
             => ~Meets(blocks'[c].rooms, blocks'[d].rooms)
      BY <3>1 DEF IInv, RoomNightsExclusive, Meets
    <3> QED BY <1>1, <3>2, <3>3, <3>4 DEF RoomNightsExclusive, Active, Meets, visitVars
  <2> QED BY <2>1, <2>2
<1>4. OneVisitPerInvitation' /\ WithdrawnHoldsNothing'
  BY <1>1 DEF IInv, OneVisitPerInvitation, WithdrawnHoldsNothing, visitVars, Active
<1>5. ApprovalIsForTheseTerms'
  BY <1>1 DEF IInv, ApprovalIsForTheseTerms, visitVars, Active, SameTerms, Held
<1> QED BY <1>2, <1>3, <1>4, <1>5 DEF IInv

\* A step that leaves visits, blocks and withdrawals alone.
LEMMA AsideStep ==
    ASSUME IInv, TypeOK', UNCHANGED <<status, terms, approval, withdrawn, blocks>>
    PROVE  IInv'
BY DEF IInv, RoomNightsExclusive, OneVisitPerInvitation, WithdrawnHoldsNothing,
       ApprovalIsForTheseTerms, Active, Meets, SameTerms, Held

LEMMA NextIInv == IInv /\ [Next]_vars => IInv'
<1> SUFFICES ASSUME IInv, [Next]_vars PROVE IInv'
  OBVIOUS
<1>1. ASSUME NEW i \in Invitation, LookUpInvitation(i) \/ RefuseHold(i) PROVE IInv'
  BY <1>1, AsideStep DEF LookUpInvitation, RefuseHold, IInv, TypeOK, visitVars, hostVars
<1>2. ASSUME NEW v \in Visit, HoldLapses(v) PROVE IInv'
  BY <1>2, AsideStep DEF HoldLapses, IInv, TypeOK, hostVars
<1>3. ASSUME NEW o \in Override, CreateOverride(o) \/ RemoveOverride(o) PROVE IInv'
  BY <1>3, AsideStep DEF CreateOverride, RemoveOverride, IInv, TypeOK, visitVars
<1>4. ASSUME NEW r \in Room, NEW entry \in Entries[r], UpdateInventory(r, entry) PROVE IInv'
  <2>1. entry \in Entry
    BY BookingAssumption
  <2>2. /\ inventory' \in [Room -> Entry]
        /\ \A q \in Room : inventory'[q] \in Entries[q]
    BY <1>4, <2>1 DEF UpdateInventory, IInv, TypeOK
  <2>3. TypeOK'
    BY <1>4, <2>2 DEF UpdateInventory, IInv, TypeOK, visitVars
  <2> QED BY <1>4, <2>3, AsideStep DEF UpdateInventory, visitVars
<1>5. ASSUME NEW policy \in Rules, UpdatePolicy(policy) PROVE IInv'
  BY <1>5, AsideStep DEF UpdatePolicy, IInv, TypeOK, visitVars
<1>6. CASE UNCHANGED vars
  BY <1>6, AsideStep DEF vars, IInv, TypeOK
<1>7. CASE GuestStep
  BY <1>1, <1>2, <1>7, CreateStep, ConfirmStep, RescheduleStep, CancelStep DEF GuestStep
<1>8. CASE HostStep
  BY <1>3, <1>4, <1>5, <1>8, BlockStep DEF HostStep
<1> QED BY <1>6, <1>7, <1>8 DEF Next

-----------------------------------------------------------------------------
(***************************************************************************)
(* Invariants                                                              *)
(***************************************************************************)

\* The invariant everything else follows from.
THEOREM Invariance == Spec => []IInv
BY InitIInv, NextIInv, PTL DEF Spec

\* Bookings, blocks and controls stay well formed.
THEOREM TypeCorrect == Spec => []TypeOK
<1>1. IInv => TypeOK
  BY DEF IInv
<1> QED BY <1>1, Invariance, PTL

\* No room is given to two parties for one night (holds.ts:775-831, operations.ts:125-180).
THEOREM RoomsExclusive == Spec => []RoomNightsExclusive
<1>1. IInv => RoomNightsExclusive
  BY DEF IInv
<1> QED BY <1>1, Invariance, PTL

\* An invitation never has two active visits (holds.ts:175-199).
THEOREM OneVisit == Spec => []OneVisitPerInvitation
<1>1. IInv => OneVisitPerInvitation
  BY DEF IInv
<1> QED BY <1>1, Invariance, PTL

\* No hold slips past the withdrawal of its invitation (holds.ts:151-173).
THEOREM WithdrawalFreesRooms == Spec => []WithdrawnHoldsNothing
<1>1. IInv => WithdrawnHoldsNothing
  BY DEF IInv
<1> QED BY <1>1, Invariance, PTL

\* Approvals describe the visit as it is (holds.ts:281-309, 481-488).
THEOREM ApprovalsHold == Spec => []ApprovalIsForTheseTerms
<1>1. IInv => ApprovalIsForTheseTerms
  BY DEF IInv
<1> QED BY <1>1, Invariance, PTL

\* Where nobody is held, confirmed or moved there is nothing to approve.
LEMMA NobodyBooked ==
    ASSUME \A u \in Visit : Active(u)' => status'[u] = status[u] /\ terms'[u] = terms[u]
    PROVE  OverflowKept
BY DEF OverflowKept, Booked

\* Whoever is held, confirmed or moved with a party beyond the standard capacity of that
\* moment was approved with exactly these terms, and the rooms can sleep the party
\* (holds.ts:281-309, occupancy.ts:48-84), whatever hosts make of the rooms before and
\* after (operations.ts:212-243).
THEOREM OverflowNeedsApproval == Spec => OverflowIsApproved
<1>1. ASSUME IInv, Next PROVE OverflowKept
  <2>1. CASE \/ ExpireHolds
             \/ \E v \in Visit : CancelVisit(v)
             \/ \E i \in Invitation : WithdrawInvitation(i)
    <3>1. PICK S : Cancelling(S)
      BY <2>1 DEF ExpireHolds, CancelVisit, WithdrawInvitation
    <3> QED BY <1>1, <3>1, NobodyBooked DEF Cancelling, Active, IInv, TypeOK
  <2>2. CASE UNCHANGED <<status, terms>>
    BY <2>2, NobodyBooked
  <2>3. CASE GuestStep
    BY <1>1, <2>1, <2>2, <2>3, CreateStep, ConfirmStep, RescheduleStep
       DEF GuestStep, LookUpInvitation, RefuseHold, HoldLapses, visitVars
  <2>4. CASE HostStep
    BY <2>2, <2>4 DEF HostStep, CancelBlock, BlockRooms, CreateOverride, RemoveOverride,
       UpdateInventory, UpdatePolicy, visitVars
  <2> QED BY <1>1, <2>3, <2>4 DEF Next
<1>2. ASSUME IInv, [Next]_vars
      PROVE  [\A v \in Visit :
                Booked(v) /\ ~Sleeps(Standard, terms[v])'
                => (approval[v] = Held(v, TRUE) /\ Sleeps(Maximum, terms[v]))']_vars
  BY <1>1, <1>2 DEF OverflowKept
<1> QED BY <1>2, Invariance, PTL DEF Spec, OverflowIsApproved

-----------------------------------------------------------------------------
(***************************************************************************)
(* The policy                                                              *)
(***************************************************************************)

\* A night stays within the policy if nobody is added to it or who is added fits.
LEMMA ThinNights ==
    ASSUME TypeOK, NEW n \in Night, rules' = rules, NightObeys(n),
           FamiliesOn(n)' \subseteq FamiliesOn(n) \/ Cardinality(FamiliesOn(n)') <= rules.families,
           \/ PetsOn(n)' \subseteq PetsOn(n)
           \/ rules.together
           \/ \A u, w \in PetsOn(n)' : u = w
    PROVE  NightObeys(n)'
<1>1. IsFiniteSet(FamiliesOn(n))
  BY FS_Subset, BookingAssumption DEF FamiliesOn
<1>2. /\ Cardinality(FamiliesOn(n)) \in Nat /\ rules.families \in Nat
      /\ rules.together \in BOOLEAN
  BY <1>1, FS_CardinalityType, BookingAssumption DEF TypeOK
<1>3. CASE FamiliesOn(n)' \subseteq FamiliesOn(n)
  <2>1. /\ IsFiniteSet(FamiliesOn(n)')
        /\ Cardinality(FamiliesOn(n)') <= Cardinality(FamiliesOn(n))
    BY <1>1, <1>3, FS_Subset
  <2>2. Cardinality(FamiliesOn(n)') \in Nat
    BY <2>1, FS_CardinalityType
  <2>3. Cardinality(FamiliesOn(n)') <= rules.families
    BY <1>2, <2>1, <2>2 DEF NightObeys
  <2> QED BY <2>3 DEF NightObeys
<1>4. CASE Cardinality(FamiliesOn(n)') <= rules.families
  BY <1>4 DEF NightObeys
<1> QED BY <1>3, <1>4

\* The nights of an allowed visit obey the policy as far as it is concerned; on all
\* others nobody is added.
LEMMA AllowedNights ==
    ASSUME TypeOK, NEW v \in Visit, NEW state \in {"hold", "confirmed"},
           NEW booked \in Draft, NEW hash \in Draft \cup {NoDraft},
           Booking(v, state, booked, hash), v \notin Lapsing,
           waiting' \in SUBSET Invitation, UNCHANGED <<withdrawn, hostVars>>,
           NEW draft \in Draft, draft.stay = booked.stay, draft.party = booked.party,
           Allowed(v, draft), NEW n \in Night
    PROVE  /\ n \in terms'[v].stay <=> n \in draft.stay
           /\ terms'[v].party = draft.party
           /\ n \notin draft.stay \/ draft.party \notin Children
              => FamiliesOn(n)' \subseteq FamiliesOn(n)
           /\ n \in draft.stay /\ draft.party \in Children
              => Cardinality(FamiliesOn(n)') <= rules.families
           /\ n \notin draft.stay \/ draft.party \notin Pets
              => PetsOn(n)' \subseteq PetsOn(n)
           /\ n \in draft.stay /\ draft.party \in Pets /\ ~rules.together
              => PetsOn(n)' = {v}
<1>1. /\ Active(v)' /\ terms'[v] = [booked EXCEPT !.overflow = FALSE]
      /\ \A u \in Visit \ {v} :
            /\ Active(u)' <=> u \in Remaining
            /\ u \in Remaining => Active(u) /\ terms'[u] = terms[u]
  BY BookingFacts
<1>2. terms'[v].stay = draft.stay /\ terms'[v].party = draft.party
  <2>1. /\ [booked EXCEPT !.overflow = FALSE].stay = booked.stay
        /\ [booked EXCEPT !.overflow = FALSE].party = booked.party
    BY DEF Draft
  <2> QED BY <1>1, <2>1
<1>3. n \notin draft.stay \/ draft.party \notin Children => FamiliesOn(n)' \subseteq FamiliesOn(n)
  BY <1>1, <1>2 DEF FamiliesOn
<1>4. n \notin draft.stay \/ draft.party \notin Pets => PetsOn(n)' \subseteq PetsOn(n)
  BY <1>1, <1>2 DEF PetsOn
<1>5. ASSUME n \in draft.stay, draft.party \in Children
      PROVE  Cardinality(FamiliesOn(n)') <= rules.families
  <2> DEFINE others == {u \in Others(v, draft.stay) : terms[u].party \in Children}
  <2>1. FamiliesOn(n)' \subseteq others \cup {v}
    BY <1>1, <1>5 DEF FamiliesOn, Others, Meets
  <2>2. IsFiniteSet(others) /\ v \notin others
    <3>1. others \subseteq Visit /\ v \notin others
      BY DEF Others, Remaining
    <3> QED BY <3>1, FS_Subset, BookingAssumption
  <2>3. Cardinality(others) < rules.families
    BY <1>5 DEF Allowed
  <2> HIDE DEF others
  <2>4. /\ IsFiniteSet(others \cup {v})
        /\ Cardinality(others \cup {v}) = Cardinality(others) + 1
    BY <2>2, FS_AddElement
  <2>5. /\ IsFiniteSet(FamiliesOn(n)')
        /\ Cardinality(FamiliesOn(n)') <= Cardinality(others \cup {v})
    BY <2>1, <2>4, FS_Subset
  <2>6. /\ Cardinality(others) \in Nat /\ Cardinality(FamiliesOn(n)') \in Nat
        /\ rules.families \in Nat
    BY <2>2, <2>5, FS_CardinalityType, BookingAssumption DEF TypeOK
  <2> QED BY <2>3, <2>4, <2>5, <2>6
<1>6. ASSUME n \in draft.stay, draft.party \in Pets, ~rules.together
      PROVE  PetsOn(n)' = {v}
  <2>1. \A u \in Others(v, draft.stay) : terms[u].party \notin Pets
    BY <1>6 DEF Allowed
  <2>2. \A u \in PetsOn(n)' : u = v
    BY <1>1, <1>6, <2>1 DEF PetsOn, Others, Meets
  <2>3. v \in PetsOn(n)'
    BY <1>1, <1>2, <1>6 DEF PetsOn
  <2> QED BY <2>2, <2>3
<1> QED BY <1>2, <1>3, <1>4, <1>5, <1>6

\* A confirmation books the terms that were held, with or without consent.
LEMMA ConfirmFacts ==
    ASSUME TypeOK, NEW v \in Visit, NEW approved \in BOOLEAN, ConfirmVisit(v, approved)
    PROVE  \E draft \in Draft, hash \in Draft \cup {NoDraft} :
              /\ draft.stay = terms[v].stay /\ draft.party = terms[v].party
              /\ terms[v] \in Draft /\ v \notin Lapsing
              /\ Allowed(v, draft)
              /\ Booking(v, "confirmed", terms[v], hash)
              /\ UNCHANGED <<waiting, withdrawn, hostVars>>
<1> DEFINE consented == approval[v] = Held(v, TRUE)
           draft == Held(v, consented)
           hash == IF approved THEN draft ELSE approval[v]
<1>1. /\ status[v] = "hold" /\ v \notin lapsed /\ Allowed(v, draft)
      /\ Booking(v, "confirmed", terms[v], hash)
      /\ UNCHANGED <<waiting, withdrawn, hostVars>>
  BY DEF ConfirmVisit
<1>2. consented \in BOOLEAN
  OBVIOUS
<1> HIDE DEF consented
<1>3. /\ terms[v] \in Draft /\ approval[v] \in Draft \cup {NoDraft} /\ v \notin Lapsing
  BY <1>1 DEF TypeOK, Lapsing
<1>4. /\ draft \in Draft /\ draft.stay = terms[v].stay /\ draft.party = terms[v].party
  BY <1>2, <1>3 DEF Draft, Held
<1>5. hash \in Draft \cup {NoDraft}
  BY <1>3, <1>4
<1> HIDE DEF draft, hash
<1> QED BY <1>1, <1>3, <1>4, <1>5

\* A step books a visit the policy allows, or adds nobody.
LEMMA PolicyStep ==
    ASSUME TypeOK, Next, rules' = rules, NEW n \in Night, NightObeys(n)
    PROVE  NightObeys(n)'
<1>1. ASSUME NEW v \in Visit, NEW state \in {"hold", "confirmed"},
             NEW booked \in Draft, NEW hash \in Draft \cup {NoDraft},
             Booking(v, state, booked, hash), v \notin Lapsing,
             waiting' \in SUBSET Invitation, UNCHANGED <<withdrawn, hostVars>>,
             NEW draft \in Draft, draft.stay = booked.stay, draft.party = booked.party,
             Allowed(v, draft)
      PROVE  NightObeys(n)'
  <2>1. FamiliesOn(n)' \subseteq FamiliesOn(n) \/ Cardinality(FamiliesOn(n)') <= rules.families
    BY <1>1, AllowedNights
  <2>2. \/ PetsOn(n)' \subseteq PetsOn(n)
        \/ rules.together
        \/ \A u, w \in PetsOn(n)' : u = w
    BY <1>1, AllowedNights
  <2> QED BY <2>1, <2>2, ThinNights
<1>2. ASSUME \A u \in Visit : Active(u)' => Active(u) /\ terms'[u] = terms[u]
      PROVE  NightObeys(n)'
  <2>1. FamiliesOn(n)' \subseteq FamiliesOn(n) /\ PetsOn(n)' \subseteq PetsOn(n)
    BY <1>2 DEF FamiliesOn, PetsOn
  <2> QED BY <2>1, ThinNights
<1>3. ASSUME NEW v \in Visit, NEW draft \in Draft, NEW approved \in BOOLEAN,
             CreateTemporaryHold(v, draft, approved)
      PROVE  NightObeys(n)'
  BY <1>1, <1>3 DEF CreateTemporaryHold, Lapsing, TypeOK
<1>4. ASSUME NEW v \in Visit, NEW draft \in Draft, NEW approved \in BOOLEAN,
             RescheduleVisit(v, draft, approved)
      PROVE  NightObeys(n)'
  <2>1. ApprovalAfter(v, draft, approved) \in Draft \cup {NoDraft}
    BY DEF ApprovalAfter
  <2> QED BY <1>1, <1>4, <2>1 DEF RescheduleVisit, TypeOK
<1>5. ASSUME NEW v \in Visit, NEW approved \in BOOLEAN, ConfirmVisit(v, approved)
      PROVE  NightObeys(n)'
  BY <1>1, <1>5, ConfirmFacts DEF TypeOK
<1>6. CASE \/ ExpireHolds
           \/ \E v \in Visit : CancelVisit(v)
           \/ \E i \in Invitation : WithdrawInvitation(i)
  <2>1. Lapsing \in SUBSET Visit
    BY DEF Lapsing
  <2>2. PICK S \in SUBSET Visit : Cancelling(S)
    BY <1>6, <2>1 DEF ExpireHolds, CancelVisit, WithdrawInvitation
  <2> QED BY <1>2, <2>2 DEF Cancelling, Active, TypeOK
<1>7. CASE UNCHANGED <<status, terms>>
  BY <1>2, <1>7 DEF Active
<1>8. CASE GuestStep
  BY <1>3, <1>4, <1>5, <1>6, <1>7, <1>8 DEF GuestStep, LookUpInvitation, RefuseHold, HoldLapses,
     visitVars
<1>9. CASE HostStep
  BY <1>7, <1>9 DEF HostStep, CancelBlock, BlockRooms, CreateOverride, RemoveOverride,
     UpdateInventory, UpdatePolicy, visitVars
<1> QED BY <1>8, <1>9 DEF Next

\* Only a host who tightens the policy leaves a night outside it (evaluate-overlap.ts:84-133).
THEOREM NightsStayObedient == Spec => NightsStayWithinRules
<1>1. ASSUME TypeOK, [Next]_vars
      PROVE  [\A n \in Night : NightObeys(n) /\ rules' = rules => NightObeys(n)']_vars
  BY <1>1, PolicyStep
<1> QED BY <1>1, TypeCorrect, PTL DEF Spec, NightsStayWithinRules

\* A hold becomes a confirmed visit only if its nights obey the policy of that moment
\* (holds.ts:281-309).
THEOREM ConfirmationsObey == Spec => ConfirmedWithinRules
<1> DEFINE Obeys(v, n) ==
        status[v] = "hold" /\ status'[v] = "confirmed" /\ n \in terms'[v].stay
        => /\ terms'[v].party \in Children => Cardinality(FamiliesOn(n)') <= rules.families
           /\ terms'[v].party \in Pets /\ ~rules.together => PetsOn(n)' = {v}
<1>1. ASSUME TypeOK, Next, NEW v \in Visit, NEW n \in Night PROVE Obeys(v, n)
  <2>1. ASSUME NEW w \in Visit, NEW state \in {"hold", "confirmed"},
               NEW booked \in Draft, NEW hash \in Draft \cup {NoDraft},
               Booking(w, state, booked, hash), w \notin Lapsing,
               waiting' \in SUBSET Invitation, UNCHANGED <<withdrawn, hostVars>>,
               NEW draft \in Draft, draft.stay = booked.stay, draft.party = booked.party,
               Allowed(w, draft)
        PROVE  Obeys(v, n)
    <3>1. CASE v = w
      BY <1>1, <2>1, <3>1, AllowedNights
    <3>2. CASE v # w
      BY <2>1, <3>2 DEF Booking
    <3> QED BY <3>1, <3>2
  <2>2. CASE status'[v] \in {status[v], "cancelled"}
    BY <2>2
  <2> HIDE DEF Obeys
  <2>3. ASSUME NEW w \in Visit, NEW draft \in Draft, NEW approved \in BOOLEAN,
               CreateTemporaryHold(w, draft, approved)
        PROVE  Obeys(v, n)
    BY <1>1, <2>1, <2>3 DEF CreateTemporaryHold, Lapsing, TypeOK
  <2>4. ASSUME NEW w \in Visit, NEW draft \in Draft, NEW approved \in BOOLEAN,
               RescheduleVisit(w, draft, approved)
        PROVE  Obeys(v, n)
    <3>1. ApprovalAfter(w, draft, approved) \in Draft \cup {NoDraft}
      BY DEF ApprovalAfter
    <3> QED BY <1>1, <2>1, <2>4, <3>1 DEF RescheduleVisit, TypeOK
  <2>5. ASSUME NEW w \in Visit, NEW approved \in BOOLEAN, ConfirmVisit(w, approved)
        PROVE  Obeys(v, n)
    BY <1>1, <2>1, <2>5, ConfirmFacts DEF TypeOK
  <2>6. CASE \/ ExpireHolds
             \/ \E w \in Visit : CancelVisit(w)
             \/ \E i \in Invitation : WithdrawInvitation(i)
    BY <1>1, <2>2, <2>6 DEF ExpireHolds, CancelVisit, WithdrawInvitation, Cancelling, TypeOK
  <2>7. CASE UNCHANGED status
    BY <2>2, <2>7
  <2>8. CASE GuestStep
    BY <2>3, <2>4, <2>5, <2>6, <2>7, <2>8 DEF GuestStep, LookUpInvitation, RefuseHold, HoldLapses,
       visitVars
  <2>9. CASE HostStep
    BY <2>7, <2>9 DEF HostStep, CancelBlock, BlockRooms, CreateOverride, RemoveOverride,
       UpdateInventory, UpdatePolicy, visitVars
  <2> QED BY <1>1, <2>8, <2>9 DEF Next
<1>2. ASSUME TypeOK, [Next]_vars
      PROVE  [\A v \in Visit, n \in Night :
                status[v] = "hold" /\ status'[v] = "confirmed" /\ n \in terms'[v].stay
                => /\ terms'[v].party \in Children
                      => Cardinality(FamiliesOn(n)') <= rules.families
                   /\ terms'[v].party \in Pets /\ ~rules.together => PetsOn(n)' = {v}]_vars
  BY <1>1, <1>2
<1> QED BY <1>2, TypeCorrect, PTL DEF Spec, ConfirmedWithinRules

-----------------------------------------------------------------------------
(***************************************************************************)
(* The ledger                                                              *)
(*                                                                         *)
(* Since an invitation has at most one active visit, what its guest has in *)
(* the ledger is what that visit occupies.  Then each transaction is one   *)
(* entry: a booking Take, an expiry TurnOut, a cancellation Leave.         *)
(***************************************************************************)

OccupiedFacts ==
    /\ Occupied \in [Invitation -> SUBSET (Room \X Night)]
    /\ \A v \in Visit :
          Active(v) => Occupied[MadeFor[v]] = terms[v].rooms \X terms[v].stay
    /\ \A i \in Invitation :
          (\A v \in Visit : MadeFor[v] = i => ~Active(v)) => Occupied[i] = {}
    /\ SetAside \in [Block -> SUBSET (Room \X Night)]

\* What the ledger says of a guest is read off the guest's one active visit.
LEMMA OccupiedIs == IInv => OccupiedFacts
<1> SUFFICES ASSUME IInv PROVE OccupiedFacts
  OBVIOUS
<1> DEFINE Slots(v) == terms[v].rooms \X terms[v].stay
           Made(i) == {u \in Visit : Active(u) /\ MadeFor[u] = i}
<1>1. ASSUME NEW s \in Stay PROVE s \subseteq Night
  <2>1. PICK n \in Night, m \in Night : s = n..m
    BY DEF Stay
  <2> QED BY <2>1, BookingAssumption DEF Night
<1>2. ASSUME NEW v \in Visit, Active(v) PROVE Slots(v) \subseteq Room \X Night
  <2>1. terms[v] \in Draft
    BY <1>2 DEF IInv, TypeOK, Active
  <2>2. terms[v].rooms \subseteq Room /\ terms[v].stay \subseteq Night
    BY <1>1, <2>1 DEF Draft
  <2> QED BY <2>2
<1>3. Occupied = [i \in Invitation |-> UNION {Slots(v) : v \in Made(i)}]
  BY DEF Occupied
<1> HIDE DEF Slots
<1>4. Occupied \in [Invitation -> SUBSET (Room \X Night)]
  <2>1. \A i \in Invitation : UNION {Slots(v) : v \in Made(i)} \subseteq Room \X Night
    BY <1>2
  <2> QED BY <1>3, <2>1
<1>5. ASSUME NEW v \in Visit, Active(v)
      PROVE  Occupied[MadeFor[v]] = Slots(v)
  <2>1. MadeFor[v] \in Invitation
    BY BookingAssumption
  <2>2. Made(MadeFor[v]) = {v}
    BY <1>5 DEF IInv, OneVisitPerInvitation
  <2>3. UNION {Slots(u) : u \in {v}} = Slots(v)
    OBVIOUS
  <2> QED BY <1>3, <2>1, <2>2, <2>3
<1>6. ASSUME NEW i \in Invitation, \A v \in Visit : MadeFor[v] = i => ~Active(v)
      PROVE  Occupied[i] = {}
  <2>1. Made(i) = {}
    BY <1>6
  <2> QED BY <1>3, <2>1
<1>7. SetAside \in [Block -> SUBSET (Room \X Night)]
  <2>1. ASSUME NEW b \in Block
        PROVE  blocks[b].rooms \subseteq Room /\ blocks[b].stay \subseteq Night
    BY <1>1 DEF IInv, TypeOK, NoBlock
  <2> QED BY <2>1 DEF SetAside
<1>8. \A v \in Visit : Active(v) => Occupied[MadeFor[v]] = terms[v].rooms \X terms[v].stay
  BY <1>5 DEF Slots
<1> QED BY <1>4, <1>6, <1>7, <1>8 DEF OccupiedFacts

\* The same after a step.
LEMMA OccupiedIsNext == IInv' => OccupiedFacts'
BY OccupiedIs, PTL

\* Whose active visit survives a transaction as it was keeps what they have.
LEMMA KeepsRooms ==
    ASSUME OccupiedFacts, OccupiedFacts', NEW u \in Visit, Active(u), Active(u)',
           terms'[u] = terms[u]
    PROVE  Occupied'[MadeFor[u]] = Occupied[MadeFor[u]]
<1>1. Occupied[MadeFor[u]] = terms[u].rooms \X terms[u].stay
  BY DEF OccupiedFacts
<1>2. Occupied'[MadeFor[u]] = terms'[u].rooms \X terms'[u].stay
  BY DEF OccupiedFacts
<1> QED BY <1>1, <1>2

\* A booking gives its guest rooms that nobody else has, and turns out nobody firm.
LEMMA BookingTakes ==
    ASSUME IInv, IInv', NEW v \in Visit, NEW state \in {"hold", "confirmed"},
           NEW draft \in Draft, NEW hash \in Draft \cup {NoDraft},
           Booking(v, state, draft, hash), v \notin Lapsing,
           waiting' \in SUBSET Invitation, UNCHANGED <<withdrawn, hostVars>>,
           MadeFor[v] \notin withdrawn,
           \A u \in Remaining \ {v} : MadeFor[u] # MadeFor[v],
           state = "hold" => status[v] = "none"
    PROVE  Ledger!Take(MadeFor[v])
<1> DEFINE g == MadeFor[v]
<1>1. /\ Active(v)' /\ status'[v] = state
      /\ \A u \in Visit \ {v} :
            /\ Active(u)' <=> u \in Remaining
            /\ u \in Remaining => /\ Active(u)
                                  /\ status'[u] = status[u]
                                  /\ terms'[u] = terms[u]
  BY BookingFacts DEF IInv
<1>2. OccupiedFacts /\ OccupiedFacts' /\ g \in Invitation
  BY OccupiedIs, OccupiedIsNext, BookingAssumption
<1>3. ASSUME NEW h \in Invitation \ {g}
      PROVE  Occupied'[h] = Occupied[h] \/ (h \notin Firm /\ Occupied'[h] = {})
  <2>1. CASE \E u \in Remaining : MadeFor[u] = h
    <3>1. PICK u \in Remaining : MadeFor[u] = h
      BY <2>1
    <3>2. u \in Visit \ {v}
      BY <3>1 DEF Remaining
    <3> QED BY <1>1, <1>2, <3>1, <3>2, KeepsRooms
  <2>2. CASE \A u \in Remaining : MadeFor[u] # h
    <3>1. \A u \in Visit : MadeFor[u] = h => ~Active(u)'
      BY <1>1, <2>2
    <3>2. h \notin Firm
      BY <2>2 DEF Firm, Remaining, Lapsing, Active
    <3>3. Occupied'[h] = {}
      BY <1>2, <3>1 DEF OccupiedFacts
    <3> QED BY <3>2, <3>3
  <2> QED BY <2>1, <2>2
<1>4. Occupied'[g] = terms'[v].rooms \X terms'[v].stay
  BY <1>1, <1>2 DEF OccupiedFacts
<1>5. ASSUME NEW h \in Invitation \ {g}
      PROVE  Occupied'[g] \cap Occupied'[h] = {}
  <2>1. CASE \E u \in Visit : MadeFor[u] = h /\ Active(u)'
    <3>1. PICK u \in Visit : MadeFor[u] = h /\ Active(u)'
      BY <2>1
    <3>2. Occupied'[h] = terms'[u].rooms \X terms'[u].stay
      BY <1>2, <3>1 DEF OccupiedFacts
    <3>3. terms'[v].stay \cap terms'[u].stay = {} \/ terms'[v].rooms \cap terms'[u].rooms = {}
      BY <1>1, <3>1 DEF IInv, RoomNightsExclusive, Meets
    <3> QED BY <1>4, <3>2, <3>3
  <2>2. CASE \A u \in Visit : MadeFor[u] = h => ~Active(u)'
    BY <1>2, <2>2 DEF OccupiedFacts
  <2> QED BY <2>1, <2>2
<1>6. ASSUME NEW b \in Block
      PROVE  Occupied'[g] \cap SetAside[b] = {}
  <2>1. SetAside[b] = blocks[b].rooms \X blocks[b].stay
    BY DEF SetAside
  <2>2. blocks' = blocks
    BY DEF hostVars
  <2>3. terms'[v].stay \cap blocks[b].stay = {} \/ terms'[v].rooms \cap blocks[b].rooms = {}
    BY <1>1, <2>2 DEF IInv, RoomNightsExclusive, Meets
  <2> QED BY <1>4, <2>1, <2>3
<1>7. Firm' \in {Firm, Firm \cup {g}}
  <2>1. \A u \in Visit \ {v} : status'[u] = "confirmed" <=> status[u] = "confirmed"
    BY <1>1 DEF Active, Remaining, Lapsing
  <2>2. CASE state = "hold"
    <3>1. Firm' = Firm
      BY <1>1, <2>1, <2>2 DEF Firm
    <3> QED BY <3>1
  <2>3. CASE state = "confirmed"
    <3>1. Firm' = Firm \cup {g}
      BY <1>1, <1>2, <2>1, <2>3 DEF Firm
    <3> QED BY <3>1
  <2> QED BY <2>2, <2>3
<1>8. UNCHANGED <<SetAside, withdrawn>> /\ g \notin withdrawn
  BY DEF SetAside, hostVars
<1>9. Occupied' \in [Invitation -> SUBSET (Room \X Night)]
  BY <1>2 DEF OccupiedFacts
<1> HIDE DEF g
<1>10. Ledger!Take(g)
  BY <1>3, <1>5, <1>6, <1>7, <1>8, <1>9 DEF Ledger!Take, Ledger!MayTurnOut
<1> QED BY <1>10 DEF g

\* Of the cancelled visits' guests nothing is left in the ledger; the others are untouched.
LEMMA CancellingFrees ==
    ASSUME IInv, IInv', NEW S \in SUBSET Visit, Cancelling(S), UNCHANGED <<waiting, hostVars>>,
           withdrawn' \in SUBSET Invitation, \A v \in S : Active(v)
    PROVE  /\ Occupied \in [Invitation -> SUBSET (Room \X Night)]
           /\ Occupied' \in [Invitation -> SUBSET (Room \X Night)]
           /\ \A i \in Invitation :
                 Occupied'[i] = IF \E v \in S : MadeFor[v] = i THEN {} ELSE Occupied[i]
           /\ Firm' = Firm \ {MadeFor[v] : v \in S}
           /\ SetAside' = SetAside
<1>1. \A u \in Visit :
         /\ Active(u)' <=> Active(u) /\ u \notin S
         /\ u \notin S => status'[u] = status[u] /\ terms'[u] = terms[u]
  BY CancellingFacts DEF IInv
<1>2. OccupiedFacts /\ OccupiedFacts'
  BY OccupiedIs, OccupiedIsNext
<1>3. ASSUME NEW i \in Invitation, NEW v \in S, MadeFor[v] = i
      PROVE  Occupied'[i] = {}
  <2>1. \A u \in Visit : MadeFor[u] = i => ~Active(u)'
    BY <1>1, <1>3 DEF IInv, OneVisitPerInvitation
  <2> QED BY <1>2, <2>1 DEF OccupiedFacts
<1>4. ASSUME NEW i \in Invitation, \A v \in S : MadeFor[v] # i
      PROVE  Occupied'[i] = Occupied[i]
  <2>1. CASE \E u \in Visit : MadeFor[u] = i /\ Active(u)
    <3>1. PICK u \in Visit : MadeFor[u] = i /\ Active(u)
      BY <2>1
    <3> QED BY <1>1, <1>2, <1>4, <3>1, KeepsRooms
  <2>2. CASE \A u \in Visit : MadeFor[u] = i => ~Active(u)
    <3>1. Occupied[i] = {}
      BY <1>2, <2>2 DEF OccupiedFacts
    <3>2. \A u \in Visit : MadeFor[u] = i => ~Active(u)'
      BY <1>1, <2>2
    <3>3. Occupied'[i] = {}
      BY <1>2, <3>2 DEF OccupiedFacts
    <3> QED BY <3>1, <3>3
  <2> QED BY <2>1, <2>2
<1>5. Firm' = Firm \ {MadeFor[v] : v \in S}
  <2>1. \A u \in Visit : status'[u] = "confirmed" <=> status[u] = "confirmed" /\ u \notin S
    BY <1>1 DEF Active
  <2>2. \A u \in Visit, v \in S : status[u] = "confirmed" /\ MadeFor[u] = MadeFor[v] => u = v
    BY DEF IInv, OneVisitPerInvitation, Active
  <2> QED BY <2>1, <2>2 DEF Firm
<1>6. SetAside' = SetAside
  BY DEF SetAside, hostVars
<1> QED BY <1>2, <1>3, <1>4, <1>5, <1>6 DEF OccupiedFacts

LEMMA ExpiryTurnsOut == IInv /\ IInv' /\ ExpireHolds => Ledger!TurnOut
<1> SUFFICES ASSUME IInv, IInv', ExpireHolds PROVE Ledger!TurnOut
  OBVIOUS
<1>1. /\ Lapsing \in SUBSET Visit /\ Cancelling(Lapsing)
      /\ UNCHANGED <<waiting, withdrawn, hostVars>> /\ withdrawn' \in SUBSET Invitation
      /\ \A v \in Lapsing : Active(v) /\ status[v] = "hold"
  BY DEF ExpireHolds, Lapsing, Active, IInv, TypeOK
<1>2. /\ Occupied' \in [Invitation -> SUBSET (Room \X Night)]
      /\ \A i \in Invitation :
            Occupied'[i] = IF \E v \in Lapsing : MadeFor[v] = i THEN {} ELSE Occupied[i]
      /\ Firm' = Firm \ {MadeFor[v] : v \in Lapsing}
      /\ SetAside' = SetAside
  BY <1>1, CancellingFrees
<1>3. \A v \in Lapsing : MadeFor[v] \notin Firm
  BY <1>1 DEF Firm, IInv, OneVisitPerInvitation, Active
<1> QED BY <1>1, <1>2, <1>3 DEF Ledger!TurnOut, Ledger!MayTurnOut

LEMMA CancelLeaves ==
    ASSUME IInv, IInv', NEW v \in Visit, CancelVisit(v)
    PROVE  Ledger!Leave(MadeFor[v])
<1>1. /\ {v} \in SUBSET Visit /\ Cancelling({v}) /\ \A u \in {v} : Active(u)
      /\ UNCHANGED <<waiting, withdrawn, hostVars>> /\ withdrawn' \in SUBSET Invitation
  BY DEF CancelVisit, IInv, TypeOK
<1>2. /\ Occupied \in [Invitation -> SUBSET (Room \X Night)]
      /\ Occupied' \in [Invitation -> SUBSET (Room \X Night)]
      /\ \A i \in Invitation :
            Occupied'[i] = IF \E u \in {v} : MadeFor[u] = i THEN {} ELSE Occupied[i]
      /\ Firm' = Firm \ {MadeFor[u] : u \in {v}}
      /\ SetAside' = SetAside
  BY <1>1, CancellingFrees
<1>3. Occupied' = [Occupied EXCEPT ![MadeFor[v]] = {}]
  BY <1>2
<1>4. Firm' = Firm \ {MadeFor[v]}
  BY <1>2
<1> QED BY <1>1, <1>2, <1>3, <1>4 DEF Ledger!Leave

LEMMA WithdrawalWithdraws ==
    ASSUME IInv, IInv', NEW i \in Invitation, WithdrawInvitation(i)
    PROVE  Ledger!Withdraw(i)
<1> DEFINE active == {v \in Visit : Active(v) /\ MadeFor[v] = i}
<1>1. /\ active \in SUBSET Visit /\ Cancelling(active)
      /\ i \notin withdrawn /\ withdrawn' = withdrawn \cup {i}
      /\ UNCHANGED <<waiting, hostVars>>
  BY DEF WithdrawInvitation
<1>2. /\ \A v \in active : Active(v) /\ MadeFor[v] = i
      /\ \A v \in Visit \ active : MadeFor[v] = i => ~Active(v)
      /\ withdrawn' \in SUBSET Invitation
  BY <1>1 DEF IInv, TypeOK
<1> HIDE DEF active
<1>3. /\ Occupied \in [Invitation -> SUBSET (Room \X Night)]
      /\ Occupied' \in [Invitation -> SUBSET (Room \X Night)]
      /\ \A j \in Invitation :
            Occupied'[j] = IF \E u \in active : MadeFor[u] = j THEN {} ELSE Occupied[j]
      /\ Firm' = Firm \ {MadeFor[u] : u \in active}
      /\ SetAside' = SetAside
  BY <1>1, <1>2, CancellingFrees
<1>4. Occupied' = [Occupied EXCEPT ![i] = {}]
  <2>1. Occupied'[i] = {}
    <3>1. CASE active = {}
      <4>1. \A v \in Visit : MadeFor[v] = i => ~Active(v)
        BY <1>2, <3>1
      <4>2. Occupied[i] = {}
        BY <4>1, OccupiedIs DEF OccupiedFacts
      <4> QED BY <1>3, <4>2
    <3>2. CASE active # {}
      BY <1>2, <1>3, <3>2
    <3> QED BY <3>1, <3>2
  <2>2. \A j \in Invitation \ {i} : Occupied'[j] = Occupied[j]
    BY <1>2, <1>3
  <2> QED BY <1>3, <2>1, <2>2
<1>5. Firm' = Firm \ {i}
  <2>1. CASE active = {}
    <3>1. i \notin Firm
      BY <1>2, <2>1 DEF Firm, Active
    <3> QED BY <1>3, <2>1, <3>1
  <2>2. CASE active # {}
    <3>1. {MadeFor[u] : u \in active} = {i}
      BY <1>2, <2>2
    <3> QED BY <1>3, <3>1
  <2> QED BY <2>1, <2>2
<1> QED BY <1>1, <1>3, <1>4, <1>5 DEF Ledger!Withdraw

\* A block keeps room nights that nobody has: it meets the constraint against every
\* active visit and every other block.
LEMMA BlockKeeps ==
    ASSUME IInv, IInv', NEW b \in Block, NEW rooms \in SUBSET Room, NEW stay \in Stay,
           BlockRooms(b, rooms, stay)
    PROVE  Ledger!Keep(b)
<1>1. /\ blocks[b] = NoBlock /\ blocks' = [blocks EXCEPT ![b] = [rooms |-> rooms, stay |-> stay]]
      /\ UNCHANGED <<status, terms, withdrawn>>
  BY DEF BlockRooms, visitVars
<1>2. OccupiedFacts /\ OccupiedFacts'
  BY OccupiedIs, OccupiedIsNext
<1>3. /\ blocks \in [Block -> [rooms : SUBSET Room, stay : Stay] \cup {NoBlock}]
      /\ blocks'[b].rooms = rooms /\ blocks'[b].stay = stay
      /\ \A c \in Block \ {b} : blocks'[c] = blocks[c]
  BY <1>1 DEF IInv, TypeOK
<1>4. SetAside[b] = {}
  BY <1>1 DEF SetAside, NoBlock
<1>5. SetAside'[b] = rooms \X stay
  BY <1>3 DEF SetAside
<1>6. \A c \in Block \ {b} : SetAside'[c] = SetAside[c]
  BY <1>3 DEF SetAside
<1>7. /\ SetAside \in [Block -> SUBSET (Room \X Night)]
      /\ SetAside' \in [Block -> SUBSET (Room \X Night)]
  BY <1>2 DEF OccupiedFacts
<1>8. SetAside' = [SetAside EXCEPT ![b] = SetAside'[b]] /\ SetAside'[b] \in SUBSET (Room \X Night)
  BY <1>6, <1>7
<1>9. UNCHANGED <<Occupied, Firm>>
  BY <1>1 DEF Occupied, Firm, Active
<1>10. ASSUME NEW i \in Invitation
       PROVE  SetAside'[b] \cap Occupied[i] = {}
  <2>1. CASE \E v \in Visit : MadeFor[v] = i /\ Active(v)
    <3>1. PICK v \in Visit : MadeFor[v] = i /\ Active(v)
      BY <2>1
    <3>2. Occupied[i] = terms[v].rooms \X terms[v].stay
      BY <1>2, <3>1 DEF OccupiedFacts
    <3>3. terms[v].stay \cap stay = {} \/ terms[v].rooms \cap rooms = {}
      BY <3>1 DEF BlockRooms, Meets
    <3> QED BY <1>5, <3>2, <3>3
  <2>2. CASE \A v \in Visit : MadeFor[v] = i => ~Active(v)
    BY <1>2, <2>2 DEF OccupiedFacts
  <2> QED BY <2>1, <2>2
<1>11. ASSUME NEW c \in Block \ {b}
       PROVE  SetAside'[b] \cap SetAside[c] = {}
  <2>1. SetAside[c] = blocks[c].rooms \X blocks[c].stay
    BY DEF SetAside
  <2>2. blocks[c].stay \cap stay = {} \/ blocks[c].rooms \cap rooms = {}
    BY DEF BlockRooms, Meets
  <2> QED BY <1>5, <2>1, <2>2
<1> QED BY <1>1, <1>4, <1>8, <1>9, <1>10, <1>11 DEF Ledger!Keep

LEMMA CancelBlockReleases ==
    ASSUME IInv, IInv', NEW b \in Block, CancelBlock(b)
    PROVE  Ledger!Release(b)
<1>1. blocks' = [blocks EXCEPT ![b] = NoBlock] /\ UNCHANGED <<status, terms, withdrawn>>
  BY DEF CancelBlock, visitVars
<1>2. /\ SetAside \in [Block -> SUBSET (Room \X Night)]
      /\ SetAside' \in [Block -> SUBSET (Room \X Night)]
  BY OccupiedIs, OccupiedIsNext DEF OccupiedFacts
<1>3. blocks'[b] = NoBlock /\ \A c \in Block \ {b} : blocks'[c] = blocks[c]
  BY <1>1 DEF IInv, TypeOK
<1>4. SetAside'[b] = {}
  BY <1>3 DEF SetAside, NoBlock
<1>5. \A c \in Block \ {b} : SetAside'[c] = SetAside[c]
  BY <1>3 DEF SetAside
<1>6. SetAside' = [SetAside EXCEPT ![b] = {}]
  BY <1>2, <1>4, <1>5
<1>7. UNCHANGED <<Occupied, Firm>>
  BY <1>1 DEF Occupied, Firm, Active
<1> QED BY <1>1, <1>6, <1>7 DEF Ledger!Release

\* A hold, a confirmation or a reschedule is a Take of its guest.
LEMMA VisitTakes ==
    ASSUME IInv, IInv', NEW v \in Visit, NEW approved \in BOOLEAN,
           \/ ConfirmVisit(v, approved)
           \/ \E draft \in Draft : \/ CreateTemporaryHold(v, draft, approved)
                                   \/ RescheduleVisit(v, draft, approved)
    PROVE  Ledger!Take(MadeFor[v])
<1>1. CASE ConfirmVisit(v, approved)
  <2>1. PICK draft \in Draft, hash \in Draft \cup {NoDraft} :
           /\ terms[v] \in Draft /\ v \notin Lapsing
           /\ Booking(v, "confirmed", terms[v], hash)
           /\ UNCHANGED <<waiting, withdrawn, hostVars>>
    BY <1>1, ConfirmFacts DEF IInv
  <2>2. Active(v)
    BY <1>1 DEF ConfirmVisit, Active
  <2>3. MadeFor[v] \notin withdrawn /\ \A u \in Remaining \ {v} : MadeFor[u] # MadeFor[v]
    BY <2>1, <2>2, ActiveFacts
  <2>4. waiting' \in SUBSET Invitation
    BY <2>1 DEF IInv, TypeOK
  <2> QED BY <2>1, <2>3, <2>4, BookingTakes
<1>2. ASSUME NEW draft \in Draft, CreateTemporaryHold(v, draft, approved)
      PROVE  Ledger!Take(MadeFor[v])
  <2> DEFINE hash == IF approved THEN draft ELSE NoDraft
  <2>1. /\ status[v] = "none" /\ MadeFor[v] \notin withdrawn
        /\ ~HasActiveVisit(MadeFor[v])
        /\ Booking(v, "hold", draft, hash)
        /\ waiting' = waiting \ {MadeFor[v]} /\ UNCHANGED <<withdrawn, hostVars>>
    BY <1>2 DEF CreateTemporaryHold
  <2>2. /\ v \notin Lapsing /\ waiting' \in SUBSET Invitation
        /\ \A u \in Remaining \ {v} : MadeFor[u] # MadeFor[v]
    BY <2>1 DEF Lapsing, IInv, TypeOK, HasActiveVisit
  <2>3. hash \in Draft \cup {NoDraft}
    OBVIOUS
  <2> HIDE DEF hash
  <2> QED BY <2>1, <2>2, <2>3, BookingTakes
<1>3. ASSUME NEW draft \in Draft, RescheduleVisit(v, draft, approved)
      PROVE  Ledger!Take(MadeFor[v])
  <2>1. /\ Active(v) /\ v \notin Lapsing
        /\ Booking(v, "confirmed", draft, ApprovalAfter(v, draft, approved))
        /\ UNCHANGED <<waiting, withdrawn, hostVars>>
    BY <1>3 DEF RescheduleVisit
  <2>2. MadeFor[v] \notin withdrawn /\ \A u \in Remaining \ {v} : MadeFor[u] # MadeFor[v]
    BY <2>1, ActiveFacts
  <2>3. ApprovalAfter(v, draft, approved) \in Draft \cup {NoDraft}
    BY DEF ApprovalAfter
  <2>4. waiting' \in SUBSET Invitation
    BY <2>1 DEF IInv, TypeOK
  <2> QED BY <2>1, <2>2, <2>3, <2>4, BookingTakes
<1> QED BY <1>1, <1>2, <1>3

LEMMA LedgerStep ==
    ASSUME IInv, IInv', [Next]_vars
    PROVE  [Ledger!Next]_<<Occupied, SetAside, Firm, withdrawn>>
<1> DEFINE Maps == [Ledger!Next]_<<Occupied, SetAside, Firm, withdrawn>>
<1> SUFFICES Maps
  OBVIOUS
<1>1. ASSUME NEW v \in Visit, NEW approved \in BOOLEAN,
             \/ ConfirmVisit(v, approved)
             \/ \E draft \in Draft : \/ CreateTemporaryHold(v, draft, approved)
                                     \/ RescheduleVisit(v, draft, approved)
      PROVE  Maps
  BY <1>1, VisitTakes, BookingAssumption DEF Ledger!Next
<1>2. ASSUME NEW v \in Visit, CancelVisit(v) PROVE Maps
  BY <1>2, CancelLeaves, BookingAssumption DEF Ledger!Next
<1>3. ASSUME NEW i \in Invitation, WithdrawInvitation(i) PROVE Maps
  BY <1>3, WithdrawalWithdraws DEF Ledger!Next
<1>4. ASSUME NEW b \in Block, NEW rooms \in SUBSET Room, NEW stay \in Stay,
             BlockRooms(b, rooms, stay)
      PROVE  Maps
  BY <1>4, BlockKeeps DEF Ledger!Next
<1>5. ASSUME NEW b \in Block, CancelBlock(b) PROVE Maps
  BY <1>5, CancelBlockReleases DEF Ledger!Next
<1>6. CASE ExpireHolds
  BY <1>6, ExpiryTurnsOut DEF Ledger!Next
<1>7. CASE UNCHANGED <<status, terms, blocks, withdrawn>>
  BY <1>7 DEF Occupied, SetAside, Firm, Active
<1> HIDE DEF Maps
<1>8. CASE GuestStep
  BY <1>1, <1>2, <1>3, <1>6, <1>7, <1>8
     DEF GuestStep, LookUpInvitation, RefuseHold, HoldLapses, visitVars, hostVars
<1>9. CASE HostStep
  BY <1>4, <1>5, <1>7, <1>9
     DEF HostStep, CreateOverride, RemoveOverride, UpdateInventory, UpdatePolicy, visitVars
<1>10. CASE UNCHANGED vars
  BY <1>7, <1>10 DEF vars
<1> QED BY <1>8, <1>9, <1>10 DEF Next

LEMMA LedgerInit == Init => Ledger!Init
BY DEF Init, Ledger!Init, Occupied, SetAside, Firm, NoBlock, Active

\* Every booking, expiry, cancellation, withdrawal and block is an entry of the ledger:
\* no confirmed stay loses its rooms to others, no room night is given twice, and who
\* withdrew takes none (holds.ts:145-620, cancellation.ts:20-117, operations.ts:125-180).
THEOREM BookingImplementsLedger == Spec => ImplementsLedger
<1>1. Init => Ledger!Init
  BY LedgerInit
<1>2. IInv /\ IInv' /\ [Next]_vars => [Ledger!Next]_<<Occupied, SetAside, Firm, withdrawn>>
  BY LedgerStep
<1> QED BY <1>1, <1>2, Invariance, PTL DEF Spec, ImplementsLedger, Ledger!Spec
=============================================================================
