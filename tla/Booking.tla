------------------------------ MODULE Booking ------------------------------
(***************************************************************************)
(* The bookings of one home: temporary holds, confirmed visits and the     *)
(* hosts' controls over rooms (core/booking/holds.ts and cancellation.ts,  *)
(* core/rooms/operations.ts and availability.ts, core/policy).             *)
(*                                                                         *)
(* Every writer but one takes the home's advisory lock first and decides   *)
(* from what it reads afterwards, so each operation is one action.  The    *)
(* one thing read before the lock and trusted after it would be an         *)
(* invitation's status: createTemporaryHold looks it up, waits for the     *)
(* lock, and looks again.                                                  *)
(*                                                                         *)
(* A stay is the set of its nights.  The reconfirmation statuses of a      *)
(* confirmed visit all read "confirmed" here.  A cancelled visit is never  *)
(* read again, so its terms are dropped.                                   *)
(***************************************************************************)
EXTENDS Naturals, FiniteSets, Functions

CONSTANTS
    Invitation,
    Visit,          \* rows of visits, each made for one invitation
    MadeFor,        \* [Visit -> Invitation]
    Room,
    Block,          \* private room blocks
    LastNight,      \* nights are 1..LastNight
    Party,          \* who may come: size, pets and special requests together
    People,         \* [Party -> Nat \ {0}], adults + children
    Children,       \* the parties that bring children
    Pets,           \* the parties that bring pets
    Rules,          \* the policies hosts choose between: [together, families]
    Arrangement,    \* what a room's label and overflow arrangement may say
    Entries,        \* [Room -> SUBSET Entry], what hosts make of each room
    MaxOverrides,   \* bound on the date controls that exist at once
    NoDraft

Night == 1..LastNight
Stay == {n..m : n \in Night, m \in Night} \ {{}}

\* The terms an approval is given for (stayApprovalHash).
Draft == [stay : Stay, party : Party, rooms : SUBSET Room, overflow : BOOLEAN]

Override == [room : Room, stay : Stay, action : {"open", "close"}]

\* An inventory record; "draft" behaves as "inactive".  The overflow policy follows from
\* the places: a host decides exactly where the maximum exceeds the standard.
Entry == [state : {"available", "withheld", "inactive"}, standard : Nat \ {0}, maximum : Nat,
          arrangement : Arrangement]

ASSUME BookingAssumption ==
    /\ MadeFor \in [Visit -> Invitation]
    /\ LastNight \in Nat
    /\ IsFiniteSet(Visit)
    /\ People \in [Party -> Nat \ {0}]
    /\ Children \subseteq Party
    /\ Pets \subseteq Party
    /\ Rules \subseteq [together : BOOLEAN, families : Nat]
    /\ Entries \in [Room -> SUBSET Entry]
    /\ \A r \in Room : \A entry \in Entries[r] : entry.standard <= entry.maximum
    /\ MaxOverrides \in Nat
    /\ NoDraft \notin Draft

VARIABLES
    status,     \* visits.status, "none" before the row exists
    terms,      \* what an active visit occupies
    approval,   \* the draft behind approval_stay_hash
    lapsed,     \* holds whose 48 hours have passed
    waiting,    \* hold requests between the invitation lookup and the home lock
    withdrawn,  \* cancelled invitations
    blocks,     \* active private blocks: [rooms, stay]
    overrides,  \* room_availability_overrides
    inventory,  \* each room's inventory record
    rules       \* the home's policy

visitVars == <<status, terms, approval, lapsed>>
hostVars == <<blocks, overrides, inventory, rules>>
vars == <<status, terms, approval, lapsed, waiting, withdrawn,
          blocks, overrides, inventory, rules>>

NoBlock == [rooms |-> {}, stay |-> {}]

TypeOK ==
    /\ status \in [Visit -> {"none", "hold", "confirmed", "cancelled"}]
    /\ terms \in [Visit -> Draft \cup {NoDraft}]
    /\ \A v \in Visit : terms[v] = NoDraft <=> status[v] \in {"none", "cancelled"}
    /\ approval \in [Visit -> Draft \cup {NoDraft}]
    /\ lapsed \in SUBSET Visit
    /\ waiting \in SUBSET Invitation
    /\ withdrawn \in SUBSET Invitation
    /\ blocks \in [Block -> [rooms : SUBSET Room, stay : Stay] \cup {NoBlock}]
    /\ overrides \in SUBSET Override
    /\ inventory \in [Room -> Entry]
    /\ \A r \in Room : inventory[r] \in Entries[r]
    /\ rules \in Rules

Init ==
    /\ status = [v \in Visit |-> "none"]
    /\ terms = [v \in Visit |-> NoDraft]
    /\ approval = [v \in Visit |-> NoDraft]
    /\ lapsed = {}
    /\ waiting = {}
    /\ withdrawn = {}
    /\ blocks = [b \in Block |-> NoBlock]
    /\ overrides = {}
    /\ inventory \in [Room -> UNION {Entries[r] : r \in Room}]
    /\ \A r \in Room : inventory[r] \in Entries[r]
    /\ rules \in Rules

-----------------------------------------------------------------------------
(***************************************************************************)
(* Which rooms and which nights a visit may have                           *)
(***************************************************************************)

Meets(s, t) == s \cap t # {}

Active(v) == status[v] \in {"hold", "confirmed"}

\* expireHomeHolds runs inside every booking transaction.
Lapsing == {v \in Visit : status[v] = "hold" /\ v \in lapsed}

\* What a booking transaction finds once it has released the lapsed holds.
Remaining == {v \in Visit : Active(v)} \ Lapsing

Others(v, stay) == {u \in Remaining \ {v} : Meets(terms[u].stay, stay)}

\* Mutant: private blocks are forgotten.
FreeOfVisits(r, v, stay) == \A u \in Others(v, stay) : r \notin terms[u].rooms

Free(r, v, stay) ==
    /\ \A u \in Others(v, stay) : r \notin terms[u].rooms
    /\ \A b \in Block : r \in blocks[b].rooms => ~Meets(blocks[b].stay, stay)

\* A withheld room needs one opening that covers the whole stay.
Offered(r, stay) ==
    \/ /\ inventory[r].state = "available"
       /\ \A o \in overrides : o.room = r /\ o.action = "close" => ~Meets(o.stay, stay)
    \/ /\ inventory[r].state = "withheld"
       /\ \E o \in overrides : o.room = r /\ o.action = "open" /\ stay \subseteq o.stay

Standard == [r \in Room |-> inventory[r].standard]
Maximum == [r \in Room |-> inventory[r].maximum]

\* With these places per room, the party can sleep there.
Sleeps(places, draft) == SumFunctionOnSet(places, draft.rooms) >= People[draft.party]

\* Mutant: consent of the guest is enough for overflow sleeping places.
FitsByConsent(draft, approved) ==
    \/ Sleeps(Standard, draft)
    \/ Sleeps(Maximum, draft) /\ draft.overflow

\* Rooms beyond standard capacity need the guest's consent and a host's approval.
Fits(draft, approved) ==
    \/ Sleeps(Standard, draft)
    \/ Sleeps(Maximum, draft) /\ draft.overflow /\ approved

\* The choice the recommendation makes when no rooms are named is one of these.
Selectable(v, draft, approved) ==
    /\ draft.rooms # {}
    /\ \A r \in draft.rooms : Offered(r, draft.stay) /\ Free(r, v, draft.stay)
    /\ Fits(draft, approved)

\* Mutant: one family too many.
AllowedOneMore(v, draft) ==
    /\ draft.party \in Children
       => Cardinality({u \in Others(v, draft.stay) : terms[u].party \in Children})
          <= rules.families
    /\ draft.party \in Pets /\ ~rules.together
       => \A u \in Others(v, draft.stay) : terms[u].party \notin Pets

\* evaluateOverlap's denials; its interrupts are raised before this layer.
Allowed(v, draft) ==
    /\ draft.party \in Children
       => Cardinality({u \in Others(v, draft.stay) : terms[u].party \in Children})
          < rules.families
    /\ draft.party \in Pets /\ ~rules.together
       => \A u \in Others(v, draft.stay) : terms[u].party \notin Pets

\* The visit as it is held, with or without overflow consent.
Held(v, overflow) == [terms[v] EXCEPT !.overflow = overflow]

\* Only the terms are compared: consent is not part of the visit's row.
SameTerms(v, draft) == Held(v, draft.overflow) = draft

-----------------------------------------------------------------------------
(***************************************************************************)
(* Booking transactions                                                    *)
(***************************************************************************)

\* The visits in S are cancelled, their rooms and jobs released.
Cancelling(S) ==
    /\ status' = [v \in Visit |-> IF v \in S THEN "cancelled" ELSE status[v]]
    /\ terms' = [v \in Visit |-> IF v \in S THEN NoDraft ELSE terms[v]]
    /\ approval' = [v \in Visit |-> IF v \in S THEN NoDraft ELSE approval[v]]
    /\ lapsed' = lapsed \ S

\* The visit's row, room and stay; the guest's consent is kept in the approval only.
Row(draft) == [draft EXCEPT !.overflow = FALSE]

\* v takes the draft and every lapsed hold is released.
Booking(v, state, draft, hash) ==
    /\ status' = [u \in Visit |-> IF u = v THEN state
                                  ELSE IF u \in Lapsing THEN "cancelled" ELSE status[u]]
    /\ terms' = [u \in Visit |-> IF u = v THEN Row(draft)
                                 ELSE IF u \in Lapsing THEN NoDraft ELSE terms[u]]
    /\ approval' = [u \in Visit |-> IF u = v THEN hash
                                    ELSE IF u \in Lapsing THEN NoDraft ELSE approval[u]]
    /\ lapsed' = {}

LookUpInvitation(i) ==
    /\ i \notin waiting
    /\ i \notin withdrawn
    /\ waiting' = waiting \cup {i}
    /\ UNCHANGED <<visitVars, withdrawn, hostVars>>

\* Mutant: only confirmed visits count.
HasConfirmedVisit(i) == \E u \in Remaining : MadeFor[u] = i /\ status[u] = "confirmed"

HasActiveVisit(i) == \E u \in Remaining : MadeFor[u] = i

\* Mutant: the invitation is not looked up again under the lock.
CreateTemporaryHoldAsFound(v, draft, approved) ==
    /\ status[v] = "none"
    /\ MadeFor[v] \in waiting
    /\ ~HasActiveVisit(MadeFor[v])
    /\ Selectable(v, draft, approved)
    /\ Allowed(v, draft)
    /\ Booking(v, "hold", draft, IF approved THEN draft ELSE NoDraft)
    /\ waiting' = waiting \ {MadeFor[v]}
    /\ UNCHANGED <<withdrawn, hostVars>>

CreateTemporaryHold(v, draft, approved) ==
    /\ status[v] = "none"
    /\ MadeFor[v] \in waiting
    /\ MadeFor[v] \notin withdrawn
    /\ ~HasActiveVisit(MadeFor[v])
    /\ Selectable(v, draft, approved)
    /\ Allowed(v, draft)
    /\ Booking(v, "hold", draft, IF approved THEN draft ELSE NoDraft)
    /\ waiting' = waiting \ {MadeFor[v]}
    /\ UNCHANGED <<withdrawn, hostVars>>

\* Any refusal rolls the transaction back, released holds included.
RefuseHold(i) ==
    /\ i \in waiting
    /\ waiting' = waiting \ {i}
    /\ UNCHANGED <<visitVars, withdrawn, hostVars>>

\* Mutant: a hold is taken to be bookable for as long as it lasts.
ConfirmAsHeld(v, approved) ==
    LET consented == approval[v] = Held(v, TRUE)
        draft == Held(v, consented)
    IN  /\ status[v] = "hold" /\ v \notin lapsed
        /\ Selectable(v, draft, consented)
        /\ Booking(v, "confirmed", terms[v], IF approved THEN draft ELSE approval[v])
        /\ UNCHANGED <<waiting, withdrawn, hostVars>>

\* Confirming anything but a hold returns the visit as it is.  The held rooms are
\* selected and the policy is evaluated again; earlier overflow approval counts if
\* it was given for exactly these terms.
ConfirmVisit(v, approved) ==
    LET consented == approval[v] = Held(v, TRUE)
        draft == Held(v, consented)
    IN  /\ status[v] = "hold" /\ v \notin lapsed
        /\ Selectable(v, draft, consented)
        /\ Allowed(v, draft)
        /\ Booking(v, "confirmed", terms[v], IF approved THEN draft ELSE approval[v])
        /\ UNCHANGED <<waiting, withdrawn, hostVars>>

\* Mutant: a visit that was approved once stays approved.
ApprovalKept(v, draft, approved) == IF approved THEN draft ELSE approval[v]

ApprovalAfter(v, draft, approved) ==
    IF approved \/ approval[v] = draft THEN draft ELSE NoDraft

\* The same terms again only release the lapsed holds (ExpireHolds).
RescheduleVisit(v, draft, approved) ==
    /\ Active(v) /\ v \notin Lapsing
    /\ ~SameTerms(v, draft)
    /\ Selectable(v, draft, approved)
    /\ Allowed(v, draft)
    /\ Booking(v, "confirmed", draft, ApprovalAfter(v, draft, approved))
    /\ UNCHANGED <<waiting, withdrawn, hostVars>>

\* The tick, and every booking transaction that changes nothing else.
ExpireHolds ==
    /\ Lapsing # {}
    /\ Cancelling(Lapsing)
    /\ UNCHANGED <<waiting, withdrawn, hostVars>>

HoldLapses(v) ==
    /\ status[v] = "hold" /\ v \notin lapsed
    /\ lapsed' = lapsed \cup {v}
    /\ UNCHANGED <<status, terms, approval, waiting, withdrawn, hostVars>>

CancelVisit(v) ==
    /\ Active(v)
    /\ Cancelling({v})
    /\ UNCHANGED <<waiting, withdrawn, hostVars>>

\* Refused when the invitation has more than one active visit.
WithdrawInvitation(i) ==
    LET active == {v \in Visit : Active(v) /\ MadeFor[v] = i}
    IN  /\ i \notin withdrawn
        /\ \A u, v \in active : u = v
        /\ Cancelling(active)
        /\ withdrawn' = withdrawn \cup {i}
        /\ UNCHANGED <<waiting, hostVars>>

-----------------------------------------------------------------------------
(***************************************************************************)
(* Hosts' controls                                                         *)
(***************************************************************************)

\* Held to visit_rooms_no_overlap alone: lapsed holds that nobody released yet
\* still occupy their rooms.
BlockRooms(b, rooms, stay) ==
    /\ blocks[b] = NoBlock
    /\ rooms # {}
    /\ \A r \in rooms : inventory[r].state \in {"available", "withheld"}
    /\ \A v \in Visit : Active(v) /\ Meets(terms[v].stay, stay) => ~Meets(terms[v].rooms, rooms)
    /\ \A c \in Block : Meets(blocks[c].stay, stay) => ~Meets(blocks[c].rooms, rooms)
    /\ blocks' = [blocks EXCEPT ![b] = [rooms |-> rooms, stay |-> stay]]
    /\ UNCHANGED <<visitVars, waiting, withdrawn, overrides, inventory, rules>>

CancelBlock(b) ==
    /\ blocks[b] # NoBlock
    /\ blocks' = [blocks EXCEPT ![b] = NoBlock]
    /\ UNCHANGED <<visitVars, waiting, withdrawn, overrides, inventory, rules>>

\* Open a withheld room or close an available one; never two controls on a night.
CreateOverride(o) ==
    /\ Cardinality(overrides) < MaxOverrides
    /\ inventory[o.room].state = IF o.action = "open" THEN "withheld" ELSE "available"
    /\ \A p \in overrides : p.room = o.room => ~Meets(p.stay, o.stay)
    /\ overrides' = overrides \cup {o}
    /\ UNCHANGED <<visitVars, waiting, withdrawn, blocks, inventory, rules>>

RemoveOverride(o) ==
    /\ o \in overrides
    /\ overrides' = overrides \ {o}
    /\ UNCHANGED <<visitVars, waiting, withdrawn, blocks, inventory, rules>>

\* The record is replaced as a whole; the stays booked in the room are not looked at,
\* and may come to need its overflow places or more.
UpdateInventory(r, entry) ==
    /\ inventory[r] # entry
    /\ inventory' = [inventory EXCEPT ![r] = entry]
    /\ UNCHANGED <<visitVars, waiting, withdrawn, blocks, overrides, rules>>

\* Existing stays are left as they are.
UpdatePolicy(policy) ==
    /\ rules # policy
    /\ rules' = policy
    /\ UNCHANGED <<visitVars, waiting, withdrawn, blocks, overrides, inventory>>

-----------------------------------------------------------------------------
GuestStep ==
    \/ \E i \in Invitation : LookUpInvitation(i) \/ RefuseHold(i) \/ WithdrawInvitation(i)
    \/ \E v \in Visit : HoldLapses(v) \/ CancelVisit(v)
    \/ \E v \in Visit, approved \in BOOLEAN :
          \/ ConfirmVisit(v, approved)
          \/ \E draft \in Draft : \/ CreateTemporaryHold(v, draft, approved)
                                  \/ RescheduleVisit(v, draft, approved)
    \/ ExpireHolds

HostStep ==
    \/ \E b \in Block : \/ CancelBlock(b)
                        \/ \E rooms \in SUBSET Room, stay \in Stay : BlockRooms(b, rooms, stay)
    \/ \E o \in Override : CreateOverride(o) \/ RemoveOverride(o)
    \/ \E r \in Room : \E entry \in Entries[r] : UpdateInventory(r, entry)
    \/ \E policy \in Rules : UpdatePolicy(policy)

Next == GuestStep \/ HostStep

Spec == Init /\ [][Next]_vars

-----------------------------------------------------------------------------
(***************************************************************************)
(* Properties                                                              *)
(***************************************************************************)

\* No room is given to two parties for one night, although visits find their rooms
\* by reading options (holds.ts:775-831) and blocks rely on the constraint
\* visit_rooms_no_overlap alone (operations.ts:125-180): a visit that the options
\* check accepts never meets that constraint.
RoomNightsExclusive ==
    /\ \A u, v \in Visit :
          u # v /\ Active(u) /\ Active(v) /\ Meets(terms[u].stay, terms[v].stay)
          => ~Meets(terms[u].rooms, terms[v].rooms)
    /\ \A v \in Visit, b \in Block :
          Active(v) /\ Meets(terms[v].stay, blocks[b].stay)
          => ~Meets(terms[v].rooms, blocks[b].rooms)
    /\ \A b, c \in Block :
          b # c /\ Meets(blocks[b].stay, blocks[c].stay)
          => ~Meets(blocks[b].rooms, blocks[c].rooms)

\* An invitation has at most one active visit, so withdrawInvitation's refusal of
\* several (cancellation.ts:52-61) never blocks a guest.
OneVisitPerInvitation ==
    \A u, v \in Visit : Active(u) /\ Active(v) /\ MadeFor[u] = MadeFor[v] => u = v

\* A withdrawn invitation holds no room, whatever hold request was already past
\* its first lookup (holds.ts:151-173).
WithdrawnHoldsNothing ==
    \A v \in Visit : MadeFor[v] \in withdrawn => ~Active(v)

\* A stored approval describes the visit as it now is: no reschedule carries an
\* approval over to terms the host did not see (holds.ts:481-488).
ApprovalIsForTheseTerms ==
    \A v \in Visit : approval[v] # NoDraft => Active(v) /\ SameTerms(v, approval[v])

\* Held, confirmed or moved to other terms in this step.
Booked(v) == Active(v)' /\ (status'[v] # status[v] \/ terms'[v] # terms[v])

\* Whenever a visit is held, confirmed or moved with a party beyond the standard capacity
\* its rooms have at that moment, a host approved exactly these terms with overflow, and
\* the rooms can sleep the party, though hosts change beds and maxima under pending
\* questions and standing holds (occupancy.ts:34-76, holds.ts:281-297).  A stay that is
\* already booked may still come to lack places: updateRoomInventory does not look at it.
OverflowIsApproved ==
    [][\A v \in Visit :
         Booked(v) /\ ~Sleeps(Standard, terms[v])'
         => (approval[v] = Held(v, TRUE) /\ Sleeps(Maximum, terms[v]))']_vars

FamiliesOn(n) == {v \in Visit : Active(v) /\ n \in terms[v].stay /\ terms[v].party \in Children}
PetsOn(n) == {v \in Visit : Active(v) /\ n \in terms[v].stay /\ terms[v].party \in Pets}

NightObeys(n) ==
    /\ Cardinality(FamiliesOn(n)) <= rules.families
    /\ ~rules.together => \A u, v \in PetsOn(n) : u = v

\* Only a host who tightens the policy can leave a night outside it: holds,
\* confirmations, reschedules and expiries in any order keep every night within
\* the children and pet rules (evaluate-overlap.ts:84-133).
NightsStayWithinRules ==
    [][\A n \in Night : NightObeys(n) /\ rules' = rules => NightObeys(n)']_vars

\* A visit is confirmed only on nights that obey the policy of that moment, though
\* it was held under an older one (holds.ts:281-309).
ConfirmedWithinRules ==
    [][\A v \in Visit, n \in Night :
         status[v] = "hold" /\ status'[v] = "confirmed" /\ n \in terms'[v].stay
         => /\ terms'[v].party \in Children
               => Cardinality(FamiliesOn(n)') <= rules.families
            /\ terms'[v].party \in Pets /\ ~rules.together => PetsOn(n)' = {v}]_vars

-----------------------------------------------------------------------------
(***************************************************************************)
(* What the bookings implement                                             *)
(***************************************************************************)

\* The rooms and nights of an invitation's active visits, and of a block.
Occupied ==
    [i \in Invitation |->
        UNION {terms[v].rooms \X terms[v].stay : v \in {u \in Visit : Active(u) /\ MadeFor[u] = i}}]
SetAside == [b \in Block |-> blocks[b].rooms \X blocks[b].stay]

Firm == {i \in Invitation : \E v \in Visit : MadeFor[v] = i /\ status[v] = "confirmed"}

Ledger == INSTANCE RoomLedger
             WITH Guest <- Invitation, Slot <- Room \X Night,
                  has <- Occupied, kept <- SetAside, firm <- Firm, gone <- withdrawn

\* A room and a night have one occupant; no booking, expiry or block of others takes a
\* confirmed stay's rooms away, however often a guest holds, lapses, holds again and moves;
\* and who withdrew takes none, whatever request was under way (holds.ts:145-620,
\* cancellation.ts:20-117, operations.ts:125-180).
ImplementsLedger == Ledger!Spec
=============================================================================
