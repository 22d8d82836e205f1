-------------------------- MODULE RoomActionsProofs --------------------------
(***************************************************************************)
(* Room actions do nothing that a host could not do by hand, so what       *)
(* BookingProofs shows of bookings stays true around them; and an action   *)
(* that is marked applied does what it says.                               *)
(***************************************************************************)
EXTENDS RoomActions, BookingProofs

-----------------------------------------------------------------------------
LEMMA ControlIsAnOverride ==
    ASSUME NEW plan \in Plans, plan.kind # "private_block", NEW r \in plan.rooms
    PROVE  /\ r \in Room
           /\ [room |-> r, stay |-> plan.stay, action |-> plan.kind] \in Override
           /\ plan.rooms = {r}
<1>1. plan \in Plan
  BY RoomActionsAssumption
<1>2. \E s \in Room : plan.rooms = {s}
  BY RoomActionsAssumption
<1> QED BY <1>1, <1>2 DEF Plan, Override

LEMMA ApplyingIsAStep ==
    ASSUME RoomTypeOK, NEW p \in RoomRun, ApplyRoomActionProposal(p)
    PROVE  Next
<1> DEFINE plan == proposals[p].plan
<1>1. proposals[p].status = "pending" /\ plan \in Plans
  BY DEF RoomTypeOK, Proposal, ApplyRoomActionProposal
<1>2. CASE plan.kind = "private_block"
  <2>1. PICK b \in Block : BlockRooms(b, plan.rooms, plan.stay)
    BY <1>2 DEF ApplyRoomActionProposal
  <2>2. plan.rooms \in SUBSET Room /\ plan.stay \in Stay
    BY <1>1, RoomActionsAssumption DEF Plan
  <2> QED BY <2>1, <2>2 DEF Next, HostStep
<1>3. CASE plan.kind # "private_block"
  <2>1. PICK r \in plan.rooms : Control(plan, r)
    BY <1>3 DEF ApplyRoomActionProposal
  <2>2. [room |-> r, stay |-> plan.stay, action |-> plan.kind] \in Override
    BY <1>1, <1>3, ControlIsAnOverride
  <2> QED BY <2>1, <2>2 DEF Control, Next, HostStep
<1> QED BY <1>2, <1>3

LEMMA RoomStepIsAStep ==
    ASSUME RoomTypeOK, [RoomNext]_roomVars
    PROVE  [Next]_vars
<1>1. CASE \E p \in RoomRun : ApplyRoomActionProposal(p)
  BY <1>1, ApplyingIsAStep
<1> QED BY <1>1 DEF RoomNext, PrepareRoomActionProposal, DismissRoomActionProposal, roomVars, vars

LEMMA RoomTypeStep ==
    ASSUME RoomTypeOK, TypeOK', [RoomNext]_roomVars
    PROVE  RoomTypeOK'
<1>1. ASSUME NEW p \in RoomRun, NEW plan \in Plans, PrepareRoomActionProposal(p, plan)
      PROVE  proposals' \in [RoomRun -> Proposal]
  BY <1>1 DEF PrepareRoomActionProposal, RoomTypeOK, Pending, Proposal
<1>2. ASSUME NEW p \in RoomRun, ApplyRoomActionProposal(p) \/ DismissRoomActionProposal(p)
      PROVE  proposals' \in [RoomRun -> Proposal]
  <2>1. \A settled \in {"applied", "dismissed"} : [status |-> settled] \in Proposal
    BY DEF Proposal
  <2> QED BY <1>2, <2>1 DEF ApplyRoomActionProposal, DismissRoomActionProposal, RoomTypeOK
<1>3. CASE UNCHANGED proposals
  BY <1>3 DEF RoomTypeOK
<1> QED BY <1>1, <1>2, <1>3 DEF RoomTypeOK, RoomNext, roomVars

LEMMA RoomInvariance == RoomSpec => [](RoomTypeOK /\ IInv)
<1>1. RoomInit => RoomTypeOK /\ IInv
  BY InitIInv DEF RoomInit, RoomTypeOK, NoProposal, Proposal, IInv
<1>2. RoomTypeOK /\ IInv /\ [RoomNext]_roomVars => (RoomTypeOK /\ IInv)'
  <2> SUFFICES ASSUME RoomTypeOK, IInv, [RoomNext]_roomVars PROVE RoomTypeOK' /\ IInv'
    OBVIOUS
  <2>1. IInv'
    BY RoomStepIsAStep, NextIInv
  <2> QED BY <2>1, RoomTypeStep DEF IInv
<1> QED BY <1>1, <1>2, PTL DEF RoomSpec

-----------------------------------------------------------------------------
(***************************************************************************)
(* Theorems                                                                *)
(***************************************************************************)

\* Applying a prepared action is one of the hosts' own controls (operations.ts:552-586):
\* every behaviour with room actions is one of the bookings and their hosts.
THEOREM RoomActionsImplementBooking == RoomSpec => Spec
<1>1. RoomInit => Init
  BY DEF RoomInit
<1>2. ASSUME RoomTypeOK, [RoomNext]_roomVars PROVE [Next]_vars
  BY <1>2, RoomStepIsAStep
<1> QED BY <1>1, <1>2, RoomInvariance, PTL DEF RoomSpec, Spec

\* Room actions break no exclusive room and no approval (operations.ts:497-609).
THEOREM RoomActionsKeepBookings == RoomSpec => [](RoomNightsExclusive /\ ApprovalIsForTheseTerms)
<1>1. IInv => RoomNightsExclusive /\ ApprovalIsForTheseTerms
  BY DEF IInv
<1> QED BY <1>1, RoomInvariance, PTL

\* The hosts' proposals are entries of the ledger like everybody's bookings: none turns out
\* a confirmed stay (operations.ts:125-180, 497-609).
THEOREM RoomActionsImplementLedger == RoomSpec => ImplementsLedger
BY RoomActionsImplementBooking, BookingImplementsLedger, PTL

LEMMA AppliedIsEffective ==
    ASSUME RoomTypeOK, NEW p \in RoomRun, NEW plan \in Plans,
           proposals[p] = Pending(plan), ApplyRoomActionProposal(p)
    PROVE  Effective(plan)'
<1>1. proposals[p].plan = plan
  BY DEF Pending
<1>2. CASE plan.kind = "private_block"
  <2>1. PICK b \in Block : BlockRooms(b, plan.rooms, plan.stay)
    BY <1>1, <1>2 DEF ApplyRoomActionProposal
  <2>2. blocks'[b] = [rooms |-> plan.rooms, stay |-> plan.stay]
    BY <2>1 DEF BlockRooms, RoomTypeOK, TypeOK
  <2>3. Meets(plan.stay, plan.stay)
    BY RoomActionsAssumption DEF Plan, Stay, Meets
  <2> QED BY <1>2, <2>2, <2>3 DEF Effective, Free
<1>3. CASE plan.kind # "private_block"
  <2>1. PICK r \in plan.rooms : Control(plan, r)
    BY <1>1, <1>3 DEF ApplyRoomActionProposal
  <2> DEFINE o == [room |-> r, stay |-> plan.stay, action |-> plan.kind]
  <2>2. plan.rooms = {r} /\ o \in Override
    BY <1>3, ControlIsAnOverride
  <2>3. CreateOverride(o)
    BY <2>1 DEF Control
  <2>4. /\ o \in overrides' /\ inventory' = inventory
        /\ inventory[r].state = IF plan.kind = "open" THEN "withheld" ELSE "available"
    BY <2>3 DEF CreateOverride
  <2>5. CASE plan.kind = "open"
    <3>1. Offered(r, plan.stay)'
      BY <2>4, <2>5 DEF Offered
    <3> QED BY <2>2, <2>5, <3>1 DEF Effective
  <2>6. CASE plan.kind = "close"
    <3>1. \A stay \in Stay : Meets(stay, plan.stay) => ~Offered(r, stay)'
      BY <2>4, <2>6 DEF Offered, Meets
    <3> QED BY <2>2, <2>6, <3>1 DEF Effective
  <2>7. plan.kind \in {"open", "close"}
    BY <1>3, RoomActionsAssumption DEF Plan
  <2> QED BY <2>5, <2>6, <2>7
<1> QED BY <1>2, <1>3

\* Whatever changed between preparation and application, an applied action takes effect
\* (operations.ts:521-560).
THEOREM AppliedActionsWork == RoomSpec => AppliedTakesEffect
<1> DEFINE Works ==
        \A p \in RoomRun, plan \in Plans :
            proposals[p] = Pending(plan) /\ proposals'[p].status = "applied" => Effective(plan)'
<1>1. ASSUME RoomTypeOK, [RoomNext]_roomVars PROVE [Works]_roomVars
  <2> SUFFICES ASSUME RoomNext, NEW p \in RoomRun, NEW plan \in Plans,
                      proposals[p] = Pending(plan), proposals'[p].status = "applied"
               PROVE  Effective(plan)'
    BY <1>1
  <2>1. proposals[p].status = "pending"
    BY DEF Pending
  <2>2. ASSUME NEW q \in RoomRun, NEW other \in Plans, PrepareRoomActionProposal(q, other)
        PROVE  proposals'[p].status = "pending"
    BY <1>1, <2>1, <2>2 DEF PrepareRoomActionProposal, RoomTypeOK, Pending
  <2>3. ASSUME NEW q \in RoomRun, DismissRoomActionProposal(q)
        PROVE  proposals'[p].status \in {"pending", "dismissed"}
    BY <1>1, <2>1, <2>3 DEF DismissRoomActionProposal, RoomTypeOK
  <2>4. ASSUME NEW q \in RoomRun, ApplyRoomActionProposal(q), q # p
        PROVE  proposals'[p] = proposals[p]
    BY <1>1, <2>4 DEF ApplyRoomActionProposal, RoomTypeOK
  <2>5. PICK q \in RoomRun : ApplyRoomActionProposal(q)
    BY <2>1, <2>2, <2>3 DEF RoomNext
  <2>6. ApplyRoomActionProposal(p)
    BY <2>1, <2>4, <2>5
  <2> QED BY <1>1, <2>6, AppliedIsEffective
<1> QED BY <1>1, RoomInvariance, PTL DEF RoomSpec, AppliedTakesEffect
=============================================================================
