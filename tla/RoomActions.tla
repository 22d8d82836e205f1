----------------------------- MODULE RoomActions -----------------------------
(***************************************************************************)
(* Room actions that the agent prepares and a host applies: a host asks    *)
(* for one in words, the run stores a proposal (core/rooms/proposals.ts),  *)
(* and any host of the home applies or dismisses it later                  *)
(* (applyRoomActionProposal, dismissRoomActionProposal in                  *)
(* core/rooms/operations.ts), while bookings, controls and the inventory   *)
(* of Booking go on changing.  Each operation holds the home's lock.       *)
(*                                                                         *)
(* A proposal that was settled is never read again, so its plan is         *)
(* dropped.                                                                *)
(***************************************************************************)
EXTENDS Booking

CONSTANTS
    RoomRun,    \* the runs of host_room_request tasks, each with its proposal
    Plans       \* bound: the actions they may prepare

Plan == [kind : {"open", "close", "private_block"}, rooms : SUBSET Room \ {{}}, stay : Stay]

\* An availability proposal selects exactly one room.
ASSUME RoomActionsAssumption ==
    /\ Plans \subseteq Plan
    /\ \A plan \in Plans : plan.kind # "private_block" => \E r \in Room : plan.rooms = {r}

VARIABLE proposals  \* room_action_proposals, by run

roomVars == <<status, terms, approval, lapsed, waiting, withdrawn,
              blocks, overrides, inventory, rules, proposals>>

NoProposal == [status |-> "none"]
Pending(plan) == [status |-> "pending", plan |-> plan]
Proposal == [status : {"pending"}, plan : Plans] \cup [status : {"none", "applied", "dismissed"}]

RoomTypeOK == TypeOK /\ proposals \in [RoomRun -> Proposal]

RoomInit ==
    /\ Init
    /\ proposals = [p \in RoomRun |-> NoProposal]

-----------------------------------------------------------------------------
States(kind) ==
    CASE kind = "open" -> {"withheld"}
      [] kind = "close" -> {"available"}
      [] kind = "private_block" -> {"available", "withheld"}

\* The run may ask for the same again and is shown what it stored; anything else is an
\* error.
PrepareRoomActionProposal(p, plan) ==
    /\ proposals[p] = NoProposal
    /\ \A r \in plan.rooms : inventory[r].state \in States(plan.kind)
    /\ proposals' = [proposals EXCEPT ![p] = Pending(plan)]
    /\ UNCHANGED vars

\* Mutant: the checks made when the proposal was prepared are trusted.
ControlAsPrepared(plan, r) ==
    /\ overrides' = overrides \cup {[room |-> r, stay |-> plan.stay, action |-> plan.kind]}
    /\ UNCHANGED <<visitVars, waiting, withdrawn, blocks, inventory, rules>>

Control(plan, r) == CreateOverride([room |-> r, stay |-> plan.stay, action |-> plan.kind])

\* The room's state is read again under the lock; occupied rooms and dates that have a
\* control already are refused by the exclusion constraints.
ApplyRoomActionProposal(p) ==
    /\ proposals[p].status = "pending"
    /\ LET plan == proposals[p].plan
       IN  IF plan.kind = "private_block"
           THEN \E b \in Block : BlockRooms(b, plan.rooms, plan.stay)
           ELSE \E r \in plan.rooms : Control(plan, r)
    /\ proposals' = [proposals EXCEPT ![p] = [status |-> "applied"]]

DismissRoomActionProposal(p) ==
    /\ proposals[p].status = "pending"
    /\ proposals' = [proposals EXCEPT ![p] = [status |-> "dismissed"]]
    /\ UNCHANGED vars

RoomNext ==
    \/ \E p \in RoomRun : \/ ApplyRoomActionProposal(p)
                          \/ DismissRoomActionProposal(p)
                          \/ \E plan \in Plans : PrepareRoomActionProposal(p, plan)
    \/ Next /\ UNCHANGED proposals

RoomSpec == RoomInit /\ [][RoomNext]_roomVars

-----------------------------------------------------------------------------
(***************************************************************************)
(* Properties                                                              *)
(***************************************************************************)

Effective(plan) ==
    \A r \in plan.rooms :
        CASE plan.kind = "open" -> Offered(r, plan.stay)
          [] plan.kind = "close" -> \A stay \in Stay : Meets(stay, plan.stay) => ~Offered(r, stay)
          [] plan.kind = "private_block" -> \A v \in Visit : ~Free(r, v, plan.stay)

\* A proposal is marked applied only when it does what it says, however the rooms
\* and controls have changed since the agent prepared it (operations.ts:521-560): an
\* opened room is offered, a closed or blocked one no longer.
AppliedTakesEffect ==
    [][\A p \in RoomRun, plan \in Plans :
         proposals[p] = Pending(plan) /\ proposals'[p].status = "applied"
         => Effective(plan)']_roomVars
=============================================================================
