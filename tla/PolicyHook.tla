----------------------------- MODULE PolicyHook -----------------------------
(***************************************************************************)
(* The gated tools of the agent: every hold, confirmation and reschedule   *)
(* passes the policy hook (agent/policy-hook.ts), which reads the house    *)
(* without a lock, denies, allows, or asks the hosts; the tool itself is a *)
(* booking transaction that commits later.                                 *)
(*                                                                         *)
(* An invitation is one agent session, which one run at a time owns        *)
(* (RunQueue), so it has at most one gated call.  An interrupted session   *)
(* takes nothing but the answers to its questions.  When the answer comes  *)
(* the hook runs again from its start, in another process, and what the    *)
(* resumed run saves may be lost with it: then the call is made once more. *)
(*                                                                         *)
(* Party stands for size, pets and special requests together; the latter   *)
(* only ever grow.  Which draft the model asks for is up to it.            *)
(***************************************************************************)
EXTENDS Booking

CONSTANTS
    Asking,     \* the parties with special requests
    Wishes      \* bound: the drafts each guest submits or reschedules to; no rooms
                \* where the guest leaves the choice to the house

ASSUME PolicyHookAssumption == Asking \subseteq Party /\ Wishes \in [Invitation -> SUBSET Draft]

VARIABLE call   \* the gated tool call of each invitation's session

hookVars == <<status, terms, approval, lapsed, waiting, withdrawn,
              blocks, overrides, inventory, rules, call>>

Tool == {"create_temporary_hold", "confirm_visit", "reschedule_visit"}

\* asked: a decision is pending; approved: recorded, and still to be resumed;
\* answered: the resumed hook has evaluated the call and has the answer; cleared: the
\* tool runs; granted: the tool runs with a host's approval.
Phase == {"asked", "approved", "answered", "cleared", "granted"}

\* named: the rooms are the guest's choice, or the visit's; shown: what the host was asked
\* about; review: what the resumed hook read of the rooms before it took the answer.
NoCall == [phase |-> "none"]
Call == [tool : Tool, visit : Visit, draft : Draft, named : BOOLEAN, phase : Phase,
         shown : Draft \cup {NoDraft}, review : SUBSET (Room \X Arrangement)]

HookTypeOK ==
    /\ call \in [Invitation -> Call \cup {NoCall}]
    /\ \A i \in Invitation : call[i] # NoCall => MadeFor[call[i].visit] = i

HookInit ==
    /\ Init
    /\ call = [i \in Invitation |-> NoCall]

-----------------------------------------------------------------------------
(***************************************************************************)
(* What the hook sees and says                                             *)
(***************************************************************************)

\* Rows decide: a lapsed hold keeps its rooms until a transaction releases it.
ListGuestRoomOptions(v, stay) ==
    {r \in Room :
        /\ Offered(r, stay)
        /\ \A u \in Visit \ {v} : Active(u) /\ Meets(terms[u].stay, stay) => r \notin terms[u].rooms
        /\ \A b \in Block : Meets(blocks[b].stay, stay) => r \notin blocks[b].rooms}

\* Standard places of free rooms for the party, in no more rooms than it takes.
AllocateRooms(v, wish) ==
    LET enough == {rooms \in SUBSET ListGuestRoomOptions(v, wish.stay) :
                       Sleeps(Standard, [wish EXCEPT !.rooms = rooms])}
    IN  {rooms \in enough : \A other \in enough : Cardinality(rooms) <= Cardinality(other)}

\* A hold is for what the guest submitted, in the rooms named or else allocated now.
\* Otherwise the stay and the people are those of the call or else the visit's, the
\* rooms always the visit's; consent to overflow is restored from an approval of the
\* very same terms.  There is none when no rooms are left to allocate.
DraftsForTool(tool, v, wish) ==
    LET moved == [terms[v] EXCEPT !.stay = wish.stay, !.party = wish.party]
        consented == [moved EXCEPT !.overflow = TRUE]
    IN  CASE tool # "create_temporary_hold" ->
                {IF ~Sleeps(Standard, terms[v]) /\ approval[v] = consented
                 THEN consented ELSE moved}
          [] tool = "create_temporary_hold" /\ wish.rooms # {} -> {wish}
          [] OTHER -> {[wish EXCEPT !.rooms = rooms] : rooms \in AllocateRooms(v, wish)}

\* The policy allocates standard places of any free rooms; the selection is checked
\* against the same options.
Denied(v, draft) ==
    \/ ~(draft.rooms \subseteq ListGuestRoomOptions(v, draft.stay))
    \/ ~Fits(draft, TRUE)
    \/ ~Sleeps(Standard, [draft EXCEPT !.rooms = ListGuestRoomOptions(v, draft.stay)])
    \/ ~Allowed(v, draft)

NeedsAHost(draft) == draft.party \in Asking \/ ~Sleeps(Standard, draft)

\* Mutant: any approval of the visit will do.
ApprovedBefore(tool, v, draft) == tool # "create_temporary_hold" /\ approval[v] # NoDraft

ApprovalCovers(tool, v, draft) == tool # "create_temporary_hold" /\ approval[v] = draft

\* The hook asks, or takes the answer it has.
Asks(tool, v, draft) == NeedsAHost(draft) /\ ~ApprovalCovers(tool, v, draft)

\* What hosts are shown of the rooms in which a party needs overflow places.
Review(draft) ==
    IF Sleeps(Standard, draft) THEN {}
    ELSE {<<r, inventory[r].arrangement>> : r \in draft.rooms}

\* Which visits and wishes a tool can be called with.
Callable(i, tool, v, wish) ==
    /\ MadeFor[v] = i
    /\ CASE tool = "create_temporary_hold" -> status[v] = "none" /\ wish \in Wishes[i]
         [] tool = "confirm_visit" -> Active(v) /\ wish = terms[v]
         [] tool = "reschedule_visit" ->
               /\ Active(v) /\ wish \in Wishes[i]
               /\ terms[v].party \in Asking => wish.party \in Asking

CallTool(i, tool, v, wish) ==
    /\ call[i] = NoCall
    /\ i \notin withdrawn
    /\ Callable(i, tool, v, wish)
    /\ \E draft \in DraftsForTool(tool, v, wish) :
          /\ ~Denied(v, draft)
          /\ call' = [call EXCEPT ![i] =
                 [tool |-> tool, visit |-> v, draft |-> draft, named |-> wish.rooms # {},
                  phase |-> IF Asks(tool, v, draft) THEN "asked" ELSE "cleared",
                  shown |-> IF Asks(tool, v, draft) THEN draft ELSE NoDraft,
                  review |-> {}]]
    /\ UNCHANGED vars

\* recordHostDecision; a declined tool call is cancelled when it is resumed.
AnswerHost(i, approved) ==
    /\ call[i].phase = "asked"
    /\ i \notin withdrawn
    /\ call' = [call EXCEPT ![i] = IF approved THEN [@ EXCEPT !.phase = "approved"] ELSE NoCall]
    /\ UNCHANGED vars

\* What the call asked for; rooms that the house chose are chosen anew.
Wish(c) == IF c.named THEN c.draft ELSE [c.draft EXCEPT !.rooms = {}]

\* The hook again from its start, with the answer at hand: it loads the draft, evaluates
\* it, and goes on behind the question.
Resume(i) ==
    /\ call[i].phase = "approved"
    /\ LET c == call[i]
           visible == c.tool = "create_temporary_hold" \/ Active(c.visit)
           drafts == IF i \in withdrawn \/ ~visible THEN {}
                     ELSE {draft \in DraftsForTool(c.tool, c.visit, Wish(c)) :
                               ~Denied(c.visit, draft)}
       IN  \/ /\ drafts = {}
              /\ call' = [call EXCEPT ![i] = NoCall]
           \/ \E draft \in drafts :
                 call' = [call EXCEPT ![i] =
                    IF Asks(c.tool, c.visit, draft)
                    THEN [c EXCEPT !.draft = draft, !.phase = "answered", !.review = Review(draft)]
                    ELSE [c EXCEPT !.draft = draft, !.phase = "cleared", !.shown = NoDraft]]
    /\ UNCHANGED vars

\* Behind the answer the draft is evaluated once more.  An arrangement that has changed
\* since the look before this one is refused; since the question, it is not.
Refresh(i) ==
    /\ call[i].phase = "answered"
    /\ LET c == call[i]
           changed == {} \notin {c.review, Review(c.draft)} /\ Review(c.draft) # c.review
       IN  call' = [call EXCEPT ![i] = IF Denied(c.visit, c.draft) \/ changed THEN NoCall
                                       ELSE [c EXCEPT !.phase = "granted", !.review = {}]]
    /\ UNCHANGED vars

-----------------------------------------------------------------------------
(***************************************************************************)
(* The tools                                                               *)
(***************************************************************************)

Runs(i, tool) ==
    /\ call[i].phase \in {"cleared", "granted"}
    /\ call[i].tool = tool

Granted(i) == call[i].phase = "granted"

\* The run dies with what it did not save: an approved call is resumed again, another
\* is forgotten until the run is executed anew.
Unsaved(i) ==
    IF call[i].phase = "cleared" THEN NoCall
    ELSE [call[i] EXCEPT !.phase = "approved", !.review = {}]

Saved(i) == call' = [call EXCEPT ![i] = NoCall] \/ call' = [call EXCEPT ![i] = Unsaved(i)]

LookUp(i) ==
    /\ Runs(i, "create_temporary_hold")
    /\ LookUpInvitation(i)
    /\ UNCHANGED call

Hold(i) ==
    /\ Runs(i, "create_temporary_hold")
    /\ CreateTemporaryHold(call[i].visit, call[i].draft, Granted(i))
    /\ Saved(i)

Confirm(i) ==
    /\ Runs(i, "confirm_visit")
    /\ ConfirmVisit(call[i].visit, Granted(i))
    /\ Saved(i)

Reschedule(i) ==
    /\ Runs(i, "reschedule_visit")
    /\ RescheduleVisit(call[i].visit, call[i].draft, Granted(i))
    /\ Saved(i)

\* The transaction or the hook fails, or the run dies before either is through.
Fail(i) ==
    /\ call[i].phase \in {"answered", "cleared", "granted"}
    /\ waiting' = waiting \ {i}
    /\ Saved(i)
    /\ UNCHANGED <<visitVars, withdrawn, hostVars>>

\* Withdrawal retires the open questions of the invitation; an answered one is found
\* dead when it is resumed.
Withdraw(i) ==
    /\ WithdrawInvitation(i)
    /\ call' = [call EXCEPT ![i] = IF @.phase = "asked" THEN NoCall ELSE @]

-----------------------------------------------------------------------------
AgentStep ==
    \E i \in Invitation :
        \/ \E tool \in Tool, v \in Visit :
              \E wish \in Wishes[i] \cup {terms[v]} : CallTool(i, tool, v, wish)
        \/ \E approved \in BOOLEAN : AnswerHost(i, approved)
        \/ Resume(i) \/ Refresh(i) \/ LookUp(i) \/ Hold(i) \/ Confirm(i) \/ Reschedule(i)
        \/ Fail(i) \/ Withdraw(i)

OtherStep ==
    /\ \/ \E v \in Visit : HoldLapses(v) \/ CancelVisit(v)
       \/ ExpireHolds
       \/ HostStep
    /\ UNCHANGED call

HookNext == AgentStep \/ OtherStep

HookSpec == HookInit /\ [][HookNext]_hookVars

-----------------------------------------------------------------------------
(***************************************************************************)
(* Properties                                                              *)
(***************************************************************************)

\* The question behind the call showed this stay, this party, this consent, and these
\* rooms, unless the guest had left the rooms to the house.
Seen(c, draft) ==
    c.shown = IF c.named THEN draft ELSE [draft EXCEPT !.rooms = c.shown.rooms]

\* An approval is recorded only behind a host's answer to a question that showed these
\* very dates, people, requests and rooms, and no visit with special requests is held,
\* confirmed or moved without one.  Nothing behind the hook checks requests
\* (evaluate-overlap.ts:110-117), and the hook only saw the house before the tool ran.
\* Rooms that the guest left to the house are allocated anew behind the answer
\* (policy-hook.ts:61-64): those may be others.
HostsHaveSeenIt ==
    [][\A v \in Visit :
         /\ approval'[v] \notin {approval[v], NoDraft}
            => Granted(MadeFor[v]) /\ Seen(call[MadeFor[v]], approval'[v])
         /\ Booked(v) /\ terms'[v].party \in Asking => approval'[v] # NoDraft]_hookVars
=============================================================================
