-------------------------- MODULE PolicyHookProofs --------------------------
(***************************************************************************)
(* The hook and its tools do nothing but book, so what BookingProofs shows *)
(* stays true around them.  That hosts have seen what they approve is      *)
(* shown from CallsFit: until a tool has run only its session, or a        *)
(* cancellation, can touch the visit, so the draft that the hook computes  *)
(* again behind the answer is the one it asked about, whatever hosts have  *)
(* made of the rooms, but for rooms that it allocates itself.              *)
(***************************************************************************)
EXTENDS PolicyHook, BookingProofs

\* Consent to overflow is part of an approval, never of the visit's row.
RowsKeepNoConsent == \A v \in Visit : Active(v) => terms[v].overflow = FALSE

RequestsAreApproved ==
    \A v \in Visit : Active(v) /\ terms[v].party \in Asking => approval[v] # NoDraft

Holding(c) == c.tool = "create_temporary_hold"

CallFits(c) ==
    /\ c.phase # "cleared" => Seen(c, c.draft)
    /\ Holding(c) => /\ c.named => c.draft.rooms # {}
                     /\ c.phase = "cleared" => c.draft.party \notin Asking
    /\ ~Holding(c) /\ Active(c.visit) =>
          IF c.phase = "cleared"
          THEN c.draft.party \in Asking => approval[c.visit] = c.draft
          ELSE /\ c.draft.overflow = FALSE /\ c.draft.rooms = terms[c.visit].rooms
               /\ c.tool = "confirm_visit" => c.draft = terms[c.visit]

CallsFit == \A i \in Invitation : call[i] # NoCall => CallFits(call[i])

HInv ==
    /\ IInv
    /\ HookTypeOK
    /\ RowsKeepNoConsent
    /\ RequestsAreApproved
    /\ CallsFit

-----------------------------------------------------------------------------
(***************************************************************************)
(* Drafts                                                                  *)
(***************************************************************************)

LEMMA DraftsAreEqual ==
    ASSUME NEW a \in Draft, NEW b \in Draft, a.stay = b.stay, a.rooms = b.rooms,
           a.party = b.party, a.overflow = b.overflow
    PROVE  a = b
<1>1. a = [stay |-> a.stay, party |-> a.party, rooms |-> a.rooms, overflow |-> a.overflow]
  BY DEF Draft
<1>2. b = [stay |-> b.stay, party |-> b.party, rooms |-> b.rooms, overflow |-> b.overflow]
  BY DEF Draft
<1> QED BY <1>1, <1>2

\* Two drafts that differ in their rooms at most.
LEMMA RoomsAside ==
    ASSUME NEW a \in Draft, NEW b \in Draft, a.stay = b.stay, a.party = b.party,
           a.overflow = b.overflow, NEW x
    PROVE  [a EXCEPT !.rooms = x] = [b EXCEPT !.rooms = x]
<1>1. a = [stay |-> a.stay, party |-> a.party, rooms |-> a.rooms, overflow |-> a.overflow]
  BY DEF Draft
<1>2. b = [stay |-> b.stay, party |-> b.party, rooms |-> b.rooms, overflow |-> b.overflow]
  BY DEF Draft
<1>3. [a EXCEPT !.rooms = x]
      = [stay |-> a.stay, party |-> a.party, rooms |-> x, overflow |-> a.overflow]
  BY <1>1
<1>4. [b EXCEPT !.rooms = x]
      = [stay |-> b.stay, party |-> b.party, rooms |-> x, overflow |-> b.overflow]
  BY <1>2
<1> QED BY <1>3, <1>4

LEMMA RowFacts ==
    ASSUME NEW d \in Draft
    PROVE  /\ Row(d) \in Draft /\ Row(d).overflow = FALSE
           /\ Row(d).stay = d.stay /\ Row(d).rooms = d.rooms /\ Row(d).party = d.party
           /\ d.overflow = FALSE => Row(d) = d
<1>1. /\ Row(d) \in Draft /\ Row(d).overflow = FALSE
      /\ Row(d).stay = d.stay /\ Row(d).rooms = d.rooms /\ Row(d).party = d.party
  BY DraftFacts DEF Row
<1>2. d.overflow = FALSE => Row(d) = d
  <2> HIDE DEF Row
  <2> QED BY <1>1, DraftsAreEqual
<1> QED BY <1>1, <1>2

\* What the hook makes of a call whose visit has the terms t.
LEMMA MovedFacts ==
    ASSUME NEW t \in Draft, NEW w \in Draft
    PROVE  LET moved == [t EXCEPT !.stay = w.stay, !.party = w.party]
               consented == [moved EXCEPT !.overflow = TRUE]
           IN  /\ moved \in Draft /\ consented \in Draft
               /\ moved.stay = w.stay /\ moved.party = w.party /\ moved.rooms = t.rooms
               /\ moved.overflow = t.overflow
               /\ consented.stay = w.stay /\ consented.party = w.party
               /\ consented.rooms = t.rooms /\ consented.overflow = TRUE
<1> DEFINE moved == [t EXCEPT !.stay = w.stay, !.party = w.party]
<1>1. /\ moved \in Draft /\ moved.stay = w.stay /\ moved.party = w.party
      /\ moved.rooms = t.rooms /\ moved.overflow = t.overflow
  BY DEF Draft
<1> HIDE DEF moved
<1>2. LET consented == [moved EXCEPT !.overflow = TRUE]
      IN  /\ consented \in Draft /\ consented.stay = moved.stay
          /\ consented.party = moved.party /\ consented.rooms = moved.rooms
          /\ consented.overflow = TRUE
  BY <1>1, DraftFacts
<1> QED BY <1>1, <1>2 DEF moved

LEMMA WishedRooms ==
    ASSUME NEW w \in Draft, NEW rooms \in SUBSET Room
    PROVE  LET d == [w EXCEPT !.rooms = rooms]
           IN  /\ d \in Draft /\ d.rooms = rooms
               /\ d.stay = w.stay /\ d.party = w.party /\ d.overflow = w.overflow
BY DEF Draft

\* The drafts of a hold are the wish, but for rooms that the house allocates.
LEMMA HoldDrafts ==
    ASSUME NEW v \in Visit, NEW w \in Draft,
           NEW draft \in DraftsForTool("create_temporary_hold", v, w)
    PROVE  /\ draft \in Draft
           /\ draft.stay = w.stay /\ draft.party = w.party /\ draft.overflow = w.overflow
           /\ w.rooms # {} => draft = w
<1>1. CASE w.rooms # {}
  BY <1>1 DEF DraftsForTool
<1>2. CASE w.rooms = {}
  <2>1. PICK rooms \in AllocateRooms(v, w) : draft = [w EXCEPT !.rooms = rooms]
    BY <1>2 DEF DraftsForTool
  <2>2. rooms \in SUBSET Room
    BY DEF AllocateRooms, ListGuestRoomOptions
  <2> QED BY <1>2, <2>1, <2>2, WishedRooms
<1> QED BY <1>1, <1>2

\* The draft of another tool has the visit's rooms, and consent to overflow only where
\* hosts have approved it already.
LEMMA VisitDrafts ==
    ASSUME NEW tool \in Tool, tool # "create_temporary_hold", NEW v \in Visit,
           NEW w \in Draft, terms[v] \in Draft, terms[v].overflow = FALSE,
           NEW draft \in DraftsForTool(tool, v, w)
    PROVE  /\ draft \in Draft
           /\ draft.stay = w.stay /\ draft.party = w.party /\ draft.rooms = terms[v].rooms
           /\ Asks(tool, v, draft) => draft.overflow = FALSE
<1>t. PICK t \in Draft : t = terms[v]
  OBVIOUS
<1> DEFINE moved == [t EXCEPT !.stay = w.stay, !.party = w.party]
           consented == [moved EXCEPT !.overflow = TRUE]
<1>1. /\ moved \in Draft /\ moved.stay = w.stay /\ moved.party = w.party
      /\ moved.rooms = terms[v].rooms /\ moved.overflow = FALSE
      /\ consented \in Draft /\ consented.stay = w.stay
      /\ consented.party = w.party /\ consented.rooms = terms[v].rooms
  <2>1. /\ moved \in Draft /\ consented \in Draft
        /\ moved.stay = w.stay /\ moved.party = w.party /\ moved.rooms = t.rooms
        /\ moved.overflow = t.overflow
        /\ consented.stay = w.stay /\ consented.party = w.party
        /\ consented.rooms = t.rooms /\ consented.overflow = TRUE
    BY MovedFacts
  <2> HIDE DEF moved, consented
  <2> QED BY <1>t, <2>1
<1>2. draft = moved \/ (draft = consented /\ approval[v] = consented)
  BY <1>t DEF DraftsForTool
<1> HIDE DEF moved, consented
<1>3. draft = consented /\ approval[v] = consented => ~Asks(tool, v, draft)
  BY DEF Asks, ApprovalCovers
<1> QED BY <1>1, <1>2, <1>3

-----------------------------------------------------------------------------
(***************************************************************************)
(* Calls are typed, and every step books or leaves the bookings alone      *)
(***************************************************************************)

LEMMA CallFacts ==
    ASSUME HookTypeOK, NEW i \in Invitation, call[i].phase \in Phase
    PROVE  /\ call[i] # NoCall /\ call[i] \in Call
           /\ call[i].tool \in Tool /\ call[i].visit \in Visit /\ call[i].draft \in Draft
           /\ MadeFor[call[i].visit] = i
<1>1. call[i] # NoCall
  BY DEF NoCall, Phase
<1> QED BY <1>1 DEF HookTypeOK, Call

\* The same call in another phase.
LEMMA PhaseFacts ==
    ASSUME NEW c \in Call, NEW phase \in Phase
    PROVE  LET d == [c EXCEPT !.phase = phase]
               e == [c EXCEPT !.phase = phase, !.review = {}]
           IN  /\ d \in Call /\ d.phase = phase /\ d.named = c.named /\ d.shown = c.shown
               /\ d.tool = c.tool /\ d.visit = c.visit /\ d.draft = c.draft
               /\ e \in Call /\ e.phase = phase /\ e.named = c.named /\ e.shown = c.shown
               /\ e.tool = c.tool /\ e.visit = c.visit /\ e.draft = c.draft
BY DEF Call

Reviews == SUBSET (Room \X Arrangement)

\* The call with the draft that the resumed hook has computed.
Answered(c, draft, review) ==
    [c EXCEPT !.draft = draft, !.phase = "answered", !.review = review]

LEMMA AnsweredFacts ==
    ASSUME NEW c \in Call, NEW draft \in Draft, NEW review \in Reviews
    PROVE  LET d == Answered(c, draft, review)
           IN  /\ d \in Call /\ d.phase = "answered" /\ d.draft = draft
               /\ d.tool = c.tool /\ d.visit = c.visit /\ d.named = c.named /\ d.shown = c.shown
BY DEF Call, Phase, Reviews, Answered

LEMMA ClearedFacts ==
    ASSUME NEW c \in Call, NEW draft \in Draft
    PROVE  LET d == [c EXCEPT !.draft = draft, !.phase = "cleared", !.shown = NoDraft]
           IN  /\ d \in Call /\ d.phase = "cleared" /\ d.draft = draft
               /\ d.tool = c.tool /\ d.visit = c.visit /\ d.named = c.named
BY DEF Call, Phase

LEMMA ReviewType ==
    ASSUME TypeOK, NEW draft \in Draft
    PROVE  Review(draft) \in Reviews
BY DEF TypeOK, Review, Reviews, Draft, Entry

LEMMA HookStepIsAStep ==
    ASSUME HookTypeOK, [HookNext]_hookVars
    PROVE  [Next]_vars
<1>1. ASSUME NEW i \in Invitation, Hold(i) \/ Confirm(i) \/ Reschedule(i) PROVE Next
  <2>1. call[i].visit \in Visit /\ call[i].draft \in Draft
    BY <1>1, CallFacts DEF Hold, Confirm, Reschedule, Runs, Phase
  <2>2. Granted(i) \in BOOLEAN
    BY DEF Granted
  <2>3. CASE Hold(i)
    BY <2>1, <2>2, <2>3 DEF Hold, Next, GuestStep
  <2>4. CASE Confirm(i)
    BY <2>1, <2>2, <2>4 DEF Confirm, Next, GuestStep
  <2>5. CASE Reschedule(i)
    BY <2>1, <2>2, <2>5 DEF Reschedule, Next, GuestStep
  <2> QED BY <1>1, <2>3, <2>4, <2>5
<1>2. ASSUME NEW i \in Invitation, Fail(i) PROVE [Next]_vars
  <2>1. CASE i \in waiting
    <3>1. RefuseHold(i)
      BY <1>2, <2>1 DEF Fail, RefuseHold
    <3> QED BY <3>1 DEF Next, GuestStep
  <2>2. CASE i \notin waiting
    <3>1. waiting \ {i} = waiting
      BY <2>2
    <3> QED BY <1>2, <3>1 DEF Fail, vars, visitVars, hostVars
  <2> QED BY <2>1, <2>2
<1>3. ASSUME NEW i \in Invitation, LookUp(i) \/ Withdraw(i) PROVE Next
  BY <1>3 DEF LookUp, Withdraw, Next, GuestStep
<1>4. ASSUME OtherStep PROVE Next
  BY <1>4 DEF OtherStep, Next, GuestStep
<1>5. ASSUME NEW i \in Invitation,
             \/ \E tool \in Tool, v \in Visit :
                   \E wish \in Wishes[i] \cup {terms[v]} : CallTool(i, tool, v, wish)
             \/ \E approved \in BOOLEAN : AnswerHost(i, approved)
             \/ Resume(i) \/ Refresh(i)
      PROVE  UNCHANGED vars
  BY <1>5 DEF CallTool, AnswerHost, Resume, Refresh
<1>6. CASE UNCHANGED hookVars
  BY <1>6 DEF hookVars, vars
<1> QED BY <1>1, <1>2, <1>3, <1>4, <1>5, <1>6 DEF HookNext, AgentStep

\* Every step but a booking leaves an active visit as it is, or ends it.
Untouched(v) ==
    Active(v)' => Active(v) /\ terms'[v] = terms[v] /\ approval'[v] = approval[v]

\* The visit was booked with the approval a host has just given, or one it had, or it
\* needs none.
BookedAsSeen(v) ==
    /\ Active(v)'
    /\ terms'[v].overflow = FALSE
    /\ approval'[v] \notin {approval[v], NoDraft}
       => Granted(MadeFor[v]) /\ Seen(call[MadeFor[v]], approval'[v])
    /\ terms'[v].party \in Asking => approval'[v] # NoDraft

\* HostsHaveSeenIt, of one step.
HostsSaw ==
    \A v \in Visit :
        /\ approval'[v] \notin {approval[v], NoDraft}
           => Granted(MadeFor[v]) /\ Seen(call[MadeFor[v]], approval'[v])
        /\ Booked(v) /\ terms'[v].party \in Asking => approval'[v] # NoDraft

Kept == HInv' /\ HostsSaw

\* What a step has to keep.
LEMMA KeptStep ==
    ASSUME HInv, IInv', HookTypeOK',
           \A v \in Visit : Untouched(v) \/ BookedAsSeen(v),
           \A i \in Invitation : call'[i] # NoCall => CallFits(call[i])'
    PROVE  Kept
<1>1. RowsKeepNoConsent'
  BY DEF HInv, RowsKeepNoConsent, Untouched, BookedAsSeen
<1>2. RequestsAreApproved'
  BY DEF HInv, RequestsAreApproved, Untouched, BookedAsSeen
<1>3. CallsFit'
  BY DEF CallsFit
<1>4. HostsSaw
  <2> SUFFICES ASSUME NEW v \in Visit
               PROVE  /\ approval'[v] \notin {approval[v], NoDraft}
                         => Granted(MadeFor[v]) /\ Seen(call[MadeFor[v]], approval'[v])
                      /\ Active(v)' /\ terms'[v].party \in Asking => approval'[v] # NoDraft
    BY DEF HostsSaw, Booked
  <2>1. approval'[v] # NoDraft => Active(v)'
    BY DEF IInv, ApprovalIsForTheseTerms
  <2> QED BY <1>2, <2>1 DEF Untouched, BookedAsSeen, RequestsAreApproved
<1> QED BY <1>1, <1>2, <1>3, <1>4 DEF Kept, HInv

\* What a call says of a visit that nobody touched.
LEMMA CallStillFits ==
    ASSUME NEW c, CallFits(c), Untouched(c.visit)
    PROVE  CallFits(c)'
<1>1. Active(c.visit)' => /\ Active(c.visit)
                          /\ terms'[c.visit] = terms[c.visit]
                          /\ approval'[c.visit] = approval[c.visit]
  BY DEF Untouched
<1> QED BY <1>1 DEF CallFits, Holding, Seen

\* A call that differs in its phase fits as well, as long as it is not cleared.
LEMMA PhaseFits ==
    ASSUME NEW c, NEW d, CallFits(c), c.phase # "cleared", d.phase # "cleared",
           d.tool = c.tool, d.visit = c.visit, d.draft = c.draft,
           d.named = c.named, d.shown = c.shown
    PROVE  CallFits(d)
BY DEF CallFits, Holding, Seen

-----------------------------------------------------------------------------
(***************************************************************************)
(* The session's steps                                                     *)
(***************************************************************************)

\* One call changes to c; no visit but the session's own is booked.
LEMMA CallStep ==
    ASSUME HInv, IInv', NEW i \in Invitation, NEW c \in Call \cup {NoCall},
           call' = [call EXCEPT ![i] = c], c # NoCall => MadeFor[c.visit] = i,
           \A v \in Visit : Untouched(v) \/ (BookedAsSeen(v) /\ MadeFor[v] = i),
           c # NoCall => CallFits(c)'
    PROVE  Kept
<1>1. call'[i] = c /\ \A j \in Invitation \ {i} : call'[j] = call[j]
  BY DEF HInv, HookTypeOK
<1>2. HookTypeOK'
  BY <1>1 DEF HInv, HookTypeOK
<1>3. ASSUME NEW j \in Invitation, call'[j] # NoCall PROVE CallFits(call[j])'
  <2>1. CASE j = i
    BY <1>1, <1>3, <2>1 DEF CallFits, Holding, Seen
  <2>2. CASE j # i
    <3>1. call[j] # NoCall /\ call'[j] = call[j]
      BY <1>1, <1>3, <2>2
    <3>2. call[j].visit \in Visit /\ MadeFor[call[j].visit] = j
      BY <3>1 DEF HInv, HookTypeOK, Call
    <3>3. Untouched(call[j].visit)
      BY <2>2, <3>2
    <3>4. CallFits(call[j])
      BY <3>1 DEF HInv, CallsFit
    <3>5. PICK d : d = call[j]
      OBVIOUS
    <3>6. CallFits(d)'
      BY <3>3, <3>4, <3>5, CallStillFits
    <3> QED BY <3>1, <3>5, <3>6 DEF CallFits, Holding, Seen
  <2> QED BY <2>1, <2>2
<1> QED BY <1>2, <1>3, KeptStep

\* The call is over.
LEMMA CallEnds ==
    ASSUME HInv, IInv', NEW i \in Invitation, call' = [call EXCEPT ![i] = NoCall],
           \A v \in Visit : Untouched(v) \/ (BookedAsSeen(v) /\ MadeFor[v] = i)
    PROVE  Kept
<1>1. NoCall \in Call \cup {NoCall} /\ ~(NoCall # NoCall)
  OBVIOUS
<1> HIDE DEF NoCall
<1> QED BY <1>1, CallStep

LEMMA CallChanges ==
    ASSUME HInv, IInv', NEW i \in Invitation, NEW c \in Call,
           call' = [call EXCEPT ![i] = c], MadeFor[c.visit] = i,
           \A v \in Visit : Untouched(v) \/ (BookedAsSeen(v) /\ MadeFor[v] = i),
           CallFits(c)'
    PROVE  Kept
<1>1. c \in Call \cup {NoCall}
  OBVIOUS
<1> QED BY <1>1, CallStep

LEMMA UnchangedIsUntouched ==
    ASSUME UNCHANGED <<status, terms, approval>>
    PROVE  \A v \in Visit : Untouched(v)
BY DEF Untouched, Active

\* Another call is made, and the bookings stay as they are.
LEMMA CallPasses ==
    ASSUME HInv, IInv', UNCHANGED vars, NEW i \in Invitation, NEW c \in Call,
           call' = [call EXCEPT ![i] = c], MadeFor[c.visit] = i, CallFits(c)
    PROVE  Kept
<1>1. \A v \in Visit : Untouched(v)
  BY UnchangedIsUntouched DEF vars
<1>2. CallFits(c)'
  BY <1>1, CallStillFits DEF Call
<1> QED BY <1>1, <1>2, CallChanges

LEMMA CallDrops ==
    ASSUME HInv, IInv', UNCHANGED vars, NEW i \in Invitation, call' = [call EXCEPT ![i] = NoCall]
    PROVE  Kept
<1>1. \A v \in Visit : Untouched(v)
  BY UnchangedIsUntouched DEF vars
<1> QED BY <1>1, CallEnds

LEMMA CallToolStep ==
    ASSUME HInv, IInv', NEW i \in Invitation, NEW tool \in Tool, NEW v \in Visit,
           NEW wish \in Wishes[i] \cup {terms[v]}, CallTool(i, tool, v, wish)
    PROVE  Kept
<1>1. /\ UNCHANGED vars /\ MadeFor[v] = i /\ Callable(i, tool, v, wish)
  BY DEF CallTool, Callable
<1>2. Active(v) => terms[v] \in Draft /\ terms[v].overflow = FALSE
  BY DEF HInv, IInv, TypeOK, Active, RowsKeepNoConsent
<1>3. /\ wish \in Draft
      /\ tool # "create_temporary_hold" => Active(v)
      /\ tool = "confirm_visit" => wish = terms[v]
  BY <1>1, <1>2, PolicyHookAssumption DEF Callable, Tool
<1>4. PICK draft \in DraftsForTool(tool, v, wish) :
         call' = [call EXCEPT ![i] =
             [tool |-> tool, visit |-> v, draft |-> draft, named |-> wish.rooms # {},
              phase |-> IF Asks(tool, v, draft) THEN "asked" ELSE "cleared",
              shown |-> IF Asks(tool, v, draft) THEN draft ELSE NoDraft,
              review |-> {}]]
  BY DEF CallTool
<1>5. PICK asks \in BOOLEAN : asks <=> Asks(tool, v, draft)
  OBVIOUS
<1>6. PICK named \in BOOLEAN : named <=> wish.rooms # {}
  OBVIOUS
<1>7. PICK phase, shown : /\ phase = IF asks THEN "asked" ELSE "cleared"
                          /\ shown = IF asks THEN draft ELSE NoDraft
  OBVIOUS
<1>8. PICK c : c = [tool |-> tool, visit |-> v, draft |-> draft, named |-> named,
                    phase |-> phase, shown |-> shown, review |-> {}]
  OBVIOUS
<1>9. call' = [call EXCEPT ![i] = c]
  BY <1>4, <1>5, <1>6, <1>7, <1>8, Zenon
<1>10. /\ draft \in Draft
       /\ tool = "create_temporary_hold" /\ named => draft.rooms # {}
       /\ tool # "create_temporary_hold" /\ asks
          => /\ draft.overflow = FALSE /\ draft.rooms = terms[v].rooms
             /\ tool = "confirm_visit" => draft = terms[v]
  <2>1. CASE tool = "create_temporary_hold"
    BY <1>3, <1>4, <1>6, <2>1, HoldDrafts
  <2>2. CASE tool # "create_temporary_hold"
    <3>1. /\ draft \in Draft /\ draft.stay = wish.stay /\ draft.party = wish.party
          /\ draft.rooms = terms[v].rooms
          /\ asks => draft.overflow = FALSE
      BY <1>2, <1>3, <1>4, <1>5, <2>2, VisitDrafts
    <3> QED BY <1>2, <1>3, <2>2, <3>1, DraftsAreEqual
  <2> QED BY <2>1, <2>2
<1>11. c \in Call /\ MadeFor[c.visit] = i
  BY <1>1, <1>5, <1>7, <1>8, <1>10 DEF Call, Phase
<1>12. Seen(c, c.draft) \/ phase = "cleared"
  <2>1. draft = [draft EXCEPT !.rooms = draft.rooms]
    BY <1>10 DEF Draft
  <2> QED BY <1>5, <1>7, <1>8, <2>1 DEF Seen
<1>13. ~asks => /\ tool = "create_temporary_hold" => draft.party \notin Asking
                /\ tool # "create_temporary_hold" /\ draft.party \in Asking
                   => approval[v] = draft
  BY <1>5 DEF Asks, NeedsAHost, ApprovalCovers
<1>14. /\ c.tool = tool /\ c.visit = v /\ c.draft = draft /\ c.named = named
       /\ c.phase = phase /\ (c.phase = "cleared" <=> ~asks)
  BY <1>5, <1>7, <1>8
<1>15. CallFits(c)
  BY <1>10, <1>12, <1>13, <1>14 DEF CallFits, Holding
<1> QED BY <1>1, <1>9, <1>11, <1>15, CallPasses

LEMMA AnswerStep ==
    ASSUME HInv, IInv', NEW i \in Invitation, NEW approved \in BOOLEAN, AnswerHost(i, approved)
    PROVE  Kept
<1>1. /\ call[i] \in Call /\ call[i] # NoCall /\ MadeFor[call[i].visit] = i
      /\ call[i].phase = "asked" /\ UNCHANGED vars
  BY CallFacts DEF HInv, AnswerHost, Phase
<1>2. CASE approved
  <2>1. PICK c : c = [call[i] EXCEPT !.phase = "approved"]
    OBVIOUS
  <2>2. /\ c \in Call /\ c.phase = "approved" /\ c.tool = call[i].tool
        /\ c.visit = call[i].visit /\ c.draft = call[i].draft
        /\ c.named = call[i].named /\ c.shown = call[i].shown
    BY <1>1, <2>1, PhaseFacts DEF Phase
  <2>3. call' = [call EXCEPT ![i] = c]
    BY <1>2, <2>1 DEF AnswerHost
  <2>4. CallFits(c)
    BY <1>1, <2>2, PhaseFits DEF HInv, CallsFit
  <2> QED BY <1>1, <2>2, <2>3, <2>4, CallPasses
<1>3. CASE ~approved
  <2>1. call' = [call EXCEPT ![i] = NoCall]
    BY <1>3 DEF AnswerHost
  <2> QED BY <1>1, <2>1, CallDrops
<1> QED BY <1>2, <1>3

\* Behind the answer the hook finds what the host was shown.
LEMMA ResumedIsSeen ==
    ASSUME HInv, NEW c \in Call, CallFits(c), c.phase = "approved",
           Holding(c) \/ Active(c.visit),
           NEW draft \in DraftsForTool(c.tool, c.visit, Wish(c))
    PROVE  /\ draft \in Draft
           /\ Holding(c) /\ c.named => draft.rooms # {}
           /\ Asks(c.tool, c.visit, draft) =>
                 /\ Seen(c, draft)
                 /\ ~Holding(c) => draft = c.draft
<1>1. /\ c.tool \in Tool /\ c.visit \in Visit /\ c.draft \in Draft
  BY DEF Call
<1>2. Seen(c, c.draft)
  BY DEF CallFits
<1>3. PICK w : w = Wish(c)
  OBVIOUS
<1>4. /\ w \in Draft /\ w.stay = c.draft.stay /\ w.party = c.draft.party
      /\ w.overflow = c.draft.overflow
      /\ c.named => w = c.draft
  <2>1. {} \in SUBSET Room
    OBVIOUS
  <2> QED BY <1>1, <1>3, <2>1, WishedRooms DEF Wish
<1>5. CASE Holding(c)
  <2>0. draft \in DraftsForTool("create_temporary_hold", c.visit, w)
    BY <1>3, <1>5 DEF Holding
  <2>1. /\ draft \in Draft /\ draft.stay = w.stay /\ draft.party = w.party
        /\ draft.overflow = w.overflow
        /\ w.rooms # {} => draft = w
    BY <1>1, <1>4, <2>0, HoldDrafts
  <2>2. CASE c.named
    <3>1. c.draft.rooms # {}
      BY <1>5, <2>2 DEF CallFits
    <3>2. draft = c.draft
      BY <1>4, <2>1, <2>2, <3>1
    <3>3. Seen(c, draft)
      BY <1>2, <3>2
    <3> QED BY <1>5, <2>1, <3>1, <3>2, <3>3
  <2>3. CASE ~c.named
    <3>1. [draft EXCEPT !.rooms = c.shown.rooms] = [c.draft EXCEPT !.rooms = c.shown.rooms]
      BY <1>1, <1>4, <2>1, RoomsAside
    <3>2. Seen(c, draft)
      BY <1>2, <2>3, <3>1 DEF Seen
    <3> QED BY <1>5, <2>1, <2>3, <3>2
  <2> QED BY <2>2, <2>3
<1>6. CASE ~Holding(c)
  <2>1. Active(c.visit) /\ terms[c.visit] \in Draft /\ terms[c.visit].overflow = FALSE
    BY <1>1, <1>6 DEF HInv, IInv, TypeOK, Active, RowsKeepNoConsent
  <2>2. c.draft.overflow = FALSE /\ c.draft.rooms = terms[c.visit].rooms
    BY <1>6, <2>1 DEF CallFits
  <2>3. /\ draft \in Draft /\ draft.stay = c.draft.stay /\ draft.party = c.draft.party
        /\ draft.rooms = c.draft.rooms
        /\ Asks(c.tool, c.visit, draft) => draft.overflow = FALSE
    BY <1>1, <1>3, <1>4, <1>6, <2>1, <2>2, VisitDrafts DEF Holding
  <2>4. Asks(c.tool, c.visit, draft) => draft = c.draft
    BY <1>1, <2>2, <2>3, DraftsAreEqual
  <2> QED BY <1>2, <1>6, <2>3, <2>4
<1> QED BY <1>5, <1>6

LEMMA ResumeStep ==
    ASSUME HInv, IInv', NEW i \in Invitation, Resume(i)
    PROVE  Kept
<1>1. PICK c : c = call[i]
  OBVIOUS
<1>2. /\ c \in Call /\ c # NoCall /\ MadeFor[c.visit] = i /\ c.phase = "approved"
      /\ c.visit \in Visit /\ UNCHANGED vars
  BY <1>1, CallFacts DEF HInv, Resume, Phase
<1>3. CallFits(c)
  BY <1>1, <1>2 DEF HInv, CallsFit
<1>4. CASE call' = [call EXCEPT ![i] = NoCall]
  BY <1>2, <1>4, CallDrops
<1>5. CASE call' # [call EXCEPT ![i] = NoCall]
  <2>1. PICK draft \in DraftsForTool(c.tool, c.visit, Wish(c)) :
           /\ Holding(c) \/ Active(c.visit)
           /\ call' = [call EXCEPT ![i] =
                IF Asks(c.tool, c.visit, draft)
                THEN [c EXCEPT !.draft = draft, !.phase = "answered", !.review = Review(draft)]
                ELSE [c EXCEPT !.draft = draft, !.phase = "cleared", !.shown = NoDraft]]
    BY <1>1, <1>5 DEF Resume, Holding
  <2>2. /\ draft \in Draft
        /\ Holding(c) /\ c.named => draft.rooms # {}
        /\ Asks(c.tool, c.visit, draft) =>
              /\ Seen(c, draft)
              /\ ~Holding(c) => draft = c.draft
    BY <1>2, <1>3, <2>1, ResumedIsSeen
  <2>3. PICK review \in Reviews : review = Review(draft)
    BY <2>2, ReviewType DEF HInv, IInv
  <2>4. CASE Asks(c.tool, c.visit, draft)
    <3>1. PICK d : d = Answered(c, draft, review)
      OBVIOUS
    <3>2. /\ d \in Call /\ d.phase = "answered" /\ d.draft = draft
          /\ d.tool = c.tool /\ d.visit = c.visit /\ d.named = c.named /\ d.shown = c.shown
      BY <1>2, <2>2, <2>3, <3>1, AnsweredFacts
    <3>3. call' = [call EXCEPT ![i] = d]
      BY <2>1, <2>3, <2>4, <3>1 DEF Answered
    <3>4. CallFits(d)
      BY <1>2, <1>3, <2>2, <2>4, <3>2 DEF CallFits, Holding, Seen
    <3>5. MadeFor[d.visit] = i
      BY <1>2, <3>2
    <3> QED BY <1>2, <3>2, <3>3, <3>4, <3>5, CallPasses
  <2>5. CASE ~Asks(c.tool, c.visit, draft)
    <3>1. PICK d : d = [c EXCEPT !.draft = draft, !.phase = "cleared", !.shown = NoDraft]
      OBVIOUS
    <3>2. /\ d \in Call /\ d.phase = "cleared" /\ d.draft = draft
          /\ d.tool = c.tool /\ d.visit = c.visit /\ d.named = c.named
      BY <1>2, <2>2, <3>1, ClearedFacts, Zenon
    <3>3. call' = [call EXCEPT ![i] = d]
      BY <2>1, <2>5, <3>1
    <3>4. draft.party \in Asking => ApprovalCovers(c.tool, c.visit, draft)
      BY <2>5 DEF Asks, NeedsAHost
    <3>5. CallFits(d)
      BY <2>2, <3>2, <3>4 DEF CallFits, Holding, ApprovalCovers
    <3>6. MadeFor[d.visit] = i
      BY <1>2, <3>2
    <3> QED BY <1>2, <3>2, <3>3, <3>5, <3>6, CallPasses
  <2> QED BY <2>4, <2>5
<1> QED BY <1>4, <1>5

LEMMA RefreshStep ==
    ASSUME HInv, IInv', NEW i \in Invitation, Refresh(i)
    PROVE  Kept
<1>1. /\ call[i] \in Call /\ call[i] # NoCall /\ MadeFor[call[i].visit] = i
      /\ call[i].phase = "answered" /\ UNCHANGED vars
  BY CallFacts DEF HInv, Refresh, Phase
<1>2. PICK c : c = [call[i] EXCEPT !.phase = "granted", !.review = {}]
  OBVIOUS
<1>3. /\ c \in Call /\ c.phase = "granted" /\ c.tool = call[i].tool
      /\ c.visit = call[i].visit /\ c.draft = call[i].draft
      /\ c.named = call[i].named /\ c.shown = call[i].shown
  BY <1>1, <1>2, PhaseFacts DEF Phase
<1>4. CallFits(c)
  BY <1>1, <1>3, PhaseFits DEF HInv, CallsFit
<1>5. call' = [call EXCEPT ![i] = NoCall] \/ call' = [call EXCEPT ![i] = c]
  BY <1>2 DEF Refresh
<1> QED BY <1>1, <1>3, <1>4, <1>5, CallPasses, CallDrops

-----------------------------------------------------------------------------
(***************************************************************************)
(* Steps that leave the calls alone                                        *)
(***************************************************************************)

LEMMA QuietStep ==
    ASSUME HInv, IInv', UNCHANGED call, \A v \in Visit : Untouched(v)
    PROVE  Kept
<1>1. HookTypeOK'
  BY DEF HInv, HookTypeOK
<1>2. ASSUME NEW i \in Invitation, call'[i] # NoCall PROVE CallFits(call[i])'
  <2>1. call[i] # NoCall /\ call'[i] = call[i] /\ call[i].visit \in Visit
    BY <1>2 DEF HInv, HookTypeOK, Call
  <2>2. CallFits(call[i])
    BY <2>1 DEF HInv, CallsFit
  <2>3. PICK c : c = call[i]
    OBVIOUS
  <2>4. CallFits(c)'
    BY <2>1, <2>2, <2>3, CallStillFits
  <2> QED BY <2>1, <2>3, <2>4 DEF CallFits, Holding, Seen
<1> QED BY <1>1, <1>2, KeptStep

LEMMA CancelledIsUntouched ==
    ASSUME TypeOK, NEW S \in SUBSET Visit, Cancelling(S)
    PROVE  \A v \in Visit : Untouched(v)
BY DEF TypeOK, Cancelling, Untouched, Active

LEMMA WithdrawStep ==
    ASSUME HInv, IInv', NEW i \in Invitation, Withdraw(i)
    PROVE  Kept
<1>1. \A v \in Visit : Untouched(v)
  BY CancelledIsUntouched DEF Withdraw, WithdrawInvitation, HInv, IInv
<1>2. CASE call[i].phase = "asked"
  <2>1. call' = [call EXCEPT ![i] = NoCall]
    BY <1>2 DEF Withdraw
  <2> QED BY <1>1, <2>1, CallEnds
<1>3. CASE call[i].phase # "asked"
  <2>1. call' = call
    BY <1>3 DEF Withdraw, HInv, HookTypeOK
  <2> QED BY <1>1, <2>1, QuietStep
<1> QED BY <1>2, <1>3

LEMMA OtherStepKeeps ==
    ASSUME HInv, IInv', OtherStep \/ UNCHANGED hookVars \/ \E i \in Invitation : LookUp(i)
    PROVE  Kept
<1>1. UNCHANGED call
  BY DEF OtherStep, hookVars, LookUp
<1>2. CASE (\E v \in Visit : CancelVisit(v)) \/ ExpireHolds
  <2>1. PICK S \in SUBSET Visit : Cancelling(S)
    BY <1>2 DEF CancelVisit, ExpireHolds, Lapsing
  <2> QED BY <1>1, <2>1, CancelledIsUntouched, QuietStep DEF HInv, IInv
<1>3. CASE UNCHANGED <<status, terms, approval>>
  BY <1>1, <1>3, UnchangedIsUntouched, QuietStep
<1>4. CASE HostStep
  BY <1>3, <1>4 DEF HostStep, CancelBlock, BlockRooms, CreateOverride, RemoveOverride,
     UpdateInventory, UpdatePolicy, visitVars
<1>5. CASE (\E v \in Visit : HoldLapses(v)) \/ UNCHANGED hookVars
           \/ \E i \in Invitation : LookUp(i)
  BY <1>3, <1>5 DEF HoldLapses, hookVars, LookUp, LookUpInvitation, visitVars
<1> QED BY <1>2, <1>4, <1>5 DEF OtherStep

-----------------------------------------------------------------------------
(***************************************************************************)
(* The tools                                                               *)
(***************************************************************************)

\* The call of a tool about to run.
LEMMA RunFacts ==
    ASSUME HInv, NEW i \in Invitation, call[i].phase \in Phase
    PROVE  /\ call[i] \in Call /\ call[i] # NoCall /\ MadeFor[call[i].visit] = i
           /\ call[i].tool \in Tool /\ call[i].visit \in Visit /\ call[i].draft \in Draft
           /\ CallFits(call[i])
BY CallFacts DEF HInv, CallsFit

\* What the session saved, or lost, of a call that it carried on with; the approved one
\* still fits.
LEMMA SavedStep ==
    ASSUME HInv, IInv', NEW i \in Invitation,
           call[i].phase \in {"answered", "cleared", "granted"}, Saved(i),
           \A v \in Visit : Untouched(v) \/ (BookedAsSeen(v) /\ MadeFor[v] = i),
           \A c \in Call : /\ call[i].phase # "cleared" /\ c.phase = "approved"
                           /\ c.tool = call[i].tool /\ c.visit = call[i].visit
                           /\ c.draft = call[i].draft /\ CallFits(c)
                           => CallFits(c)'
    PROVE  Kept
<1>1. /\ call[i] \in Call /\ call[i] # NoCall /\ MadeFor[call[i].visit] = i
      /\ CallFits(call[i])
  BY RunFacts DEF Phase
<1>2. CASE call' = [call EXCEPT ![i] = NoCall]
  BY <1>2, CallEnds
<1>3. CASE call' = [call EXCEPT ![i] = Unsaved(i)] /\ call[i].phase # "cleared"
  <2>1. PICK c : c = [call[i] EXCEPT !.phase = "approved", !.review = {}]
    OBVIOUS
  <2>2. /\ c \in Call /\ c.phase = "approved" /\ c.tool = call[i].tool
        /\ c.visit = call[i].visit /\ c.draft = call[i].draft
        /\ c.named = call[i].named /\ c.shown = call[i].shown
    BY <1>1, <2>1, PhaseFacts DEF Phase
  <2>3. call' = [call EXCEPT ![i] = c]
    BY <1>3, <2>1 DEF Unsaved
  <2>4. CallFits(c)
    BY <1>1, <1>3, <2>2, PhaseFits
  <2>5. CallFits(c)' /\ MadeFor[c.visit] = i
    BY <1>1, <1>3, <2>2, <2>4
  <2> QED BY <2>2, <2>3, <2>5, CallChanges
<1>4. CASE call' = [call EXCEPT ![i] = Unsaved(i)] /\ call[i].phase = "cleared"
  BY <1>4, CallEnds DEF Unsaved
<1> QED BY <1>2, <1>3, <1>4 DEF Saved

LEMMA FailStep ==
    ASSUME HInv, IInv', NEW i \in Invitation, Fail(i)
    PROVE  Kept
<1>1. \A v \in Visit : Untouched(v)
  BY UnchangedIsUntouched DEF Fail, visitVars
<1>2. call[i].phase \in {"answered", "cleared", "granted"} /\ Saved(i)
  BY DEF Fail
<1>3. ASSUME NEW c \in Call, CallFits(c) PROVE CallFits(c)'
  BY <1>1, <1>3, CallStillFits DEF Call
<1> QED BY <1>1, <1>2, <1>3, SavedStep

\* A booking touches one visit and the lapsed ones.
LEMMA OthersAreUntouched ==
    ASSUME TypeOK, NEW v \in Visit, NEW state \in {"hold", "confirmed"},
           NEW draft \in Draft, NEW hash \in Draft \cup {NoDraft},
           Booking(v, state, draft, hash), v \notin Lapsing,
           waiting' \in SUBSET Invitation, UNCHANGED <<withdrawn, hostVars>>
    PROVE  /\ Active(v)' /\ terms'[v] = Row(draft) /\ approval'[v] = hash
           /\ \A u \in Visit \ {v} : Untouched(u)
BY BookingFacts DEF Untouched, Row

LEMMA HoldStep ==
    ASSUME HInv, IInv', NEW i \in Invitation, Hold(i)
    PROVE  Kept
<1>a. PICK v, draft : v = call[i].visit /\ draft = call[i].draft
  OBVIOUS
<1> DEFINE hash == IF Granted(i) THEN draft ELSE NoDraft
<1>1. /\ call[i].phase \in {"cleared", "granted"} /\ Holding(call[i])
      /\ Saved(i) /\ status[v] = "none" /\ Booking(v, "hold", draft, hash)
      /\ waiting' = waiting \ {MadeFor[v]} /\ UNCHANGED <<withdrawn, hostVars>>
  BY <1>a DEF Hold, Runs, CreateTemporaryHold, Holding
<1>2. /\ v \in Visit /\ draft \in Draft /\ MadeFor[v] = i /\ CallFits(call[i])
      /\ draft # NoDraft
  BY <1>1, <1>a, RunFacts, BookingAssumption DEF Phase
<1>3. /\ hash \in Draft \cup {NoDraft} /\ v \notin Lapsing /\ waiting' \in SUBSET Invitation
  BY <1>1, <1>2 DEF Lapsing, HInv, IInv, TypeOK
<1>4. /\ Active(v)' /\ terms'[v] = Row(draft) /\ approval'[v] = hash
      /\ \A u \in Visit \ {v} : Untouched(u)
  <2> HIDE DEF hash
  <2> QED BY <1>1, <1>2, <1>3, OthersAreUntouched DEF HInv, IInv
<1>5. BookedAsSeen(v)
  <2>1. Row(draft).overflow = FALSE /\ Row(draft).party = draft.party
    BY <1>2, RowFacts
  <2>2. Granted(i) => Seen(call[i], draft)
    BY <1>2, <1>a DEF Granted, CallFits
  <2>3. ~Granted(i) => draft.party \notin Asking
    BY <1>1, <1>2, <1>a DEF Granted, CallFits
  <2> QED BY <1>2, <1>4, <2>1, <2>2, <2>3 DEF BookedAsSeen
<1>6. ASSUME NEW c \in Call, c.tool = call[i].tool, c.phase = "approved", CallFits(c)
      PROVE  CallFits(c)'
  BY <1>1, <1>6 DEF CallFits, Holding, Seen
<1>7. \A u \in Visit : Untouched(u) \/ (BookedAsSeen(u) /\ MadeFor[u] = i)
  BY <1>2, <1>4, <1>5
<1> QED BY <1>1, <1>6, <1>7, SavedStep

\* A confirmation leaves the terms; the approval it records is the one just given.
LEMMA ConfirmKeeps ==
    ASSUME HInv, IInv', NEW i \in Invitation, Confirm(i)
    PROVE  Kept
<1>a. PICK v, draft : v = call[i].visit /\ draft = call[i].draft
  OBVIOUS
<1> DEFINE consented == approval[v] = Held(v, TRUE)
           hash == IF Granted(i) THEN Held(v, consented) ELSE approval[v]
<1>1. /\ call[i].phase \in {"cleared", "granted"} /\ call[i].tool = "confirm_visit"
      /\ Saved(i)
      /\ status[v] = "hold" /\ v \notin lapsed /\ Booking(v, "confirmed", terms[v], hash)
      /\ UNCHANGED <<waiting, withdrawn, hostVars>>
  BY <1>a DEF Confirm, Runs, ConfirmVisit
<1>2. /\ v \in Visit /\ draft \in Draft /\ MadeFor[v] = i /\ CallFits(call[i])
  BY <1>1, <1>a, RunFacts DEF Phase
<1>3. /\ Active(v) /\ terms[v] \in Draft /\ terms[v].overflow = FALSE
      /\ approval[v] \in Draft \cup {NoDraft}
      /\ v \notin Lapsing /\ waiting' \in SUBSET Invitation
      /\ terms[v].party \in Asking => approval[v] # NoDraft
  BY <1>1, <1>2
     DEF Active, Lapsing, HInv, IInv, TypeOK, RowsKeepNoConsent, RequestsAreApproved
<1>4. /\ Held(v, FALSE) = terms[v] /\ Held(v, TRUE) \in Draft
  BY <1>3, DraftFacts DEF Held
<1>5. /\ consented \in BOOLEAN /\ hash \in Draft \cup {NoDraft}
      /\ consented => Held(v, consented) = Held(v, TRUE)
      /\ ~consented => Held(v, consented) = terms[v]
  BY <1>3, <1>4 DEF Held
<1>6. /\ Active(v)' /\ terms'[v] = terms[v] /\ approval'[v] = hash
      /\ \A u \in Visit \ {v} : Untouched(u)
  <2> HIDE DEF hash, consented
  <2>1. /\ Active(v)' /\ terms'[v] = Row(terms[v]) /\ approval'[v] = hash
        /\ \A u \in Visit \ {v} : Untouched(u)
    BY <1>1, <1>2, <1>3, <1>5, OthersAreUntouched DEF HInv, IInv
  <2> QED BY <1>3, <2>1, RowFacts
<1>7. hash = approval[v] \/ (Granted(i) /\ hash = terms[v] /\ hash # NoDraft)
  BY <1>3, <1>5, BookingAssumption
<1>8. Granted(i) => Seen(call[i], terms[v])
  BY <1>1, <1>2, <1>3, <1>a DEF Granted, CallFits, Holding
<1> HIDE DEF hash, consented
<1>9. BookedAsSeen(v)
  BY <1>2, <1>3, <1>6, <1>7, <1>8 DEF BookedAsSeen
<1>10. ASSUME NEW c \in Call, c.tool = call[i].tool, c.visit = call[i].visit,
              c.phase = "approved", CallFits(c)
       PROVE  CallFits(c)'
  BY <1>1, <1>3, <1>6, <1>10, <1>a DEF CallFits, Holding, Seen
<1>11. \A u \in Visit : Untouched(u) \/ (BookedAsSeen(u) /\ MadeFor[u] = i)
  BY <1>2, <1>6, <1>9
<1> QED BY <1>1, <1>10, <1>11, SavedStep

LEMMA RescheduleKeeps ==
    ASSUME HInv, IInv', NEW i \in Invitation, Reschedule(i)
    PROVE  Kept
<1>a. PICK v, draft : v = call[i].visit /\ draft = call[i].draft
  OBVIOUS
<1> DEFINE hash == ApprovalAfter(v, draft, Granted(i))
<1>1. /\ call[i].phase \in {"cleared", "granted"} /\ call[i].tool = "reschedule_visit"
      /\ Saved(i) /\ Active(v) /\ v \notin Lapsing
      /\ Booking(v, "confirmed", draft, hash)
      /\ UNCHANGED <<waiting, withdrawn, hostVars>>
  BY <1>a DEF Reschedule, Runs, RescheduleVisit
<1>2. /\ v \in Visit /\ draft \in Draft /\ MadeFor[v] = i /\ CallFits(call[i])
      /\ draft # NoDraft
  BY <1>1, <1>a, RunFacts, BookingAssumption DEF Phase
<1>3. /\ hash \in Draft \cup {NoDraft} /\ waiting' \in SUBSET Invitation
      /\ hash = draft \/ (hash = NoDraft /\ ~Granted(i) /\ approval[v] # draft)
      /\ hash = draft /\ ~Granted(i) => approval[v] = draft
  BY <1>1, <1>2 DEF ApprovalAfter, HInv, IInv, TypeOK
<1> HIDE DEF hash
<1>4. /\ Active(v)' /\ terms'[v] = Row(draft) /\ approval'[v] = hash
      /\ \A u \in Visit \ {v} : Untouched(u)
  BY <1>1, <1>2, <1>3, OthersAreUntouched DEF HInv, IInv
<1>5. /\ Row(draft).overflow = FALSE /\ Row(draft).party = draft.party
      /\ Row(draft).rooms = draft.rooms
  BY <1>2, RowFacts
<1>6. BookedAsSeen(v)
  <2>1. Granted(i) => Seen(call[i], draft)
    BY <1>2, <1>a DEF Granted, CallFits
  <2>2. ~Granted(i) /\ draft.party \in Asking => approval[v] = draft
    BY <1>1, <1>2, <1>a DEF Granted, CallFits, Holding
  <2> QED BY <1>2, <1>3, <1>4, <1>5, <2>1, <2>2 DEF BookedAsSeen
<1>7. ASSUME NEW c \in Call, c.tool = call[i].tool, c.visit = call[i].visit,
             c.draft = call[i].draft, c.phase = "approved", CallFits(c)
      PROVE  CallFits(c)'
  BY <1>1, <1>4, <1>5, <1>7, <1>a DEF CallFits, Holding, Seen
<1>8. \A u \in Visit : Untouched(u) \/ (BookedAsSeen(u) /\ MadeFor[u] = i)
  BY <1>2, <1>4, <1>6
<1> QED BY <1>1, <1>7, <1>8, SavedStep

-----------------------------------------------------------------------------
(***************************************************************************)
(* Theorems                                                                *)
(***************************************************************************)

LEMMA InitHInv == HookInit => HInv
BY InitIInv
   DEF HookInit, Init, HInv, HookTypeOK, RowsKeepNoConsent, RequestsAreApproved, CallsFit, Active

LEMMA NextHInv == HInv /\ [HookNext]_hookVars => Kept
<1> SUFFICES ASSUME HInv, [HookNext]_hookVars PROVE Kept
  OBVIOUS
<1>1. IInv'
  BY HookStepIsAStep, NextIInv DEF HInv
<1>2. CASE AgentStep
  BY <1>1, <1>2, CallToolStep, AnswerStep, ResumeStep, RefreshStep, HoldStep, ConfirmKeeps,
     RescheduleKeeps, FailStep, WithdrawStep, OtherStepKeeps DEF AgentStep
<1>3. CASE OtherStep \/ UNCHANGED hookVars
  BY <1>1, <1>3, OtherStepKeeps
<1> QED BY <1>2, <1>3 DEF HookNext

LEMMA HookInvariance == HookSpec => []HInv
<1>1. HInv /\ [HookNext]_hookVars => HInv'
  BY NextHInv DEF Kept
<1> QED BY <1>1, InitHInv, PTL DEF HookSpec

\* The hook and the gated tools do nothing to the house but book it
\* (policy-hook.ts:39-139, tools.ts).
THEOREM HookImplementsBooking == HookSpec => Spec
<1>1. HookInit => Init
  BY DEF HookInit
<1>2. HInv /\ [HookNext]_hookVars => [Next]_vars
  BY HookStepIsAStep DEF HInv
<1> QED BY <1>1, <1>2, HookInvariance, PTL DEF HookSpec, Spec

\* Behind the hook too: rooms are exclusive, invitations have one visit, and whatever is
\* booked beyond the standard capacity of the moment was approved (holds.ts:145-360).
THEOREM HookKeepsBookings ==
    HookSpec => /\ [](RoomNightsExclusive /\ OneVisitPerInvitation /\ WithdrawnHoldsNothing
                      /\ ApprovalIsForTheseTerms)
                /\ OverflowIsApproved
<1>1. HInv => RoomNightsExclusive /\ OneVisitPerInvitation /\ WithdrawnHoldsNothing
              /\ ApprovalIsForTheseTerms
  BY DEF HInv, IInv
<1> QED BY <1>1, HookInvariance, HookImplementsBooking, OverflowNeedsApproval, PTL

\* A call let through late, or made again after a lost run, gives its guest rooms nobody
\* else has, or does nothing (policy-hook.ts:39-139, holds.ts:145-360).
THEOREM HookImplementsLedger == HookSpec => ImplementsLedger
BY HookImplementsBooking, BookingImplementsLedger, PTL

\* No approval is recorded but for what its host was shown, and no special request is
\* booked without one, however the hook's unlocked looks, the answer, the tool, a lost run
\* and hosts who change the rooms interleave (policy-hook.ts:39-139,
\* evaluate-overlap.ts:84-133).
THEOREM HostsSawEveryApproval == HookSpec => HostsHaveSeenIt
<1>1. HInv /\ [HookNext]_hookVars
      => [\A v \in Visit :
            /\ approval'[v] \notin {approval[v], NoDraft}
               => Granted(MadeFor[v]) /\ Seen(call[MadeFor[v]], approval'[v])
            /\ Booked(v) /\ terms'[v].party \in Asking => approval'[v] # NoDraft]_hookVars
  BY NextHInv DEF Kept, HostsSaw
<1> QED BY <1>1, HookInvariance, PTL DEF HookSpec, HostsHaveSeenIt
=============================================================================
