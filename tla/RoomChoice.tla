----------------------------- MODULE RoomChoice -----------------------------
(***************************************************************************)
(* Which rooms a party is offered, and what becomes of the choice: the     *)
(* recommendation of the guest's search (core/rooms/recommendation.ts),    *)
(* the allocation the household policy computes on its own                 *)
(* (core/policy/allocate-rooms.ts), the check of a selection               *)
(* (core/rooms/occupancy.ts) and the policy hook's verdict on the          *)
(* submission (agent/policy-hook.ts).                                      *)
(*                                                                         *)
(* Rooms are numbered in display order, so a set of rooms stands for the   *)
(* list the code keeps.  They are the rooms free for the stay: which those *)
(* are is Booking's Offered and Free.                                      *)
(***************************************************************************)
EXTENDS Naturals, Sequences, FiniteSets, FiniteSetsExt, Functions

CONSTANTS
    Feature,    \* what a remembered preference can ask of a room
    MaxRooms,   \* bound on the rooms free for the stay
    MaxPlaces,  \* bound on a room's standard capacity
    MaxParty    \* bound on adults + children

ASSUME RoomChoiceAssumption ==
    /\ IsFiniteSet(Feature)
    /\ MaxRooms \in Nat /\ MaxPlaces \in Nat \ {0} /\ MaxParty \in Nat \ {0}

VARIABLES
    house,      \* the rooms free for the stay, in display order
    people,     \* the party's size
    offer,      \* what the search recommended
    outcome     \* what the policy hook said to the submission

choiceVars == <<house, people, offer, outcome>>

\* One sleeping place beyond the standard ones stands for any number of them; such
\* a room has an arrangement and the overflow policy host_approval.
RoomFacts ==
    {f \in [standard : 1..MaxPlaces, maximum : 1..MaxPlaces + 1, features : SUBSET Feature] :
        f.maximum \in {f.standard, f.standard + 1}}

Houses == UNION {[1..n -> RoomFacts] : n \in 0..MaxRooms}

NoOffer == [rooms |-> {}, overflow |-> FALSE]
NoOutcome == [verdict |-> "open"]

ChoiceInit ==
    /\ house \in Houses
    /\ people \in 1..MaxParty
    /\ offer = NoOffer
    /\ outcome = NoOutcome

-----------------------------------------------------------------------------
(***************************************************************************)
(* The recommendation                                                      *)
(***************************************************************************)

StandardPlaces == [r \in DOMAIN house |-> house[r].standard]
MaximumPlaces == [r \in DOMAIN house |-> house[r].maximum]

Sleeping(places, rooms) == SumFunctionOnSet(places, rooms)

Features(rooms) == UNION {house[r].features : r \in rooms}

\* The first difference of two equally long lists in display order.
ComesFirst(a, b) == a # b /\ Min((a \ b) \cup (b \ a)) \in a

Better(places, a, b) ==
    LET fa == Cardinality(Features(a))
        fb == Cardinality(Features(b))
    IN  \/ Cardinality(a) < Cardinality(b)
        \/ /\ Cardinality(a) = Cardinality(b)
           /\ \/ fa > fb
              \/ fa = fb /\ Sleeping(places, a) < Sleeping(places, b)
              \/ fa = fb /\ Sleeping(places, a) = Sleeping(places, b) /\ ComesFirst(a, b)

TheBest(places, S) ==
    IF S = {} THEN {} ELSE CHOOSE a \in S : \A b \in S \ {a} : Better(places, a, b)

\* Mutant: partial choices are told apart by their capacity only.
SameCapacity(places, a, b) == Sleeping(places, a) = Sleeping(places, b)

\* Partial choices compete only with those that can be completed the same way.
SameKey(places, a, b) ==
    Sleeping(places, a) = Sleeping(places, b) /\ Features(a) = Features(b)

\* Room r is added to every partial choice kept so far; a choice that is large enough
\* is not extended, nor one that already has as many rooms as the best.
Extend(places, found, r) ==
    LET made == {s \cup {r} : s \in found.partial}
        full == {s \in made : Sleeping(places, s) >= people}
        best == TheBest(places, full \cup ({found.best} \ {{}}))
        alive == found.partial \cup
                 {s \in made \ full : best = {} \/ Cardinality(s) < Cardinality(best)}
    IN  [best |-> best,
         partial |-> {s \in alive : \A t \in alive \ {s} :
                         SameKey(places, s, t) => Better(places, s, t)}]

RecommendRooms(places) ==
    LET pass[r \in 0..Len(house)] ==
            IF r = 0 THEN [best |-> {}, partial |-> {{}}] ELSE Extend(places, pass[r - 1], r)
    IN  IF Sleeping(places, DOMAIN house) < people THEN {} ELSE pass[Len(house)].best

\* Mutant: overflow places count like any others.
RecommendationAtMaximum == [rooms |-> RecommendRooms(MaximumPlaces), overflow |-> FALSE]

\* Overflow places are counted only when the rooms cannot sleep the party otherwise.
Recommendation ==
    LET standard == RecommendRooms(StandardPlaces)
        maximum == RecommendRooms(MaximumPlaces)
    IN  IF standard # {} THEN [rooms |-> standard, overflow |-> FALSE]
                         ELSE [rooms |-> maximum, overflow |-> maximum # {}]

-----------------------------------------------------------------------------
(***************************************************************************)
(* The household policy's own allocation, which knows no preferences       *)
(***************************************************************************)

Cheaper(places, a, b) ==
    \/ Cardinality(a) < Cardinality(b)
    \/ /\ Cardinality(a) = Cardinality(b)
       /\ \/ Sleeping(places, a) < Sleeping(places, b)
          \/ Sleeping(places, a) = Sleeping(places, b) /\ ComesFirst(a, b)

\* Mutant: a choice with as many rooms as the best is not looked at.
HopelessAtOneLess(chosen, best) == best # {} /\ Cardinality(chosen) + 1 >= Cardinality(best)

\* The depth-first search does not extend a choice that has the best one's size.
Hopeless(chosen, best) == best # {} /\ Cardinality(chosen) >= Cardinality(best)

AllocateRooms(places) ==
    LET search[i \in 1..Len(house) + 1] ==
            [s \in SUBSET DOMAIN house |-> [best \in SUBSET DOMAIN house |->
                IF Sleeping(places, s) >= people
                THEN IF best = {} \/ Cheaper(places, s, best) THEN s ELSE best
                ELSE IF i > Len(house) \/ Hopeless(s, best) THEN best
                ELSE search[i + 1][s][search[i + 1][s \cup {i}][best]]]]
    IN  search[1][{}][{}]

-----------------------------------------------------------------------------
(***************************************************************************)
(* The check of a selection, and the policy hook's verdict on it           *)
(***************************************************************************)

Selection(rooms, consent) ==
    CASE rooms = {} -> "deny"
      [] Sleeping(StandardPlaces, rooms) >= people -> "allow"
      [] OTHER -> IF Sleeping(MaximumPlaces, rooms) < people \/ ~consent
                  THEN "deny" ELSE "interrupt"

\* The policy counts standard places, whatever the selection sleeps.
HookVerdict(rooms, consent) ==
    IF AllocateRooms(StandardPlaces) = {} THEN "deny" ELSE Selection(rooms, consent)

\* The search offers the stay if the policy finds beds: standard ones, or the
\* overflow ones of a recommendation that needs them.
BedsFor(recommendation) ==
    AllocateRooms(IF recommendation.overflow THEN MaximumPlaces ELSE StandardPlaces) # {}

FindGuestOptions ==
    /\ offer = NoOffer
    /\ Recommendation.rooms # {}
    /\ BedsFor(Recommendation)
    /\ offer' = Recommendation
    /\ UNCHANGED <<house, people, outcome>>

\* The guest may choose other free rooms than the recommended ones.
SubmitGuestVisit(rooms, consent) ==
    /\ offer # NoOffer
    /\ outcome = NoOutcome
    /\ outcome' = [rooms |-> rooms, consent |-> consent, verdict |-> HookVerdict(rooms, consent)]
    /\ UNCHANGED <<house, people, offer>>

ChoiceNext ==
    \/ FindGuestOptions
    \/ \E rooms \in SUBSET DOMAIN house, consent \in BOOLEAN : SubmitGuestVisit(rooms, consent)

ChoiceSpec == ChoiceInit /\ [][ChoiceNext]_choiceVars

-----------------------------------------------------------------------------
(***************************************************************************)
(* Properties                                                              *)
(***************************************************************************)

ChoiceTypeOK ==
    /\ house \in Houses
    /\ people \in 1..MaxParty
    /\ offer \in [rooms : SUBSET DOMAIN house, overflow : BOOLEAN]
    /\ outcome = NoOutcome \/
       outcome \in [rooms : SUBSET DOMAIN house, consent : BOOLEAN,
                    verdict : {"deny", "interrupt", "allow"}]

LargeEnough(places) == {s \in SUBSET DOMAIN house : Sleeping(places, s) >= people}

\* The pruned dynamic programme (recommendation.ts:54-80) and the pruned search
\* (allocate-rooms.ts:38-50) each find the best of all choices that sleep the party,
\* although a weaker partial choice may lead to the best one.
RecommendsTheBest ==
    \A places \in {StandardPlaces, MaximumPlaces} :
        LET choices == LargeEnough(places)
            found == RecommendRooms(places)
            allocated == AllocateRooms(places)
        IN  /\ found = {} <=> choices = {}
            /\ allocated = {} <=> choices = {}
            /\ choices # {} => /\ found \in choices
                               /\ \A s \in choices \ {found} : Better(places, found, s)
                               /\ allocated \in choices
                               /\ \A s \in choices \ {allocated} : Cheaper(places, allocated, s)

\* What the search recommends can be booked as it stands: the check of the selection
\* accepts it, and asks a host exactly when the search said it would
\* (find-room-options.ts:78, occupancy.ts:40-95).
OffersAreBookable ==
    offer # NoOffer =>
        Selection(offer.rooms, offer.overflow) = IF offer.overflow THEN "interrupt" ELSE "allow"

\* "A selection that fits only at maximum capacity pauses with the exact overflow
\* arrangement and needs host approval" (docs/architecture/README.md:35).
OverflowAsksAHost ==
    outcome # NoOutcome =>
        (/\ outcome.consent
         /\ Sleeping(StandardPlaces, outcome.rooms) < people
         /\ Sleeping(MaximumPlaces, outcome.rooms) >= people
         => outcome.verdict = "interrupt")
=============================================================================
