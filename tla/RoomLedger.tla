----------------------------- MODULE RoomLedger -----------------------------
(***************************************************************************)
(* What a home promises about its rooms, without drafts, policies,         *)
(* approvals, expiry dates or availability: a room is given for a night to *)
(* one guest or one private block.  A guest with a firm stay moves or      *)
(* leaves of their own accord; others' bookings may turn out a tentative   *)
(* one only.  Who has withdrawn has no room and takes none.                *)
(***************************************************************************)
CONSTANTS Guest, Block, Slot    \* a slot is a room for a night

VARIABLES
    has,        \* [Guest -> SUBSET Slot]
    kept,       \* [Block -> SUBSET Slot]
    firm,       \* the guests whose stay is confirmed
    gone        \* the guests who withdrew

Init ==
    /\ has = [g \in Guest |-> {}]
    /\ kept = [b \in Block |-> {}]
    /\ firm = {}
    /\ gone = {}

\* Of these guests the tentative ones may lose what they have; nobody else does.
MayTurnOut(G) ==
    \A g \in G : has'[g] = has[g] \/ (g \notin firm /\ has'[g] = {})

\* g has other slots from now on, which nobody has who keeps theirs.
Take(g) ==
    /\ g \notin gone
    /\ UNCHANGED <<kept, gone>>
    /\ firm' \in {firm, firm \cup {g}}
    /\ MayTurnOut(Guest \ {g})
    /\ \A h \in Guest \ {g} : has'[g] \cap has'[h] = {}
    /\ \A b \in Block : has'[g] \cap kept[b] = {}
    /\ has' \in [Guest -> SUBSET Slot]

TurnOut ==
    /\ UNCHANGED <<kept, firm, gone>>
    /\ MayTurnOut(Guest)
    /\ has' \in [Guest -> SUBSET Slot]

Leave(g) ==
    /\ has' = [has EXCEPT ![g] = {}]
    /\ firm' = firm \ {g}
    /\ UNCHANGED <<kept, gone>>

Withdraw(g) ==
    /\ g \notin gone
    /\ has' = [has EXCEPT ![g] = {}]
    /\ firm' = firm \ {g}
    /\ gone' = gone \cup {g}
    /\ UNCHANGED kept

Keep(b) ==
    /\ kept[b] = {}
    /\ kept'[b] \in SUBSET Slot
    /\ kept' = [kept EXCEPT ![b] = kept'[b]]
    /\ \A g \in Guest : kept'[b] \cap has[g] = {}
    /\ \A c \in Block \ {b} : kept'[b] \cap kept[c] = {}
    /\ UNCHANGED <<has, firm, gone>>

Release(b) ==
    /\ kept' = [kept EXCEPT ![b] = {}]
    /\ UNCHANGED <<has, firm, gone>>

Next ==
    \/ TurnOut
    \/ \E g \in Guest : Take(g) \/ Leave(g) \/ Withdraw(g)
    \/ \E b \in Block : Keep(b) \/ Release(b)

Spec == Init /\ [][Next]_<<has, kept, firm, gone>>
=============================================================================
