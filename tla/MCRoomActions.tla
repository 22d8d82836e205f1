---------------------------- MODULE MCRoomActions ----------------------------
(***************************************************************************)
(* Two invitations compete with the hosts for one room over two nights.    *)
(* While it is available it has places for two; while it is withheld, for  *)
(* one, or with overflow two.  Swapping the invitations with their visits  *)
(* changes nothing.                                                        *)
(***************************************************************************)
EXTENDS RoomActions

CONSTANTS ana, bea, a1, b1, double, pair

MCMadeFor == [v \in Visit |-> IF v = b1 THEN bea ELSE ana]
MCPeople == [p \in Party |-> 2]

MCEntries == [r \in Room |->
    {[state |-> "available", standard |-> 2, maximum |-> 2, arrangement |-> "beds"],
     [state |-> "withheld", standard |-> 1, maximum |-> 2, arrangement |-> "mattress"]}]

MCOneRule == {[together |-> TRUE, families |-> 2]}

MCPlans ==
    {[kind |-> "open", rooms |-> {double}, stay |-> {1, 2}],
     [kind |-> "close", rooms |-> {double}, stay |-> {2}],
     [kind |-> "private_block", rooms |-> {double}, stay |-> {1}]}

Swap == [x \in {ana, bea, a1, b1} |->
            CASE x = ana -> bea [] x = bea -> ana [] x = a1 -> b1 [] x = b1 -> a1]
MCSymmetry == {Swap}
=============================================================================
