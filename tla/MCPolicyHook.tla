---------------------------- MODULE MCPolicyHook ----------------------------
(***************************************************************************)
(* Ana's family may hold a second time; Bea books once.  `single` sleeps   *)
(* one, `double` one or two, or with overflow two on one mattress or       *)
(* another, as hosts decide.  A `couple` names the double room and may     *)
(* need overflow there; the `asker`, a couple too, has a special request   *)
(* and leaves the rooms to the house; both accept overflow places.         *)
(***************************************************************************)
EXTENDS PolicyHook

CONSTANTS ana, bea, a1, a2, b1, single, double, quiet, asker, couple

MCMadeFor == [v \in Visit |-> IF v = b1 THEN bea ELSE ana]
MCPeople == [p \in Party |-> IF p = quiet THEN 1 ELSE 2]

Beds(standard, maximum, arrangement) ==
    [state |-> "available", standard |-> standard, maximum |-> maximum,
     arrangement |-> arrangement]

MCEntries == [r \in Room |->
    IF r = single THEN {Beds(1, 1, "beds")}
    ELSE {Beds(1, 2, "air"), Beds(1, 2, "sofa"), Beds(2, 2, "beds")}]

TwoFamilies == [together |-> TRUE, families |-> 2]
OneFamilyPetsApart == [together |-> FALSE, families |-> 1]
MCRules == {TwoFamilies, OneFamilyPetsApart}

Asked(stay, party, rooms) ==
    [stay |-> stay, party |-> party, rooms |-> rooms, overflow |-> party # quiet]

MCWishes == [i \in Invitation |->
    IF i = ana
    THEN {Asked({2}, couple, {double}), Asked({1}, asker, {})}
    ELSE {Asked({2}, quiet, {double}), Asked({1, 2}, quiet, {single})}]
=============================================================================
