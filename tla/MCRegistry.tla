----------------------------- MODULE MCRegistry -----------------------------
(* What the instances of ReactionPass register: five gases; plasma and     *)
(* tritium fires around reactions run by DM.                               *)
EXTENDS Integers, Sequences

CONSTANTS None, NonFinite

NoRole == [kind |-> "none", min |-> 0, rate |-> 0]

Gas(id, key) ==
    [id |-> id, key |-> key, heat |-> 1, fusion |-> 0, enthalpy |-> 0, visible |-> None,
     radiation |-> 0, role |-> NoRole, products |-> << >>]

Air ==
    << [Gas(1, "o2") EXCEPT !.role = [kind |-> "oxidizer", min |-> 0, rate |-> 1]],
       [Gas(0, "plasma") EXCEPT !.role = [kind |-> "fuel", min |-> 0, rate |-> 2],
                                !.products = << [gas |-> 2, amount |-> 1] >>],
       Gas(2, "co2"), Gas(3, "tritium"), Gas(4, "water_vapor") >>

\* One valid batch and one batch for each rule a batch may break.
MCGasBatches ==
    {Air, Append(Air, Gas(5, "n2")),
     [Air EXCEPT ![3].id = 4], [Air EXCEPT ![3].id = 7],
     [Air EXCEPT ![4].key = ""], [Air EXCEPT ![4].key = "co2"],
     [Air EXCEPT ![1].heat = 0], [Air EXCEPT ![1].heat = NonFinite],
     [Air EXCEPT ![1].enthalpy = 9],
     [Air EXCEPT ![5].visible = -1],
     [Air EXCEPT ![2].role.rate = 0],
     [Air EXCEPT ![2].products = << [gas |-> 5, amount |-> 1] >>],
     [Air EXCEPT ![2].products = << [gas |-> 2, amount |-> 1], [gas |-> 2, amount |-> 0] >>]}

Reaction(id, key, priority, exec, needs) ==
    [id |-> id, key |-> key, priority |-> priority, minT |-> None, maxT |-> None,
     minEnergy |-> None, minFire |-> None, needs |-> needs, exec |-> exec]

Needs(gas) == [gas |-> gas, amount |-> 1]

Fires ==
    << [Reaction(1, "h2fire", 5, "plasma", << Needs(0), Needs(1) >>) EXCEPT !.minFire = 0],
       Reaction(2, "fusion", 3, "dm", << Needs(4) >>),
       [Reaction(0, "tritfire", 1, "tritium", << Needs(3) >>) EXCEPT !.minT = 1],
       [Reaction(3, "nitrium", 0, "dm", << Needs(1) >>) EXCEPT !.maxT = 1, !.minEnergy = 1] >>

Cold == << Reaction(0, "freonfire", 2, "freon", << Needs(1) >>) >>

MCReactionBatches ==
    {Fires, Cold,
     [Fires EXCEPT ![4].priority = 1], [Fires EXCEPT ![4].priority = 4], [Fires EXCEPT ![1].id = 2],
     [Fires EXCEPT ![2].priority = NonFinite],
     [Fires EXCEPT ![3].minT = 1, ![3].maxT = 0],
     [Fires EXCEPT ![2].needs = << Needs(9) >>],
     [Fires EXCEPT ![2].needs = << Needs(4), Needs(4) >>]}

AirOnly == {Air}
FiresOnly == {Fires}
=============================================================================
