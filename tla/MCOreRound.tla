----------------------------- MODULE MCOreRound ----------------------------
(***************************************************************************)
(* Instances of OreRound for TLC.                                          *)
(***************************************************************************)
EXTENDS OreRound, TLC

\* Equal weights: shares round down, and dogs are interchangeable.
Copper == [d \in Dogs |-> 1]

\* Unequal weights: one dog of weight 2, the others of weight 1.
Mixed ==
    LET best == CHOOSE d \in Dogs : TRUE
    IN  [d \in Dogs |-> IF d = best THEN 2 ELSE 1]

Interchangeable == Permutations(Dogs) \cup Permutations(RoundSlots)
SlotsAlike == Permutations(RoundSlots)
=============================================================================
