---------------------------- MODULE MCPaidCalls ----------------------------
(* Instances of PaidCalls for TLC: four users. *)
EXTENDS PaidCalls

\* ICP's fee is 10^-4; the other fees are a unit of the model or below.
SmallFee == [t \in Tokens |-> IF t = "DOGMI" THEN 50 ELSE 1]

Plan(kinds, n, l, icp, bone, dogmi) ==
    [kinds |-> kinds, clicks |-> n, level |-> l,
     funds |-> [t \in Tokens |-> CASE t = "ICP" -> icp [] t = "BONE" -> bone [] OTHER -> dogmi]]

\* ICP for two creations, or for a creation and a top-up; BONE for one upgrade and
\* an alliance, and DOGMI for the last upgrade; the same with what costs nothing.
MCPlans ==
    {Plan({"create_dog", "add_cycles"}, 2, 1, 20004, 0, 0),
     Plan({"dog_level_upgrade", "create_alliance", "join_alliance"}, 2, 2, 0, 3004, 1000100),
     Plan({"dog_level_upgrade", "join_alliance"}, 2, 3, 0, 204, 1000100),
     Plan({"create_dog", "dog_level_upgrade", "leave_alliance"}, 2, 3, 10003, 0, 1000100)}
=============================================================================
